-------------------------- MODULE ImapSessionProofs --------------------------
(***************************************************************************)
(* Proofs about ImapSession, for every profile, every -msgs, every number  *)
(* of messages and whatever the server refuses.                            *)
(*                                                                         *)
(* With any number of clients, each client's view is exactly what its      *)
(* session was told, if the server reports nothing in answer to APPEND.    *)
(* With one, what it takes its mailbox to hold is never less than the      *)
(* mailbox holds, so that this stays within its bound; and if the server   *)
(* reports nothing in answer to APPEND it is what the mailbox holds, and   *)
(* no honest server is accused.                                            *)
(*                                                                         *)
(* A session's view counts messages and the server names them, so most of  *)
(* the argument is about how many messages of a mailbox a session knows.   *)
(***************************************************************************)
EXTENDS ImapSession, SequenceTheorems, FunctionTheorems, FiniteSetTheorems,
        WellFoundedInduction, TLAPS

Boxes == [MailboxNames -> Seq(Messages)]

Typed ==
  /\ box \in Boxes
  /\ server \in Servers /\ profile \in Profiles /\ duration \in Durations
  /\ seq \in 0 .. Total(profile) * Len(Mailboxes) - 1
  /\ pc \in [Clients -> {"idle", "loop", "choose", "reselect", "send", "done"}]
  /\ state \in [Clients -> {"disconnected", "authenticated", "selected"}]
  /\ view \in [Clients -> Views]
  /\ pending \in [Clients -> [cmd : Commands, mailbox : MailboxNames \cup {NoMailbox}]]
  /\ iterCount \in 0 .. Iterations
  /\ ended \in BOOLEAN /\ mismatched \in BOOLEAN

Told(c, s) == Cardinality(KnownTo(c, s))

(* How many messages of b its view says c knows: of what it has open, what *)
(* it last saw there, and of anything else nothing.                        *)
Counted(c, b) ==
  IF state[c] = "selected" /\ view[c].mailbox = b THEN view[c].exists ELSE 0

(* A command goes to the mailbox that is open, and a SELECT anywhere.      *)
Addressed(c) ==
  /\ state[c] = "selected" => view[c].mailbox \in MailboxNames
  /\ pc[c] = "send" =>
       /\ pending[c].mailbox \in MailboxNames
       /\ \/ pending[c].cmd = "SELECT"
          \/ state[c] = "selected" /\ pending[c].mailbox = view[c].mailbox

Session(c) == ~server.reports =>
  /\ view[c].exists = view[c].baseline
  /\ \A b \in MailboxNames : Told(c, box[b]) = Counted(c, b)

Inv == Typed /\ \A c \in Clients : Addressed(c) /\ Session(c)

(* With one client: what it does not know of was never flagged, for it     *)
(* flags by its own numbers, and nothing expunged stays behind.            *)
Unflagged(c, s) == \A i \in DOMAIN s : c \notin s[i].known => ~s[i].flagged
NoneGone(s) == \A i \in DOMAIN s : ~s[i].gone

Bound == Max({Initially, 2 * TargetMessages + 1})

Sound(c) ==
  /\ \A b \in MailboxNames : NoneGone(box[b])
  /\ state[c] = "selected" => Unflagged(c, box[view[c].mailbox])
  /\ server.stores /\ state[c] = "selected" =>
       /\ Len(box[view[c].mailbox]) <= HeldBy(view[c])
       /\ ~server.reports => Len(box[view[c].mailbox]) = HeldBy(view[c])
  /\ server.stores /\ ~server.reports => ~mismatched

Bounded(c) == TargetMessages > 0 =>
  /\ pc[c] = "send" /\ pending[c].cmd = "APPEND" => HeldBy(view[c]) <= 2 * TargetMessages
  /\ \A b \in MailboxNames : Len(box[b]) <= Bound

-----------------------------------------------------------------------------
(* The profile's weights. *)

LEMMA LeastNumber ==
  ASSUME NEW T \in SUBSET Nat, T # {}
  PROVE  \E n \in T : \A m \in T : n <= m
<1> DEFINE less == OpToRel(<, Nat)
<1>1. PICK n \in T : \A m \in T : <<m, n>> \notin less
  <2>1. IsWellFoundedOn(less, Nat)
    BY NatLessThanWellFounded
  <2> HIDE DEF less
  <2> QED
    BY <2>1, WFMin
<1>2. \A a, b \in Nat : a < b => <<a, b>> \in less
  BY DEF OpToRel
<1> HIDE DEF less
<1>3. \A m \in T : ~(m < n)
  BY <1>1, <1>2
<1> QED
  BY <1>3

WeightLists == Seq(Weighted)

(* Summing the weights from the left.                                      *)
LEMMA TotalsAre ==
  ASSUME NEW ws \in WeightLists
  PROVE  /\ Len(ws) \in Nat
         /\ \A k \in 1 .. Len(ws) : ws[k].cmd \in Commands /\ ws[k].weight \in Nat \ {0}
         /\ TotalUpTo(ws, 0) = 0
         /\ \A k \in 1 .. Len(ws) : TotalUpTo(ws, k) = TotalUpTo(ws, k - 1) + ws[k].weight
         /\ \A k \in 0 .. Len(ws) : TotalUpTo(ws, k) \in Nat
<1> DEFINE n == Len(ws)
           SumsTo(f, m) == f = [i \in 0 .. m |-> IF i = 0 THEN 0 ELSE f[i - 1] + ws[i].weight]
<1>1. n \in Nat /\ \A k \in 1 .. n : ws[k].cmd \in Commands /\ ws[k].weight \in Nat \ {0}
  <2>1. n \in Nat
    BY LenProperties DEF WeightLists
  <2>2. \A k \in 1 .. n : ws[k] \in Weighted
    BY ElementOfSeq DEF WeightLists
  <2> QED
    BY <2>1, <2>2 DEF Weighted
<1>2. \A m \in 0 .. n : \E f : SumsTo(f, m)
  <2> DEFINE T == {m \in 0 .. n : ~\E f : SumsTo(f, m)}
  <2> SUFFICES ASSUME T # {} PROVE FALSE
    OBVIOUS
  <2>1. T \in SUBSET Nat
    BY <1>1
  <2>2. PICK m \in T : \A k \in T : m <= k
    BY <2>1, LeastNumber
  <2>3. m \in 0 .. n /\ ~\E f : SumsTo(f, m)
    BY <2>2
  <2>4. CASE m = 0
    <3>1. SumsTo([i \in 0 .. 0 |-> 0], 0)
      OBVIOUS
    <3> QED
      BY <2>3, <2>4, <3>1
  <2>5. CASE m # 0
    <3>1. m \in Nat /\ m - 1 \in 0 .. n /\ ~(m <= m - 1)
      BY <1>1, <2>3, <2>5
    <3>2. m - 1 \notin T
      BY <2>2, <3>1
    <3>3. PICK f : SumsTo(f, m - 1)
      BY <3>1, <3>2
    <3> DEFINE g == [i \in 0 .. m |-> IF i = m THEN f[m - 1] + ws[m].weight ELSE f[i]]
    <3>4. SumsTo(g, m)
      <4>1. \A i \in 0 .. m : g[i] = IF i = 0 THEN 0 ELSE g[i - 1] + ws[i].weight
        <5> SUFFICES ASSUME NEW i \in 0 .. m
                     PROVE  g[i] = IF i = 0 THEN 0 ELSE g[i - 1] + ws[i].weight
          OBVIOUS
        <5>1. CASE i = m
          BY <2>5, <3>1, <5>1
        <5>2. CASE i # m
          <6>1. i \in 0 .. m - 1 /\ i - 1 # m /\ (i # 0 => i - 1 \in 0 .. m)
            BY <3>1, <5>2
          <6>2. f[i] = IF i = 0 THEN 0 ELSE f[i - 1] + ws[i].weight
            BY <3>3, <6>1
          <6> QED
            BY <5>2, <6>1, <6>2
        <5> QED
          BY <5>1, <5>2
      <4>2. g = [i \in 0 .. m |-> g[i]]
        OBVIOUS
      <4> HIDE DEF g
      <4> QED
        BY <4>1, <4>2
    <3> QED
      BY <2>3, <3>4
  <2> QED
    BY <2>4, <2>5
<1>3. SumsTo(TotalsOf(ws), n)
  <2>1. TotalsOf(ws) = CHOOSE f : SumsTo(f, n)
    BY DEF TotalsOf
  <2>2. \E f : SumsTo(f, n)
    BY <1>1, <1>2
  <2> HIDE DEF SumsTo, n
  <2> QED
    BY <2>1, <2>2
<1>4. /\ TotalUpTo(ws, 0) = 0
      /\ \A k \in 1 .. n : TotalUpTo(ws, k) = TotalUpTo(ws, k - 1) + ws[k].weight
  BY <1>1, <1>3 DEF TotalUpTo
<1> HIDE DEF SumsTo, n
<1>5. \A k \in 0 .. n : TotalUpTo(ws, k) \in Nat
  <2> DEFINE T == {m \in 0 .. n : TotalUpTo(ws, m) \notin Nat}
  <2> SUFFICES ASSUME T # {} PROVE FALSE
    OBVIOUS
  <2>1. T \in SUBSET Nat
    BY <1>1
  <2>2. PICK m \in T : \A k \in T : m <= k
    BY <2>1, LeastNumber
  <2>3. m \in 1 .. n
    BY <1>1, <1>4, <2>2
  <2>4. m - 1 \in 0 .. n /\ ~(m <= m - 1)
    BY <1>1, <2>3
  <2>5. TotalUpTo(ws, m - 1) \in Nat
    BY <2>2, <2>4
  <2>6. TotalUpTo(ws, m) \in Nat
    BY <1>1, <1>4, <2>3, <2>5
  <2> QED
    BY <2>2, <2>6
<1> QED
  BY <1>1, <1>4, <1>5 DEF n

LEMMA ProfileIs ==
  ASSUME NEW ws \in Profiles
  PROVE  ws \in WeightLists /\ Total(ws) \in Nat \ {0}
<1>1. ws \in WeightLists /\ ws # <<>>
  BY ProfilesAssumption DEF WeightLists
<1>2. Len(ws) \in Nat \ {0}
  BY <1>1, EmptySeq DEF WeightLists
<1>3. Len(ws) \in 1 .. Len(ws) /\ Len(ws) - 1 \in 0 .. Len(ws)
  BY <1>2
<1>4. /\ Total(ws) = TotalUpTo(ws, Len(ws) - 1) + ws[Len(ws)].weight
      /\ TotalUpTo(ws, Len(ws) - 1) \in Nat
      /\ ws[Len(ws)].weight \in Nat \ {0}
  BY <1>1, <1>3, TotalsAre DEF Total
<1> QED
  BY <1>1, <1>4

LEMMA TotalsGrow ==
  ASSUME NEW ws \in WeightLists, NEW j \in 0 .. Len(ws), NEW k \in 0 .. Len(ws), j <= k
  PROVE  TotalUpTo(ws, j) <= TotalUpTo(ws, k)
<1> DEFINE T == {m \in 0 .. Len(ws) : j <= m /\ ~(TotalUpTo(ws, j) <= TotalUpTo(ws, m))}
<1> SUFFICES ASSUME T # {} PROVE FALSE
  OBVIOUS
<1>1. Len(ws) \in Nat /\ j \in Nat
  BY TotalsAre
<1>2. T \in SUBSET Nat
  BY <1>1
<1>3. PICK m \in T : \A i \in T : m <= i
  BY <1>2, LeastNumber
<1>4. m \in 0 .. Len(ws) /\ j <= m /\ ~(TotalUpTo(ws, j) <= TotalUpTo(ws, m))
  BY <1>3
<1>5. m # j
  BY <1>1, <1>4, TotalsAre
<1>6. m \in 1 .. Len(ws) /\ m - 1 \in 0 .. Len(ws) /\ j <= m - 1 /\ ~(m <= m - 1)
  BY <1>1, <1>4, <1>5
<1>7. m - 1 \notin T
  BY <1>3, <1>6
<1>8. TotalUpTo(ws, j) <= TotalUpTo(ws, m - 1)
  BY <1>6, <1>7
<1>9. /\ TotalUpTo(ws, m) = TotalUpTo(ws, m - 1) + ws[m].weight
      /\ ws[m].weight \in Nat /\ TotalUpTo(ws, m - 1) \in Nat /\ TotalUpTo(ws, j) \in Nat
  BY <1>6, TotalsAre
<1> QED
  BY <1>4, <1>8, <1>9

(* Every number picks one command of the profile: the first whose total    *)
(* is past it.                                                             *)
LEMMA PickExact ==
  ASSUME NEW ws \in Profiles, NEW n \in Nat
  PROVE  \E k \in 1 .. Len(ws) :
           /\ Pick(ws, n) = ws[k].cmd
           /\ \A j \in 1 .. Len(ws) :
                (TotalUpTo(ws, j - 1) <= n % Total(ws) /\ n % Total(ws) < TotalUpTo(ws, j))
                  <=> j = k
<1> DEFINE slot == n % Total(ws)
           Names(k) == TotalUpTo(ws, k - 1) <= slot /\ slot < TotalUpTo(ws, k)
           T == {k \in 1 .. Len(ws) : slot < TotalUpTo(ws, k)}
<1>1. /\ ws \in WeightLists /\ Total(ws) \in Nat \ {0} /\ Len(ws) \in Nat
      /\ TotalUpTo(ws, 0) = 0 /\ Total(ws) = TotalUpTo(ws, Len(ws))
      /\ DOMAIN ws = 1 .. Len(ws)
  BY ProfileIs, TotalsAre, LenProperties DEF Total, WeightLists
<1>2. slot \in Nat /\ slot < Total(ws)
  BY <1>1
<1>3. T # {}
  <2>1. Len(ws) # 0
    BY <1>1
  <2>2. Len(ws) \in 1 .. Len(ws)
    BY <1>1, <2>1
  <2> HIDE DEF slot
  <2> QED
    BY <1>1, <1>2, <2>2
<1>4. T \in SUBSET Nat
  BY <1>1
<1>5. PICK k \in T : \A m \in T : k <= m
  BY <1>3, <1>4, LeastNumber
<1>6. Names(k)
  <2>1. k \in 1 .. Len(ws) /\ slot < TotalUpTo(ws, k) /\ k \in Nat
    BY <1>4, <1>5
  <2> HIDE DEF slot
  <2>2. CASE k = 1
    BY <1>1, <1>2, <2>1, <2>2
  <2>3. CASE k # 1
    <3>1. k - 1 \in 1 .. Len(ws) /\ k - 1 \in 0 .. Len(ws) /\ ~(k <= k - 1)
      BY <1>1, <2>1, <2>3
    <3>2. k - 1 \notin T
      BY <1>5, <3>1
    <3>3. ~(slot < TotalUpTo(ws, k - 1)) /\ TotalUpTo(ws, k - 1) \in Nat
      BY <1>1, <3>1, <3>2, TotalsAre
    <3> QED
      BY <1>2, <2>1, <3>3
  <2> QED
    BY <2>2, <2>3
<1>7. k \in DOMAIN ws
  BY <1>1, <1>5
<1> DEFINE i == CHOOSE j \in DOMAIN ws : Names(j)
<1>8. Pick(ws, n) = ws[i].cmd
  BY DEF Pick
<1> HIDE DEF Names
<1>9. i \in 1 .. Len(ws) /\ Names(i)
  BY <1>1, <1>6, <1>7
<1> HIDE DEF i
<1>10. \A j \in 1 .. Len(ws) : Names(j) <=> j = i
  <2> SUFFICES ASSUME NEW j \in 1 .. Len(ws), Names(j), j # i PROVE FALSE
    BY <1>9
  <2>1. ASSUME NEW x \in 1 .. Len(ws), NEW y \in 1 .. Len(ws), Names(x), Names(y), x < y
        PROVE  FALSE
    <3>1. x \in 0 .. Len(ws) /\ y - 1 \in 0 .. Len(ws) /\ x <= y - 1
      BY <1>1, <2>1
    <3>2. TotalUpTo(ws, x) <= TotalUpTo(ws, y - 1)
      BY <1>1, <3>1, TotalsGrow
    <3>3. TotalUpTo(ws, x) \in Nat /\ TotalUpTo(ws, y - 1) \in Nat
      BY <1>1, <3>1, TotalsAre
    <3>4. TotalUpTo(ws, y - 1) <= slot /\ slot < TotalUpTo(ws, x)
      BY <2>1 DEF Names
    <3> HIDE DEF slot
    <3> QED
      BY <1>2, <3>2, <3>3, <3>4
  <2>2. j < i \/ i < j
    BY <1>1, <1>9
  <2> QED
    BY <1>9, <2>1, <2>2
<1> QED
  BY <1>8, <1>9, <1>10 DEF Names

LEMMA PickIs ==
  ASSUME NEW ws \in Profiles, NEW n \in Nat
  PROVE  Pick(ws, n) \in Commands
<1>1. PICK k \in 1 .. Len(ws) : Pick(ws, n) = ws[k].cmd
  BY PickExact
<1>2. ws \in WeightLists
  BY ProfileIs
<1> QED
  BY <1>1, <1>2, TotalsAre

(* Out of as many commands as the weights add up to, a command of the      *)
(* profile that is listed once is picked as often as its weight says.      *)
THEOREM SharesAreWeights ==
  ASSUME NEW ws \in Profiles, NEW k \in DOMAIN ws,
         \A j \in DOMAIN ws : ws[j].cmd = ws[k].cmd => j = k
  PROVE  Cardinality({n \in 0 .. Total(ws) - 1 : Pick(ws, n) = ws[k].cmd}) = ws[k].weight
<1> DEFINE low == TotalUpTo(ws, k - 1)
           high == TotalUpTo(ws, k)
           all == Total(ws)
<1>1. /\ ws \in WeightLists /\ all \in Nat \ {0} /\ Len(ws) \in Nat
      /\ DOMAIN ws = 1 .. Len(ws) /\ all = TotalUpTo(ws, Len(ws))
  BY ProfileIs, TotalsAre, LenProperties DEF Total, WeightLists
<1>2. k \in 0 .. Len(ws) /\ k - 1 \in 0 .. Len(ws) /\ Len(ws) \in 0 .. Len(ws) /\ k <= Len(ws)
  BY <1>1
<1>3. low \in Nat /\ high = low + ws[k].weight /\ ws[k].weight \in Nat \ {0}
  BY <1>1, <1>2, TotalsAre
<1>4. high <= all
  BY <1>1, <1>2, TotalsGrow
<1> HIDE DEF low, high, all
<1>5. \A n \in 0 .. all - 1 : n % all = n /\ n \in Nat
  <2>1. all \in Nat \ {0}
    BY <1>1
  <2> QED
    BY <2>1
<1>6. \A n \in 0 .. all - 1 : Pick(ws, n) = ws[k].cmd <=> low <= n /\ n < high
  <2> SUFFICES ASSUME NEW n \in 0 .. all - 1
               PROVE  Pick(ws, n) = ws[k].cmd <=> low <= n /\ n < high
    OBVIOUS
  <2>1. PICK i \in 1 .. Len(ws) :
          /\ Pick(ws, n) = ws[i].cmd
          /\ \A j \in 1 .. Len(ws) :
               (TotalUpTo(ws, j - 1) <= n % all /\ n % all < TotalUpTo(ws, j)) <=> j = i
    BY <1>5, PickExact DEF all
  <2>2. low <= n /\ n < high <=> k = i
    BY <1>1, <1>5, <2>1 DEF low, high
  <2>3. ws[i].cmd = ws[k].cmd <=> k = i
    BY <1>1
  <2> QED
    BY <2>1, <2>2, <2>3
<1>7. {n \in 0 .. all - 1 : Pick(ws, n) = ws[k].cmd} = low .. high - 1
  <2>1. \A n \in low .. high - 1 : n \in 0 .. all - 1 /\ low <= n /\ n < high
    BY <1>1, <1>3, <1>4
  <2>2. \A n \in 0 .. all - 1 : low <= n /\ n < high => n \in low .. high - 1
    BY <1>1, <1>3, <1>4
  <2> QED
    BY <1>6, <2>1, <2>2
<1>8. Cardinality(low .. high - 1) = ws[k].weight
  <2>1. low \in Int /\ high - 1 \in Int /\ ~(low > high - 1)
    BY <1>3
  <2>2. Cardinality(low .. high - 1) = high - 1 - low + 1
    BY <2>1, FS_Interval
  <2> QED
    BY <1>3, <2>2
<1> QED
  BY <1>7, <1>8 DEF all

(* The counter stays within the length of the schedule.                    *)
LEMMA SeqIs ==
  ASSUME NEW ws \in Profiles
  PROVE  /\ Len(Mailboxes) \in Nat \ {0}
         /\ \A n \in Nat :
              n % (Total(ws) * Len(Mailboxes)) \in 0 .. Total(ws) * Len(Mailboxes) - 1
         /\ 0 \in 0 .. Total(ws) * Len(Mailboxes) - 1
<1>1. Len(Mailboxes) \in Nat \ {0}
  BY ConfigAssumption, EmptySeq
<1> DEFINE m == Total(ws) * Len(Mailboxes)
<1>2. m \in Nat \ {0}
  <2> DEFINE a == Total(ws)
             b == Len(Mailboxes)
  <2>1. a \in Nat \ {0} /\ b \in Nat \ {0}
    BY <1>1, ProfileIs
  <2> HIDE DEF a, b
  <2>2. a * b \in Nat \ {0}
    BY <2>1
  <2> QED
    BY <2>2 DEF a, b
<1> HIDE DEF m
<1>3. \A n \in Nat : n % m \in 0 .. m - 1
  BY <1>2
<1>4. 0 \in 0 .. m - 1
  BY <1>2
<1> QED
  BY <1>1, <1>3, <1>4 DEF m

LEMMA MailboxIs ==
  ASSUME NEW n \in Nat
  PROVE  MailboxAt(n) \in MailboxNames
<1>1. Len(Mailboxes) \in Nat \ {0} /\ DOMAIN Mailboxes = 1 .. Len(Mailboxes)
  BY ConfigAssumption, EmptySeq, LenProperties
<1>2. (n % Len(Mailboxes)) + 1 \in DOMAIN Mailboxes
  <2> DEFINE m == Len(Mailboxes)
  <2>1. m \in Nat \ {0}
    BY <1>1
  <2> HIDE DEF m
  <2>2. (n % m) + 1 \in 1 .. m
    BY <2>1
  <2> QED
    BY <1>1, <2>2 DEF m
<1> QED
  BY <1>2 DEF MailboxAt, MailboxNames

-----------------------------------------------------------------------------
(* Messages and how many of them a session knows. *)

LEMMA SeqFacts ==
  ASSUME NEW s \in Seq(Messages)
  PROVE  /\ Len(s) \in Nat /\ DOMAIN s = 1 .. Len(s)
         /\ \A i \in DOMAIN s : s[i] \in Messages
         /\ IsFiniteSet(DOMAIN s) /\ Cardinality(DOMAIN s) = Len(s)
<1>1. Len(s) \in Nat /\ DOMAIN s = 1 .. Len(s)
  BY LenProperties
<1>2. \A i \in DOMAIN s : s[i] \in Messages
  BY <1>1, ElementOfSeq
<1>3. IsFiniteSet(1 .. Len(s)) /\ Cardinality(1 .. Len(s)) = Len(s)
  BY <1>1, FS_Interval
<1> QED
  BY <1>1, <1>2, <1>3

LEMMA PartFacts ==
  ASSUME NEW s \in Seq(Messages), NEW S \in SUBSET DOMAIN s
  PROVE  IsFiniteSet(S) /\ Cardinality(S) \in Nat /\ Cardinality(S) <= Len(s)
<1>1. IsFiniteSet(DOMAIN s) /\ Cardinality(DOMAIN s) = Len(s)
  BY SeqFacts
<1>2. IsFiniteSet(S) /\ Cardinality(S) <= Cardinality(DOMAIN s)
  BY <1>1, FS_Subset
<1> QED
  BY <1>1, <1>2, FS_CardinalityType

(* Counting up to each member of a set numbers its members.                *)
LEMMA NthIs ==
  ASSUME NEW n \in Nat, NEW S \in SUBSET (1 .. n)
  PROVE  [k \in 1 .. Cardinality(S) |-> Nth(S, k)] \in Bijection(1 .. Cardinality(S), S)
<1> DEFINE size == Cardinality(S)
           UpTo(i) == {j \in S : j <= i}
           rank == [i \in S |-> Cardinality(UpTo(i))]
           nth == [k \in 1 .. size |-> Nth(S, k)]
<1>1. IsFiniteSet(S) /\ size \in Nat
  <2>1. IsFiniteSet(1 .. n)
    BY FS_Interval
  <2>2. IsFiniteSet(S)
    BY <2>1, FS_Subset
  <2> QED
    BY <2>2, FS_CardinalityType
<1>2. \A i \in S : i \in Nat
  OBVIOUS
<1>3. ASSUME NEW i \in S
      PROVE  IsFiniteSet(UpTo(i)) /\ Cardinality(UpTo(i)) \in 1 .. size
  <2>1. UpTo(i) \in SUBSET S /\ i \in UpTo(i)
    BY <1>2
  <2> HIDE DEF UpTo
  <2>2. IsFiniteSet(UpTo(i)) /\ Cardinality(UpTo(i)) <= size
    BY <1>1, <2>1, FS_Subset
  <2>3. Cardinality(UpTo(i)) \in Nat /\ Cardinality(UpTo(i)) # 0
    BY <2>1, <2>2, FS_CardinalityType, FS_EmptySet
  <2> HIDE DEF size
  <2> QED
    BY <1>1, <2>2, <2>3
<1>4. ASSUME NEW i \in S, NEW j \in S, i < j
      PROVE  Cardinality(UpTo(i)) # Cardinality(UpTo(j))
  <2>1. i \in Nat /\ j \in Nat
    BY <1>2
  <2>2. UpTo(i) \in SUBSET UpTo(j)
    <3> SUFFICES ASSUME NEW k \in S, k <= i PROVE k <= j
      OBVIOUS
    <3>1. k \in Nat
      BY <1>2
    <3> QED
      BY <1>4, <2>1, <3>1
  <2>3. j \in UpTo(j) /\ j \notin UpTo(i)
    BY <1>4, <2>1
  <2>4. IsFiniteSet(UpTo(j))
    BY <1>3
  <2> HIDE DEF UpTo
  <2> QED
    BY <2>2, <2>3, <2>4, FS_Subset
<1>5. rank \in Injection(S, 1 .. size)
  <2>1. rank \in [S -> 1 .. size]
    <3> HIDE DEF UpTo, size
    <3> QED
      BY <1>3
  <2>2. \A i, j \in S : rank[i] = rank[j] => i = j
    <3> SUFFICES ASSUME NEW i \in S, NEW j \in S, i # j
                 PROVE  rank[i] # rank[j]
      OBVIOUS
    <3>1. i < j \/ j < i
      BY <1>2
    <3> HIDE DEF UpTo
    <3> QED
      BY <1>4, <3>1
  <2> HIDE DEF rank, size
  <2> QED
    BY <2>1, <2>2 DEF Injection, IsInjective
<1>6. rank \in Surjection(S, 1 .. size)
  <2>1. IsFiniteSet(1 .. size) /\ Cardinality(1 .. size) = size
    BY <1>1, FS_Interval
  <2> HIDE DEF rank
  <2> QED
    BY <1>5, <2>1, FS_Injection
<1>7. \A k \in 1 .. size : \E i \in S : Cardinality(UpTo(i)) = k
  <2>1. \A k \in 1 .. size : \E i \in S : rank[i] = k
    BY <1>6 DEF Surjection
  <2> HIDE DEF UpTo
  <2> QED
    BY <2>1
<1>8. \A k \in 1 .. size : Nth(S, k) \in S /\ Cardinality(UpTo(Nth(S, k))) = k
  <2> SUFFICES ASSUME NEW k \in 1 .. size
               PROVE  Nth(S, k) \in S /\ Cardinality(UpTo(Nth(S, k))) = k
    OBVIOUS
  <2>1. Nth(S, k) = CHOOSE i \in S : Cardinality(UpTo(i)) = k
    BY DEF Nth
  <2>2. \E i \in S : Cardinality(UpTo(i)) = k
    BY <1>7
  <2> HIDE DEF UpTo
  <2> QED
    BY <2>1, <2>2
<1>9. \A i \in S : rank[i] \in 1 .. size /\ Nth(S, rank[i]) = i
  <2> SUFFICES ASSUME NEW i \in S
               PROVE  rank[i] \in 1 .. size /\ Nth(S, rank[i]) = i
    OBVIOUS
  <2>1. rank[i] \in 1 .. size /\ rank[i] = Cardinality(UpTo(i))
    BY <1>3
  <2> DEFINE m == Nth(S, rank[i])
  <2>2. m \in S /\ Cardinality(UpTo(m)) = Cardinality(UpTo(i))
    BY <1>8, <2>1
  <2>3. ~(m < i) /\ ~(i < m)
    BY <1>4, <2>2
  <2> HIDE DEF m
  <2>4. m = i
    BY <1>2, <2>2, <2>3
  <2> QED
    BY <2>1, <2>4 DEF m
<1> HIDE DEF UpTo, rank
<1>10. nth \in [1 .. size -> S]
  BY <1>8
<1>11. \A a, b \in 1 .. size : nth[a] = nth[b] => a = b
  BY <1>8
<1>12. \A i \in S : \E k \in 1 .. size : nth[k] = i
  BY <1>9
<1> HIDE DEF nth
<1>13. nth \in Bijection(1 .. size, S)
  BY <1>10, <1>11, <1>12, Fun_IsBij
<1> QED
  BY <1>13 DEF nth

(* What is left of a mailbox once the messages nobody knows of are gone:   *)
(* what is kept, as often as it was there.                                 *)
LEMMA TidyIs ==
  ASSUME NEW s \in Seq(Messages)
  PROVE  /\ Tidy(s) \in Seq(Messages) /\ Len(Tidy(s)) = Cardinality(Kept(s))
         /\ \A k \in DOMAIN Tidy(s) : \E i \in Kept(s) : Tidy(s)[k] = s[i]
         /\ \A c : Told(c, Tidy(s)) = Told(c, s)
<1> DEFINE S == Kept(s)
           size == Cardinality(S)
           nth == [k \in 1 .. size |-> Nth(S, k)]
           t == Tidy(s)
<1>1. /\ DOMAIN s = 1 .. Len(s) /\ Len(s) \in Nat /\ \A i \in DOMAIN s : s[i] \in Messages
      /\ S \in SUBSET DOMAIN s
  BY SeqFacts DEF Kept
<1>2. size \in Nat /\ IsFiniteSet(S)
  BY <1>1, PartFacts
<1>3. nth \in Bijection(1 .. size, S)
  BY <1>1, NthIs
<1>4. /\ nth \in [1 .. size -> S] /\ \A a, b \in 1 .. size : nth[a] = nth[b] => a = b
      /\ \A i \in S : \E k \in 1 .. size : nth[k] = i
  <2> HIDE DEF nth, size, S
  <2> QED
    BY <1>3 DEF Bijection, Injection, IsInjective, Surjection
<1>5. t = [k \in 1 .. size |-> s[nth[k]]]
  BY DEF Tidy
<1> HIDE DEF nth, S, t, size
<1>6. t \in [1 .. size -> Messages]
  BY <1>1, <1>4, <1>5
<1>7. t \in Seq(Messages) /\ Len(t) = size /\ DOMAIN t = 1 .. size
  BY <1>2, <1>6
<1>8. \A k \in DOMAIN t : \E i \in S : t[k] = s[i]
  BY <1>4, <1>5, <1>7
<1>9. ASSUME NEW c
      PROVE  Told(c, t) = Told(c, s)
  <2> DEFINE A == KnownTo(c, t)
             B == KnownTo(c, s)
             f == [k \in A |-> nth[k]]
  <2>1. A \in SUBSET (1 .. size) /\ B \in SUBSET S
    BY <1>1, <1>7 DEF KnownTo, Kept, S, Messages
  <2>2. \A k \in 1 .. size : k \in A <=> nth[k] \in B
    BY <1>1, <1>4, <1>5, <1>7 DEF KnownTo
  <2>3. IsFiniteSet(A)
    BY <1>7, <2>1, PartFacts
  <2> HIDE DEF A, B
  <2>4. f \in [A -> B]
    BY <2>1, <2>2
  <2>5. \A a, b \in A : f[a] = f[b] => a = b
    BY <1>4, <2>1
  <2>6. \A i \in B : \E k \in A : f[k] = i
    BY <1>4, <2>1, <2>2
  <2> HIDE DEF f
  <2>7. f \in Bijection(A, B)
    BY <2>4, <2>5, <2>6, Fun_IsBij
  <2>8. ExistsBijection(A, B)
    BY <2>7 DEF ExistsBijection
  <2>9. Cardinality(B) = Cardinality(A)
    BY <2>3, <2>8, FS_Bijection
  <2> QED
    BY <2>9 DEF Told, A, B
<1> QED
  BY <1>7, <1>8, <1>9 DEF t, S, size

(* A mailbox is still one when what sessions know of it changes.           *)
Marked(s, K) == [i \in DOMAIN s |-> [s[i] EXCEPT !.known = K[i]]]

LEMMA MarkedIs ==
  ASSUME NEW s \in Seq(Messages), NEW K \in [DOMAIN s -> SUBSET Clients],
         NEW t, t = Marked(s, K)
  PROVE  /\ t \in Seq(Messages) /\ DOMAIN t = DOMAIN s
         /\ \A i \in DOMAIN s : /\ t[i].known = K[i] /\ t[i].gone = s[i].gone
                                /\ t[i].flagged = s[i].flagged
<1> USE DEF Marked
<1>1. Len(s) \in Nat /\ DOMAIN s = 1 .. Len(s) /\ \A i \in DOMAIN s : s[i] \in Messages
  BY SeqFacts
<1>2. \A i \in DOMAIN s :
        /\ [s[i] EXCEPT !.known = K[i]] \in Messages
        /\ [s[i] EXCEPT !.known = K[i]].known = K[i]
        /\ [s[i] EXCEPT !.known = K[i]].gone = s[i].gone
        /\ [s[i] EXCEPT !.known = K[i]].flagged = s[i].flagged
  BY <1>1 DEF Messages
<1>3. t \in [1 .. Len(s) -> Messages]
  BY <1>1, <1>2
<1>4. t \in Seq(Messages)
  BY <1>1, <1>3
<1> QED
  BY <1>1, <1>2, <1>4

(* What a session is told, and what it and the others know afterwards.     *)
LEMMA ReportIs ==
  ASSUME NEW c \in Clients, NEW s \in Seq(Messages), NEW cmd,
         NEW r, r = Report(c, s, cmd)
  PROVE  /\ r.box \in Seq(Messages)
         /\ r.count \in Nat /\ r.expunged \in Nat
         /\ Told(c, s) \in Nat /\ r.expunged <= Told(c, s)
         /\ Told(c, r.box) = r.count
         /\ ~r.says => r.count = Told(c, s) - r.expunged
         /\ \A d \in Clients \ {c} : Told(d, r.box) = Told(d, s)
<1> DEFINE known == KnownTo(c, s)
           fresh == Held(s) \ known
           expunged == IF cmd \in Quiet THEN {} ELSE known \ Held(s)
           K == [i \in DOMAIN s |->
                  IF i \in fresh THEN s[i].known \cup {c}
                  ELSE IF i \in expunged THEN s[i].known \ {c} ELSE s[i].known]
           t == Marked(s, K)
           after == (known \cup fresh) \ expunged
<1>1. /\ r.expunged = Cardinality(expunged) /\ r.says = (fresh # {} \/ cmd \in server.repeats)
      /\ r.count = Cardinality(after) /\ r.box = Tidy(t)
  BY DEF Report, Marked
<1>2. /\ known \in SUBSET DOMAIN s /\ fresh \in SUBSET DOMAIN s /\ after \in SUBSET DOMAIN s
      /\ expunged \in SUBSET known /\ expunged \in SUBSET DOMAIN s
  BY DEF KnownTo, Held
<1>3. /\ IsFiniteSet(known) /\ Cardinality(known) \in Nat
      /\ Cardinality(expunged) \in Nat /\ Cardinality(after) \in Nat
      /\ Cardinality(expunged) <= Cardinality(known)
  <2> HIDE DEF known, expunged, after
  <2>1. IsFiniteSet(known)
    BY <1>2, PartFacts
  <2> QED
    BY <1>2, <2>1, PartFacts, FS_Subset
<1>4. K \in [DOMAIN s -> SUBSET Clients]
  <2>1. \A i \in DOMAIN s : s[i].known \in SUBSET Clients
    BY SeqFacts DEF Messages
  <2> HIDE DEF fresh, expunged
  <2> QED
    BY <2>1
<1>5. t \in Seq(Messages) /\ DOMAIN t = DOMAIN s /\ \A i \in DOMAIN s : t[i].known = K[i]
  <2> HIDE DEF K
  <2> QED
    BY <1>4, MarkedIs
<1>6. KnownTo(c, t) = after
  <2>1. \A i \in DOMAIN s : c \in K[i] <=> i \in after
    BY DEF KnownTo, Held
  <2> HIDE DEF K, t, after
  <2> QED
    BY <1>2, <1>5, <2>1 DEF KnownTo
<1>7. \A d \in Clients \ {c} : KnownTo(d, t) = KnownTo(d, s)
  <2>1. \A d \in Clients \ {c} : \A i \in DOMAIN s : d \in K[i] <=> d \in s[i].known
    OBVIOUS
  <2> HIDE DEF K, t
  <2> QED
    BY <1>5, <2>1 DEF KnownTo
<1> HIDE DEF t
<1>8. Tidy(t) \in Seq(Messages) /\ \A d : Told(d, Tidy(t)) = Told(d, t)
  BY <1>5, TidyIs
<1>9. ASSUME ~r.says
      PROVE  r.count = Cardinality(known) - Cardinality(expunged)
  <2>1. after = known \ expunged
    BY <1>1, <1>9
  <2>2. known \cap expunged = expunged
    BY <1>2
  <2> HIDE DEF known, expunged, after
  <2>3. Cardinality(known \ expunged) = Cardinality(known) - Cardinality(expunged)
    BY <1>3, <2>2, FS_Difference
  <2> QED
    BY <1>1, <2>1, <2>3
<1> HIDE DEF known, fresh, expunged, after, K
<1>10. r.box \in Seq(Messages) /\ Told(c, r.box) = r.count
       /\ \A d \in Clients \ {c} : Told(d, r.box) = Told(d, s)
  BY <1>1, <1>6, <1>7, <1>8 DEF Told
<1>11. Told(c, s) = Cardinality(known)
  BY DEF Told, known
<1> QED
  BY <1>1, <1>3, <1>9, <1>10, <1>11

(* A client alone that is told of a mailbox where only what it knows has   *)
(* gone, and only when that may be said, knows all that is left of it.     *)
LEMMA ReportAlone ==
  ASSUME NEW c, Clients = {c}, NEW s \in Seq(Messages), NEW cmd,
         \A i \in DOMAIN s : s[i].gone => cmd \notin Quiet /\ c \in s[i].known,
         NEW r, r = Report(c, s, cmd)
  PROVE  /\ NoneGone(r.box) /\ Unflagged(c, r.box)
         /\ Len(r.box) = r.count /\ r.count = Len(s) - r.expunged
         /\ r.expunged \in Nat
<1> DEFINE known == KnownTo(c, s)
           fresh == Held(s) \ known
           expunged == IF cmd \in Quiet THEN {} ELSE known \ Held(s)
           K == [i \in DOMAIN s |->
                  IF i \in fresh THEN s[i].known \cup {c}
                  ELSE IF i \in expunged THEN s[i].known \ {c} ELSE s[i].known]
           t == Marked(s, K)
           after == (known \cup fresh) \ expunged
<1>1. /\ r.expunged = Cardinality(expunged)
      /\ r.count = Cardinality(after) /\ r.box = Tidy(t)
  BY DEF Report, Marked
<1>2. \A i \in DOMAIN s : s[i].known \in SUBSET {c}
  BY SeqFacts DEF Messages
<1>3. expunged = DOMAIN s \ Held(s) /\ after = Held(s)
  BY DEF Held, KnownTo
<1>4. K \in [DOMAIN s -> SUBSET Clients]
  <2> HIDE DEF fresh, expunged
  <2> QED
    BY <1>2
<1>5. \A i \in DOMAIN s : IF s[i].gone THEN K[i] = {} ELSE K[i] = {c}
  BY <1>2, <1>3 DEF Held, KnownTo
<1> HIDE DEF K
<1>6. /\ t \in Seq(Messages) /\ DOMAIN t = DOMAIN s
      /\ \A i \in DOMAIN s : t[i].known = K[i] /\ t[i].gone = s[i].gone
  BY <1>4, MarkedIs
<1> HIDE DEF t
<1>7. Kept(t) = Held(s) /\ \A i \in Kept(t) : t[i].known = {c} /\ ~t[i].gone
  BY <1>5, <1>6 DEF Kept, Held
<1>8. /\ Len(Tidy(t)) = Cardinality(Held(s))
      /\ \A k \in DOMAIN Tidy(t) : \E i \in Kept(t) : Tidy(t)[k] = t[i]
  BY <1>6, <1>7, TidyIs
<1>9. NoneGone(Tidy(t)) /\ Unflagged(c, Tidy(t))
  BY <1>7, <1>8 DEF NoneGone, Unflagged
<1>10. /\ IsFiniteSet(DOMAIN s) /\ Cardinality(DOMAIN s) = Len(s) /\ Len(s) \in Nat
       /\ Cardinality(DOMAIN s \cap Held(s)) = Cardinality(Held(s))
       /\ Cardinality(Held(s)) \in Nat /\ Cardinality(expunged) \in Nat
  <2>1. Held(s) \in SUBSET DOMAIN s /\ expunged \in SUBSET DOMAIN s
    BY <1>3 DEF Held
  <2>2. DOMAIN s \cap Held(s) = Held(s)
    BY <2>1
  <2> HIDE DEF expunged
  <2> QED
    BY <2>1, <2>2, SeqFacts, PartFacts
<1>11. Cardinality(DOMAIN s \ Held(s)) = Len(s) - Cardinality(Held(s))
  BY <1>10, FS_Difference
<1> HIDE DEF expunged, after
<1> QED
  BY <1>1, <1>3, <1>8, <1>9, <1>10, <1>11

(* A session that is closed knows of nothing, and the others what they did.*)
LEMMA ForgetIs ==
  ASSUME NEW c \in Clients, NEW boxes \in Boxes, NEW f, f = Forget(c, boxes)
  PROVE  /\ f \in Boxes
         /\ \A b \in MailboxNames :
              /\ Told(c, f[b]) = 0
              /\ \A d \in Clients \ {c} : Told(d, f[b]) = Told(d, boxes[b])
              /\ Clients = {c} /\ NoneGone(boxes[b]) =>
                   NoneGone(f[b]) /\ Len(f[b]) = Len(boxes[b])
<1> SUFFICES ASSUME NEW b \in MailboxNames
             PROVE  /\ f[b] \in Seq(Messages)
                    /\ Told(c, f[b]) = 0
                    /\ \A d \in Clients \ {c} : Told(d, f[b]) = Told(d, boxes[b])
                    /\ Clients = {c} /\ NoneGone(boxes[b]) =>
                         NoneGone(f[b]) /\ Len(f[b]) = Len(boxes[b])
  <2>1. f = [b \in MailboxNames |-> f[b]]
    BY DEF Forget
  <2> QED
    BY <2>1 DEF Boxes
<1> DEFINE s == boxes[b]
           K == [i \in DOMAIN s |-> s[i].known \ {c}]
           t == Marked(s, K)
<1>1. s \in Seq(Messages)
  BY DEF Boxes
<1>2. f[b] = Tidy(t)
  BY DEF Forget, Marked
<1> HIDE DEF s
<1>3. \A i \in DOMAIN s : s[i].known \in SUBSET Clients
  BY <1>1, SeqFacts DEF Messages
<1>4. K \in [DOMAIN s -> SUBSET Clients]
  BY <1>3
<1>5. \A i \in DOMAIN s : K[i] = s[i].known \ {c}
  OBVIOUS
<1> HIDE DEF K
<1>6. /\ t \in Seq(Messages) /\ DOMAIN t = DOMAIN s
      /\ \A i \in DOMAIN s : t[i].known = K[i] /\ t[i].gone = s[i].gone
  BY <1>1, <1>4, MarkedIs
<1> HIDE DEF t
<1>7. KnownTo(c, t) = {} /\ \A d \in Clients \ {c} : KnownTo(d, t) = KnownTo(d, s)
  BY <1>5, <1>6 DEF KnownTo
<1>8. /\ Tidy(t) \in Seq(Messages) /\ Len(Tidy(t)) = Cardinality(Kept(t))
      /\ \A k \in DOMAIN Tidy(t) : \E i \in Kept(t) : Tidy(t)[k] = t[i]
      /\ \A d : Told(d, Tidy(t)) = Told(d, t)
  BY <1>6, TidyIs
<1>9. Told(c, t) = 0 /\ \A d \in Clients \ {c} : Told(d, t) = Told(d, s)
  BY <1>7, FS_EmptySet DEF Told
<1>10. ASSUME NoneGone(s)
       PROVE  NoneGone(Tidy(t)) /\ Len(Tidy(t)) = Len(s)
  <2>1. Kept(t) = DOMAIN s /\ \A i \in DOMAIN s : ~t[i].gone
    BY <1>6, <1>10 DEF Kept, NoneGone
  <2>2. NoneGone(Tidy(t))
    BY <1>8, <2>1 DEF NoneGone
  <2> QED
    BY <1>1, <1>8, <2>1, <2>2, SeqFacts
<1> QED
  BY <1>2, <1>8, <1>9, <1>10 DEF s

(* What a command does to a mailbox before its report: who knows of what   *)
(* is as it was, and with one client only what it knows of goes.           *)
LEMMA AfterIs ==
  ASSUME NEW c \in Clients, NEW s \in Seq(Messages), NEW t, t = AfterCommand(c, s)
  PROVE  /\ t \in Seq(Messages) /\ DOMAIN t = DOMAIN s /\ Len(t) = Len(s)
         /\ \A d : Told(d, t) = Told(d, s)
         /\ NoneGone(s) /\ Unflagged(c, s) =>
              \A i \in DOMAIN t : t[i].gone => pending[c].cmd = "EXPUNGE" /\ c \in t[i].known
<1>1. Len(s) \in Nat /\ DOMAIN s = 1 .. Len(s) /\ \A i \in DOMAIN s : s[i] \in Messages
  BY SeqFacts
<1>2. /\ t \in [1 .. Len(s) -> Messages]
      /\ \A i \in DOMAIN s : t[i].known = s[i].known
      /\ \A i \in DOMAIN s : t[i].gone =>
           s[i].gone \/ (pending[c].cmd = "EXPUNGE" /\ s[i].flagged)
  <2>1. CASE pending[c].cmd = "EXPUNGE"
    <3>1. t = Expunge(s)
      BY <2>1 DEF AfterCommand
    <3>2. \A i \in DOMAIN s : /\ [s[i] EXCEPT !.gone = @ \/ s[i].flagged] \in Messages
                              /\ t[i] = [s[i] EXCEPT !.gone = @ \/ s[i].flagged]
      BY <1>1, <3>1 DEF Expunge, Messages
    <3>3. t \in [1 .. Len(s) -> Messages]
      BY <1>1, <3>1, <3>2 DEF Expunge
    <3>4. \A i \in DOMAIN s : t[i].known = s[i].known
                              /\ (t[i].gone => s[i].gone \/ s[i].flagged)
      BY <1>1, <3>2 DEF Messages
    <3> QED
      BY <2>1, <3>3, <3>4
  <2>2. CASE pending[c].cmd = "DELETE"
    <3> DEFINE mine(i) == i \in KnownTo(c, s) /\ SeqNum(c, s, i) \in RangeCmd(view[c])
    <3>1. t = [i \in DOMAIN s |-> [s[i] EXCEPT !.flagged = @ \/ mine(i)]]
      BY <2>2 DEF AfterCommand, Flag
    <3> HIDE DEF mine
    <3>2. \A i \in DOMAIN s : /\ [s[i] EXCEPT !.flagged = @ \/ mine(i)] \in Messages
                              /\ t[i] = [s[i] EXCEPT !.flagged = @ \/ mine(i)]
      BY <1>1, <3>1 DEF Messages
    <3>3. t \in [1 .. Len(s) -> Messages]
      BY <1>1, <3>1, <3>2
    <3>4. \A i \in DOMAIN s : t[i].known = s[i].known /\ t[i].gone = s[i].gone
      BY <1>1, <3>2 DEF Messages
    <3> QED
      BY <3>3, <3>4
  <2>3. CASE pending[c].cmd # "EXPUNGE" /\ pending[c].cmd # "DELETE"
    <3>1. t = s
      BY <2>3 DEF AfterCommand
    <3> QED
      BY <1>1, <3>1
  <2> QED
    BY <2>1, <2>2, <2>3
<1>3. t \in Seq(Messages) /\ DOMAIN t = DOMAIN s /\ Len(t) = Len(s)
  BY <1>1, <1>2
<1>4. \A d : KnownTo(d, t) = KnownTo(d, s)
  BY <1>2, <1>3 DEF KnownTo
<1>5. \A d : Told(d, t) = Told(d, s)
  BY <1>4 DEF Told
<1>6. NoneGone(s) /\ Unflagged(c, s) =>
        \A i \in DOMAIN t : t[i].gone => pending[c].cmd = "EXPUNGE" /\ c \in t[i].known
  BY <1>2, <1>3 DEF NoneGone, Unflagged
<1> QED
  BY <1>3, <1>5, <1>6

(* A message that arrives is one nobody was told of.                       *)
LEMMA AppendIs ==
  ASSUME NEW s \in Seq(Messages), NEW t, t = Append(s, Arrived)
  PROVE  /\ t \in Seq(Messages) /\ Len(t) = Len(s) + 1
         /\ \A d : Told(d, t) = Told(d, s)
         /\ NoneGone(s) => NoneGone(t)
         /\ \A c : Unflagged(c, s) => Unflagged(c, t)
<1>1. Len(s) \in Nat /\ DOMAIN s = 1 .. Len(s)
  BY SeqFacts
<1>2. Arrived \in Messages /\ Arrived.known = {} /\ ~Arrived.flagged /\ ~Arrived.gone
  BY DEF Arrived, Messages
<1> HIDE DEF Arrived
<1>3. /\ t \in Seq(Messages) /\ Len(t) = Len(s) + 1
      /\ \A i \in 1 .. Len(s) : t[i] = s[i]
      /\ t[Len(s) + 1] = Arrived
  BY <1>2, AppendProperties
<1>4. DOMAIN t = 1 .. Len(s) + 1
  BY <1>3, SeqFacts
<1>5. \A d : KnownTo(d, t) = KnownTo(d, s)
  BY <1>1, <1>2, <1>3, <1>4 DEF KnownTo
<1>6. \A d : Told(d, t) = Told(d, s)
  BY <1>5 DEF Told
<1>7. /\ NoneGone(s) => NoneGone(t)
      /\ \A c : Unflagged(c, s) => Unflagged(c, t)
  BY <1>1, <1>2, <1>3, <1>4 DEF NoneGone, Unflagged
<1> QED
  BY <1>3, <1>6, <1>7

-----------------------------------------------------------------------------
(* The client's view. *)

LEMMA ViewIs ==
  ASSUME NEW v \in Views, NEW n \in Nat, NEW w, w = ApplyExpunges(v, n)
  PROVE  /\ w \in Views /\ w.mailbox = v.mailbox /\ w.appended = v.appended
         /\ w.exists = Minus(v.exists, n) /\ w.baseline = Minus(v.baseline, n)
<1>1. \A m \in Nat : Minus(m, n) \in Nat
  BY DEF Minus
<1>2. v.exists \in Nat /\ v.baseline \in Nat
  BY DEF Views
<1> QED
  BY <1>1, <1>2 DEF Views, ApplyExpunges

LEMMA TakenIs ==
  ASSUME NEW v \in Views, NEW n \in Nat, NEW w, w = TakeReport(v, n)
  PROVE  /\ w \in Views /\ w.mailbox = v.mailbox /\ w.appended = 0
         /\ w.exists = n /\ w.baseline = n
BY DEF Views, TakeReport

LEMMA EmptyViewIs == EmptyView \in Views /\ EmptyView.exists = 0 /\ EmptyView.baseline = 0
                     /\ EmptyView.appended = 0
BY DEF EmptyView, Views

LEMMA ExpungesIs ==
  ASSUME NEW v \in Views, NEW k \in Nat
  PROVE  /\ ApplyExpunges(v, k).baseline = Minus(v.baseline, k)
         /\ ApplyExpunges(v, k).appended = v.appended
BY ViewIs

(* The view after an answer: of the mailbox it was of, and counting what   *)
(* the session was told of, if it did before, or else what it was told now.*)
LEMMA ApplyIs ==
  ASSUME NEW v \in Views, NEW r, r.expunged \in Nat, r.count \in Nat,
         NEW w, w = Apply(v, r)
  PROVE  /\ w \in Views /\ w.mailbox = v.mailbox
         /\ v.exists = v.baseline => w.exists = w.baseline
         /\ r.expunged <= v.exists /\ (~r.says => r.count = v.exists - r.expunged)
              => w.exists = r.count
         /\ w.appended = IF r.says THEN 0 ELSE v.appended
         /\ w.exists = IF r.says THEN r.count ELSE Minus(v.exists, r.expunged)
<1> DEFINE x == ApplyExpunges(v, r.expunged)
<1>1. /\ x \in Views /\ x.mailbox = v.mailbox /\ x.appended = v.appended
      /\ x.exists = Minus(v.exists, r.expunged) /\ x.baseline = Minus(v.baseline, r.expunged)
  BY ViewIs
<1> HIDE DEF x
<1>2. w = IF r.says THEN TakeReport(x, r.count) ELSE x
  BY DEF Apply, x
<1>3. CASE r.says
  <2> DEFINE y == TakeReport(x, r.count)
  <2>1. /\ y \in Views /\ y.mailbox = v.mailbox /\ y.appended = 0
        /\ y.exists = r.count /\ y.baseline = r.count
    <3> DEFINE n == r.count
    <3>1. x \in Views /\ x.mailbox = v.mailbox /\ n \in Nat
      BY <1>1
    <3> HIDE DEF n
    <3>2. /\ TakeReport(x, n) \in Views /\ TakeReport(x, n).mailbox = x.mailbox
          /\ TakeReport(x, n).appended = 0
          /\ TakeReport(x, n).exists = n /\ TakeReport(x, n).baseline = n
      BY <3>1, TakenIs
    <3> QED
      BY <3>1, <3>2 DEF n
  <2>2. w = y
    BY <1>2, <1>3
  <2> HIDE DEF y
  <2> QED
    BY <1>3, <2>1, <2>2
<1>4. CASE ~r.says
  <2>1. r.expunged <= v.exists => Minus(v.exists, r.expunged) = v.exists - r.expunged
    BY DEF Minus, Views
  <2> QED
    BY <1>1, <1>2, <1>4, <2>1
<1> QED
  BY <1>3, <1>4

-----------------------------------------------------------------------------
(* The steps. *)

(* Nothing of any client but c is touched.                                 *)
Spares(c) == server' = server /\ \A d \in Clients \ {c} :
  /\ pc'[d] = pc[d] /\ state'[d] = state[d]
  /\ view'[d] = view[d] /\ pending'[d] = pending[d]
  /\ \A b \in MailboxNames : Told(d, box'[b]) = Told(d, box[b])

LEMMA Assembled ==
  ASSUME Inv, Typed', NEW c \in Clients, Spares(c), Addressed(c)', Session(c)'
  PROVE  Inv'
<1> SUFFICES ASSUME NEW d \in Clients \ {c}
             PROVE  Addressed(d)' /\ Session(d)'
  BY DEF Inv
<1>1. Addressed(d) /\ Session(d)
  BY DEF Inv
<1>2. Addressed(d)'
  BY <1>1 DEF Spares, Addressed
<1>3. \A b \in MailboxNames : Counted(d, b)' = Counted(d, b)
  BY DEF Spares, Counted
<1>4. Session(d)'
  BY <1>1, <1>3 DEF Spares, Session
<1> QED
  BY <1>2, <1>4

LEMMA InitInv == Init => Inv
<1> SUFFICES ASSUME Init PROVE Inv
  OBVIOUS
<1>1. /\ Arrived \in Messages /\ Arrived.known = {}
  BY DEF Arrived, Messages
<1> DEFINE s == [i \in 1 .. Initially |-> Arrived]
<1>2. s \in Seq(Messages) /\ DOMAIN s = 1 .. Initially /\ \A i \in DOMAIN s : s[i] = Arrived
  <2> HIDE DEF Arrived
  <2> QED
    BY <1>1, ConfigAssumption
<1>3. box = [b \in MailboxNames |-> s]
  BY DEF Init
<1>4. box \in Boxes /\ \A b \in MailboxNames : box[b] = s
  <2> HIDE DEF s
  <2> QED
    BY <1>2, <1>3 DEF Boxes
<1>5. \A c \in Clients : Told(c, s) = 0
  <2>1. \A c \in Clients : KnownTo(c, s) = {}
    <3> HIDE DEF s, Arrived
    <3> QED
      BY <1>1, <1>2 DEF KnownTo
  <2> QED
    BY <2>1, FS_EmptySet DEF Told
<1>6. seq \in 0 .. Total(profile) * Len(Mailboxes) - 1
  BY SeqIs DEF Init
<1>7. pending \in [Clients -> [cmd : Commands, mailbox : MailboxNames \cup {NoMailbox}]]
  BY DEF Commands, Init
<1>8. view \in [Clients -> Views]
  BY EmptyViewIs DEF Init
<1>9. /\ pc \in [Clients -> {"idle", "loop", "choose", "reselect", "send", "done"}]
      /\ state \in [Clients -> {"disconnected", "authenticated", "selected"}]
      /\ iterCount \in 0 .. Iterations /\ ended \in BOOLEAN /\ mismatched \in BOOLEAN
  <2>1. pc = [c \in Clients |-> "idle"]
    BY DEF Init
  <2>2. state = [c \in Clients |-> "disconnected"]
    BY DEF Init
  <2>3. iterCount = 0 /\ ended = FALSE /\ mismatched = FALSE
    BY DEF Init
  <2>4. iterCount \in 0 .. Iterations
    BY <2>3, ConfigAssumption
  <2> QED
    BY <2>1, <2>2, <2>3, <2>4
<1>10. Typed
  BY <1>4, <1>6, <1>7, <1>8, <1>9 DEF Typed, Init
<1>11. \A c \in Clients : pc[c] = "idle" /\ state[c] = "disconnected" /\ view[c] = EmptyView
  BY DEF Init
<1>12. \A c \in Clients : Addressed(c)
  BY <1>11 DEF Addressed
<1>13. \A c \in Clients : Session(c)
  BY <1>4, <1>5, <1>11, EmptyViewIs DEF Session, Counted
<1> QED
  BY <1>10, <1>12, <1>13 DEF Inv

(* A session that ends leaves nothing behind.                              *)
LEMMA ReturnStep ==
  ASSUME Inv, NEW c \in Clients, NEW boxes \in Boxes,
         \A d \in Clients \ {c}, b \in MailboxNames : Told(d, boxes[b]) = Told(d, box[b]),
         Return(c, boxes), UNCHANGED <<setting, seq, pending, iterCount, ended>>,
         mismatched' \in BOOLEAN
  PROVE  Inv'
<1> USE DEF Inv
<1>1. /\ pc' = [pc EXCEPT ![c] = "idle"] /\ state' = [state EXCEPT ![c] = "disconnected"]
      /\ view' = [view EXCEPT ![c] = EmptyView] /\ box' = Forget(c, boxes)
      /\ server' = server /\ profile' = profile /\ duration' = duration /\ seq' = seq
      /\ pending' = pending /\ iterCount' = iterCount /\ ended' = ended
  BY DEF Return, Goto, In, SetView, setting
<1>2. /\ box' \in Boxes
      /\ \A b \in MailboxNames :
           /\ Told(c, box'[b]) = 0
           /\ \A d \in Clients \ {c} : Told(d, box'[b]) = Told(d, boxes[b])
  BY <1>1, ForgetIs
<1>3. Typed'
  <2>1. pc' \in [Clients -> {"idle", "loop", "choose", "reselect", "send", "done"}]
    BY <1>1 DEF Typed
  <2>2. state' \in [Clients -> {"disconnected", "authenticated", "selected"}]
    BY <1>1 DEF Typed
  <2>3. view' \in [Clients -> Views]
    BY <1>1, EmptyViewIs DEF Typed
  <2> QED
    BY <1>1, <1>2, <2>1, <2>2, <2>3 DEF Typed
<1>4. pc'[c] = "idle" /\ state'[c] = "disconnected" /\ view'[c] = EmptyView
  BY <1>1 DEF Typed
<1>5. Spares(c)
  BY <1>1, <1>2 DEF Spares, Typed
<1>6. Addressed(c)'
  BY <1>4 DEF Addressed
<1>7. Session(c)'
  BY <1>2, <1>4, EmptyViewIs DEF Session, Counted
<1> QED
  BY <1>3, <1>5, <1>6, <1>7, Assembled

LEMMA EndRunStep == Inv /\ EndRun => Inv'
<1> SUFFICES ASSUME Inv, EndRun PROVE Inv'
  OBVIOUS
<1>1. /\ box' = box /\ server' = server /\ profile' = profile /\ duration' = duration
      /\ seq' = seq /\ pc' = pc /\ state' = state /\ view' = view /\ pending' = pending
      /\ iterCount' = iterCount /\ ended' = TRUE /\ mismatched' = mismatched
  BY DEF EndRun, setting
<1>2. Typed'
  BY <1>1 DEF Inv, Typed
<1>3. \A c \in Clients : Addressed(c)' /\ Session(c)'
  BY <1>1 DEF Inv, Addressed, Session, Counted
<1> QED
  BY <1>2, <1>3 DEF Inv

LEMMA StutterStep == Inv /\ UNCHANGED vars => Inv'
<1> SUFFICES ASSUME Inv, UNCHANGED vars PROVE Inv'
  OBVIOUS
<1>1. /\ box' = box /\ server' = server /\ profile' = profile /\ duration' = duration
      /\ seq' = seq /\ pc' = pc /\ state' = state /\ view' = view /\ pending' = pending
      /\ iterCount' = iterCount /\ ended' = ended /\ mismatched' = mismatched
  BY DEF vars, setting
<1>2. Typed'
  BY <1>1 DEF Inv, Typed
<1>3. \A c \in Clients : Addressed(c)' /\ Session(c)'
  BY <1>1 DEF Inv, Addressed, Session, Counted
<1> QED
  BY <1>2, <1>3 DEF Inv

LEMMA ClaimStep ==
  ASSUME Inv, NEW c \in Clients, Claim(c)
  PROVE  Inv'
<1>1. /\ box' = box /\ server' = server /\ profile' = profile /\ duration' = duration
      /\ seq' = seq /\ state' = state /\ view' = view /\ pending' = pending
      /\ ended' = ended /\ mismatched' = mismatched
  BY DEF Claim, ClaimUnder, setting
<1>2. PICK place \in {"done", "loop"} : pc' = [pc EXCEPT ![c] = place]
  BY DEF Claim, ClaimUnder, Goto
<1>3. iterCount' \in 0 .. Iterations
  BY ConfigAssumption DEF Inv, Typed, Claim, ClaimUnder, Goto
<1>4. pc' \in [Clients -> {"idle", "loop", "choose", "reselect", "send", "done"}]
  BY <1>2 DEF Inv, Typed
<1>5. Typed'
  BY <1>1, <1>3, <1>4 DEF Inv, Typed
<1>6. pc'[c] # "send" /\ Spares(c)
  BY <1>1, <1>2 DEF Inv, Typed, Spares
<1>7. Addressed(c)' /\ Session(c)'
  BY <1>1, <1>6 DEF Inv, Addressed, Session, Counted
<1> QED
  BY <1>5, <1>6, <1>7, Assembled

LEMMA LeaveStep ==
  ASSUME Inv, NEW c \in Clients, Leave(c) \/ RefuseCommand(c)
  PROVE  Inv'
<1>1. /\ Return(c, box) /\ UNCHANGED <<setting, seq, pending, iterCount, ended>>
      /\ mismatched' = mismatched
  BY DEF Leave, RefuseCommand
<1>2. box \in Boxes /\ mismatched' \in BOOLEAN
  BY <1>1 DEF Inv, Typed
<1> QED
  BY <1>1, <1>2, ReturnStep

LEMMA ConnectStep ==
  ASSUME Inv, NEW c \in Clients, Connect(c)
  PROVE  Inv'
<1>1. CASE Return(c, box)
  <2>1. UNCHANGED <<setting, seq, pending, iterCount, ended>> /\ mismatched' = mismatched
    BY DEF Connect
  <2>2. box \in Boxes /\ mismatched' \in BOOLEAN
    BY <2>1 DEF Inv, Typed
  <2> QED
    BY <1>1, <2>1, <2>2, ReturnStep
<1>2. CASE ~Return(c, box)
  <2>1. /\ box' = box /\ server' = server /\ profile' = profile /\ duration' = duration
        /\ seq' = seq /\ pending' = pending /\ iterCount' = iterCount
        /\ ended' = ended /\ mismatched' = mismatched
        /\ pc' = [pc EXCEPT ![c] = "choose"] /\ state' = [state EXCEPT ![c] = "authenticated"]
        /\ view' = [view EXCEPT ![c] = EmptyView] /\ state[c] = "disconnected"
    BY <1>2 DEF Connect, Goto, In, SetView, setting
  <2>2. pc' \in [Clients -> {"idle", "loop", "choose", "reselect", "send", "done"}]
    BY <2>1 DEF Inv, Typed
  <2>3. state' \in [Clients -> {"disconnected", "authenticated", "selected"}]
    BY <2>1 DEF Inv, Typed
  <2>4. view' \in [Clients -> Views]
    BY <2>1, EmptyViewIs DEF Inv, Typed
  <2>5. Typed'
    BY <2>1, <2>2, <2>3, <2>4 DEF Inv, Typed
  <2>6. /\ pc'[c] = "choose" /\ state'[c] = "authenticated" /\ view'[c] = EmptyView
        /\ Spares(c)
    BY <2>1 DEF Inv, Typed, Spares
  <2>7. Addressed(c)'
    BY <2>6 DEF Addressed
  <2>8. Session(c)'
    BY <2>1, <2>6, EmptyViewIs DEF Inv, Session, Counted
  <2> QED
    BY <2>5, <2>6, <2>7, <2>8, Assembled
<1> QED
  BY <1>1, <1>2

(* A command is chosen for the mailbox that is open, or a SELECT is.       *)
LEMMA ChooseStep ==
  ASSUME Inv, NEW c \in Clients, Choose(c) \/ Reselect(c)
  PROVE  Inv'
<1>1. /\ box' = box /\ server' = server /\ profile' = profile /\ duration' = duration
      /\ state' = state /\ view' = view /\ iterCount' = iterCount
      /\ ended' = ended /\ mismatched' = mismatched /\ seq' = NextSeq(seq)
  BY DEF Choose, Reselect, setting
<1>2. seq \in Nat /\ profile \in Profiles
  <2>1. \A top : \A n \in 0 .. top : n \in Nat
    OBVIOUS
  <2> QED
    BY <2>1 DEF Inv, Typed
<1>3. seq' \in 0 .. Total(profile) * Len(Mailboxes) - 1
  <2>1. seq + 1 \in Nat
    BY <1>2
  <2> QED
    BY <1>1, <1>2, <2>1, SeqIs DEF NextSeq
<1> DEFINE Sends(cmd, b) == /\ pc' = [pc EXCEPT ![c] = "send"]
                            /\ pending' = [pending EXCEPT ![c] = [cmd |-> cmd, mailbox |-> b]]
<1>4. \/ pc' = [pc EXCEPT ![c] = "reselect"] /\ pending' = pending
      \/ Sends("SELECT", MailboxAt(seq))
      \/ state[c] = "selected" /\ Sends(ChooseFor(view[c], seq), view[c].mailbox)
  BY DEF Choose, Reselect, SelectAt, SendNext, Goto
<1>5. ChooseFor(view[c], seq) \in Commands
  BY <1>2, PickIs DEF ChooseFor, Commands
<1>6. MailboxAt(seq) \in MailboxNames
  BY <1>2, MailboxIs
<1>7. state[c] = "selected" => view[c].mailbox \in MailboxNames
  BY DEF Inv, Addressed
<1>8. \/ pc' = [pc EXCEPT ![c] = "reselect"] /\ pending' = pending
      \/ \E p \in [cmd : Commands, mailbox : MailboxNames] :
           /\ pc' = [pc EXCEPT ![c] = "send"] /\ pending' = [pending EXCEPT ![c] = p]
           /\ p.cmd = "SELECT" \/ (state[c] = "selected" /\ p.mailbox = view[c].mailbox)
  <2>1. [cmd |-> "SELECT", mailbox |-> MailboxAt(seq)]
          \in [cmd : Commands, mailbox : MailboxNames]
    BY <1>6 DEF Commands
  <2>2. state[c] = "selected" =>
          [cmd |-> ChooseFor(view[c], seq), mailbox |-> view[c].mailbox]
            \in [cmd : Commands, mailbox : MailboxNames]
    BY <1>5, <1>7
  <2> QED
    BY <1>4, <2>1, <2>2
<1> HIDE DEF Sends
<1>9. CASE pc' = [pc EXCEPT ![c] = "reselect"] /\ pending' = pending
  <2>1. pc' \in [Clients -> {"idle", "loop", "choose", "reselect", "send", "done"}]
    BY <1>9 DEF Inv, Typed
  <2>2. Typed'
    BY <1>1, <1>3, <1>9, <2>1 DEF Inv, Typed
  <2>3. pc'[c] # "send" /\ Spares(c)
    BY <1>1, <1>9 DEF Inv, Typed, Spares
  <2>4. Addressed(c)' /\ Session(c)'
    BY <1>1, <2>3 DEF Inv, Addressed, Session, Counted
  <2> QED
    BY <2>2, <2>3, <2>4, Assembled
<1>10. ASSUME NEW p \in [cmd : Commands, mailbox : MailboxNames],
              pc' = [pc EXCEPT ![c] = "send"], pending' = [pending EXCEPT ![c] = p],
              p.cmd = "SELECT" \/ (state[c] = "selected" /\ p.mailbox = view[c].mailbox)
       PROVE  Inv'
  <2>1. pc' \in [Clients -> {"idle", "loop", "choose", "reselect", "send", "done"}]
    BY <1>10 DEF Inv, Typed
  <2>2. /\ p \in [cmd : Commands, mailbox : MailboxNames \cup {NoMailbox}]
        /\ p.mailbox \in MailboxNames
    OBVIOUS
  <2>3. pending' \in [Clients -> [cmd : Commands, mailbox : MailboxNames \cup {NoMailbox}]]
    BY <1>10, <2>2 DEF Inv, Typed
  <2>4. Typed'
    BY <1>1, <1>3, <2>1, <2>3 DEF Inv, Typed
  <2>5. pending'[c] = p /\ Spares(c)
    BY <1>1, <1>10 DEF Inv, Typed, Spares
  <2>6. Addressed(c)'
    BY <1>1, <1>7, <1>10, <2>2, <2>5 DEF Addressed
  <2>7. Session(c)'
    BY <1>1 DEF Inv, Session, Counted
  <2> QED
    BY <2>4, <2>5, <2>6, <2>7, Assembled
<1> QED
  BY <1>8, <1>9, <1>10

LEMMA LogoutStep ==
  ASSUME Inv, NEW c \in Clients, Logout(c)
  PROVE  Inv'
<1> DEFINE b == pending[c].mailbox
           s == box[b]
           cmd == "LOGOUT"
           r == Report(c, s, cmd)
           w == Apply(view[c], r)
<1>1. /\ server' = server /\ profile' = profile /\ duration' = duration
      /\ seq' = seq /\ pending' = pending /\ iterCount' = iterCount /\ ended' = ended
      /\ state' = [state EXCEPT ![c] = "disconnected"]
      /\ box' = Forget(c, box) /\ pc[c] = "send"
  BY DEF Logout, Sending, In, setting
<1>2. box \in Boxes /\ s \in Seq(Messages) /\ view[c] \in Views
  BY <1>1 DEF Inv, Typed, Addressed, Boxes
<1>3. /\ box' \in Boxes
      /\ \A x \in MailboxNames :
           Told(c, box'[x]) = 0 /\ \A d \in Clients \ {c} : Told(d, box'[x]) = Told(d, box[x])
  BY <1>1, <1>2, ForgetIs
<1>4. w \in Views /\ (view[c].exists = view[c].baseline => w.exists = w.baseline)
  <2> HIDE DEF s, cmd
  <2>1. r.expunged \in Nat /\ r.count \in Nat
    BY <1>2, ReportIs
  <2> HIDE DEF r
  <2> QED
    BY <1>2, <2>1, ApplyIs
<1>5. \E v \in {view[c], w, EmptyView}, place \in {"idle", "loop"} :
        view' = [view EXCEPT ![c] = v] /\ pc' = [pc EXCEPT ![c] = place]
  <2>1. view = [view EXCEPT ![c] = view[c]]
    BY DEF Inv, Typed
  <2> QED
    BY <2>1 DEF Logout, Goto, SetView
<1>6. mismatched' \in BOOLEAN
  BY DEF Logout, Inv, Typed
<1> HIDE DEF w
<1>7. PICK v, place :
        /\ v \in Views /\ (view[c].exists = view[c].baseline => v.exists = v.baseline)
        /\ place \in {"idle", "loop"}
        /\ view' = [view EXCEPT ![c] = v] /\ pc' = [pc EXCEPT ![c] = place]
  BY <1>2, <1>4, <1>5, EmptyViewIs
<1>8. pc' \in [Clients -> {"idle", "loop", "choose", "reselect", "send", "done"}]
  BY <1>7 DEF Inv, Typed
<1>9. state' \in [Clients -> {"disconnected", "authenticated", "selected"}]
  BY <1>1 DEF Inv, Typed
<1>10. view' \in [Clients -> Views]
  BY <1>7 DEF Inv, Typed
<1>11. Typed'
  BY <1>1, <1>3, <1>6, <1>8, <1>9, <1>10 DEF Inv, Typed
<1>12. /\ pc'[c] # "send" /\ state'[c] = "disconnected" /\ view'[c] = v
       /\ Spares(c)
  BY <1>1, <1>3, <1>7 DEF Inv, Typed, Spares
<1>13. Addressed(c)'
  BY <1>12 DEF Addressed
<1>14. Session(c)'
  BY <1>1, <1>3, <1>7, <1>12 DEF Inv, Session, Counted
<1> QED
  BY <1>11, <1>12, <1>13, <1>14, Assembled

(* A SELECT closes the mailbox that was open, so the session knows of      *)
(* nothing but what it is now told of.                                     *)
LEMMA SelectStep ==
  ASSUME Inv, NEW c \in Clients, Select(c)
  PROVE  Inv'
<1> DEFINE b == pending[c].mailbox
           closed == Forget(c, box)
           s == closed[b]
           cmd == "SELECT"
           r == Report(c, s, cmd)
           v == TakeReport([EmptyView EXCEPT !.mailbox = b], r.count)
<1>1. /\ server' = server /\ profile' = profile /\ duration' = duration
      /\ seq' = seq /\ pending' = pending /\ iterCount' = iterCount
      /\ ended' = ended /\ mismatched' = mismatched
      /\ pc' = [pc EXCEPT ![c] = "loop"] /\ state' = [state EXCEPT ![c] = "selected"]
      /\ view' = [view EXCEPT ![c] = v] /\ box' = [closed EXCEPT ![b] = r.box]
      /\ pc[c] = "send"
  BY DEF Select, Sending, Goto, In, SetView, setting
<1>2. b \in MailboxNames /\ box \in Boxes
  BY <1>1 DEF Inv, Typed, Addressed
<1>3. /\ closed \in Boxes
      /\ \A x \in MailboxNames :
           Told(c, closed[x]) = 0 /\ \A d \in Clients \ {c} : Told(d, closed[x]) = Told(d, box[x])
  BY <1>2, ForgetIs
<1> HIDE DEF closed
<1>4. s \in Seq(Messages)
  BY <1>2, <1>3 DEF Boxes
<1> HIDE DEF cmd
<1>5. /\ r.box \in Seq(Messages) /\ r.count \in Nat /\ Told(c, r.box) = r.count
      /\ \A d \in Clients \ {c} : Told(d, r.box) = Told(d, s)
  <2> HIDE DEF s
  <2> QED
    BY <1>4, ReportIs
<1> HIDE DEF r
<1>6. v \in Views /\ v.mailbox = b /\ v.exists = r.count /\ v.baseline = r.count
  <2> DEFINE e == [EmptyView EXCEPT !.mailbox = b]
  <2>1. e \in Views /\ e.mailbox = b
    BY <1>2 DEF EmptyView, Views
  <2> DEFINE n == r.count
  <2>2. n \in Nat
    BY <1>5
  <2> HIDE DEF e, n
  <2>3. TakeReport(e, n) \in Views /\ TakeReport(e, n).mailbox = b
        /\ TakeReport(e, n).exists = n /\ TakeReport(e, n).baseline = n
    BY <2>1, <2>2, TakenIs
  <2> QED
    BY <2>3 DEF e, n
<1> HIDE DEF v, b
<1>7. /\ box' \in Boxes /\ box'[b] = r.box
      /\ \A x \in MailboxNames : x # b => box'[x] = closed[x]
  BY <1>1, <1>2, <1>3, <1>5 DEF Boxes
<1>8. pc' \in [Clients -> {"idle", "loop", "choose", "reselect", "send", "done"}]
  BY <1>1 DEF Inv, Typed
<1>9. state' \in [Clients -> {"disconnected", "authenticated", "selected"}]
  BY <1>1 DEF Inv, Typed
<1>10. view' \in [Clients -> Views]
  BY <1>1, <1>6 DEF Inv, Typed
<1>11. Typed'
  BY <1>1, <1>7, <1>8, <1>9, <1>10 DEF Inv, Typed
<1>12. pc'[c] = "loop" /\ state'[c] = "selected" /\ view'[c] = v
  BY <1>1 DEF Inv, Typed
<1>13. Spares(c)
  <2>1. \A d \in Clients \ {c} : \A x \in MailboxNames : Told(d, box'[x]) = Told(d, box[x])
    BY <1>3, <1>5, <1>7
  <2> QED
    BY <1>1, <2>1 DEF Inv, Typed, Spares
<1>14. Addressed(c)'
  BY <1>2, <1>6, <1>12 DEF Addressed
<1>15. Session(c)'
  BY <1>3, <1>5, <1>6, <1>7, <1>12 DEF Session, Counted
<1> QED
  BY <1>11, <1>13, <1>14, <1>15, Assembled

LEMMA AppendStep ==
  ASSUME Inv, NEW c \in Clients, AppendMessage(c)
  PROVE  Inv'
<1> DEFINE b == pending[c].mailbox
           before == box[b]
           s == IF server.stores THEN Append(before, Arrived) ELSE before
           cmd == "APPEND"
           r == Report(c, s, cmd)
           t == IF server.reports THEN r.box ELSE s
           v == [view[c] EXCEPT !.appended = @ + 1]
<1>1. /\ server' = server /\ profile' = profile /\ duration' = duration
      /\ seq' = seq /\ state' = state /\ pending' = pending /\ iterCount' = iterCount
      /\ ended' = ended /\ mismatched' = mismatched
      /\ pc' = [pc EXCEPT ![c] = "loop"]
      /\ view' = [view EXCEPT ![c] = v] /\ box' = [box EXCEPT ![b] = t]
      /\ pc[c] = "send" /\ pending[c].cmd = "APPEND"
  BY DEF AppendMessage, Sending, Goto, SetView, setting
<1>2. b \in MailboxNames /\ box \in Boxes /\ before \in Seq(Messages)
  BY <1>1 DEF Inv, Typed, Addressed, Boxes
<1>3. s \in Seq(Messages) /\ \A d : Told(d, s) = Told(d, before)
  <2> HIDE DEF before
  <2>1. CASE server.stores
    BY <1>2, <2>1, AppendIs
  <2>2. CASE ~server.stores
    BY <1>2, <2>2
  <2> QED
    BY <2>1, <2>2
<1> HIDE DEF s, cmd
<1>4. /\ t \in Seq(Messages)
      /\ \A d \in Clients \ {c} : Told(d, t) = Told(d, box[b])
      /\ ~server.reports => Told(c, t) = Told(c, box[b])
  <2>1. /\ r.box \in Seq(Messages) /\ \A d \in Clients \ {c} : Told(d, r.box) = Told(d, s)
    BY <1>3, ReportIs
  <2> HIDE DEF r, before
  <2>2. CASE server.reports
    BY <1>3, <2>1, <2>2 DEF before
  <2>3. CASE ~server.reports
    BY <1>3, <2>3 DEF before
  <2> QED
    BY <2>2, <2>3
<1> HIDE DEF t
<1>5. view[c] \in Views
  BY DEF Inv, Typed
<1>6. /\ v \in Views /\ v.mailbox = view[c].mailbox
      /\ v.exists = view[c].exists /\ v.baseline = view[c].baseline
  BY <1>5 DEF Views
<1> HIDE DEF v, b
<1>7. box' \in Boxes /\ box'[b] = t /\ \A x \in MailboxNames : x # b => box'[x] = box[x]
  BY <1>1, <1>2, <1>4 DEF Boxes
<1>8. pc' \in [Clients -> {"idle", "loop", "choose", "reselect", "send", "done"}]
  BY <1>1 DEF Inv, Typed
<1>9. view' \in [Clients -> Views]
  BY <1>1, <1>6 DEF Inv, Typed
<1>10. Typed'
  BY <1>1, <1>7, <1>8, <1>9 DEF Inv, Typed
<1>11. pc'[c] = "loop" /\ view'[c] = v
  BY <1>1 DEF Inv, Typed
<1>12. Spares(c)
  <2>1. \A d \in Clients \ {c} : \A x \in MailboxNames : Told(d, box'[x]) = Told(d, box[x])
    BY <1>4, <1>7
  <2> QED
    BY <1>1, <2>1 DEF Inv, Typed, Spares
<1>13. Addressed(c)'
  BY <1>1, <1>6, <1>11 DEF Inv, Addressed
<1>14. Session(c)'
  <2>1. ~server.reports => \A x \in MailboxNames : Told(c, box'[x]) = Told(c, box[x])
    BY <1>4, <1>7
  <2>2. \A x \in MailboxNames : Counted(c, x)' = Counted(c, x)
    BY <1>1, <1>6, <1>11 DEF Counted
  <2>3. ~server.reports =>
          /\ view[c].exists = view[c].baseline
          /\ \A x \in MailboxNames : Told(c, box[x]) = Counted(c, x)
    BY DEF Inv, Session
  <2> HIDE DEF r, before
  <2> QED
    BY <1>1, <1>6, <1>11, <2>1, <2>2, <2>3 DEF Session
<1> QED
  BY <1>10, <1>12, <1>13, <1>14, Assembled

(* Any other command: its answer is added to the view, or the session ends *)
(* because it contradicts the view.                                        *)
LEMMA RunCommandStep ==
  ASSUME Inv, NEW c \in Clients, RunCommand(c)
  PROVE  Inv'
<1> DEFINE b == pending[c].mailbox
           s == AfterCommand(c, box[b])
           cmd == pending[c].cmd
           r == Report(c, s, cmd)
           v == Apply(view[c], r)
<1>1. /\ server' = server /\ profile' = profile /\ duration' = duration
      /\ seq' = seq /\ pending' = pending /\ iterCount' = iterCount /\ ended' = ended
      /\ UNCHANGED <<setting, seq, pending, iterCount, ended>>
      /\ pc[c] = "send" /\ pending[c].cmd # "SELECT"
  BY DEF RunCommand, Sending, setting
<1>2. \/ /\ pc' = [pc EXCEPT ![c] = "loop"] /\ view' = [view EXCEPT ![c] = v]
         /\ box' = [box EXCEPT ![b] = r.box] /\ state' = state /\ mismatched' = mismatched
      \/ mismatched' = TRUE /\ Return(c, [box EXCEPT ![b] = r.box])
  BY DEF RunCommand, Goto, SetView
<1>3. /\ b \in MailboxNames /\ box \in Boxes /\ box[b] \in Seq(Messages)
      /\ state[c] = "selected" /\ b = view[c].mailbox
  BY <1>1 DEF Inv, Typed, Addressed, Boxes
<1>4. s \in Seq(Messages) /\ \A d : Told(d, s) = Told(d, box[b])
  BY <1>3, AfterIs
<1> HIDE DEF s, cmd
<1>6. /\ r.box \in Seq(Messages) /\ r.count \in Nat /\ r.expunged \in Nat
      /\ r.expunged <= Told(c, box[b]) /\ Told(c, r.box) = r.count
      /\ ~r.says => r.count = Told(c, box[b]) - r.expunged
      /\ \A d \in Clients \ {c} : Told(d, r.box) = Told(d, box[b])
  BY <1>4, ReportIs
<1> HIDE DEF r
<1> DEFINE after == [box EXCEPT ![b] = r.box]
<1>7. /\ after \in Boxes /\ after[b] = r.box
      /\ \A x \in MailboxNames : x # b => after[x] = box[x]
  BY <1>3, <1>6 DEF Boxes
<1>8. \A d \in Clients \ {c}, x \in MailboxNames : Told(d, after[x]) = Told(d, box[x])
  BY <1>6, <1>7
<1> HIDE DEF after
<1>9. CASE mismatched' = TRUE /\ Return(c, after)
  BY <1>1, <1>7, <1>8, <1>9, ReturnStep
<1>10. CASE /\ pc' = [pc EXCEPT ![c] = "loop"] /\ view' = [view EXCEPT ![c] = v]
            /\ box' = after /\ state' = state /\ mismatched' = mismatched
  <2>1. view[c] \in Views
    BY DEF Inv, Typed
  <2>2. /\ v \in Views /\ v.mailbox = view[c].mailbox
        /\ view[c].exists = view[c].baseline => v.exists = v.baseline
        /\ r.expunged <= view[c].exists /\ (~r.says => r.count = view[c].exists - r.expunged)
             => v.exists = r.count
    BY <1>6, <2>1, ApplyIs
  <2> HIDE DEF v, b
  <2>3. pc' \in [Clients -> {"idle", "loop", "choose", "reselect", "send", "done"}]
    BY <1>10 DEF Inv, Typed
  <2>4. view' \in [Clients -> Views]
    BY <1>10, <2>2 DEF Inv, Typed
  <2>5. Typed'
    BY <1>1, <1>7, <1>10, <2>3, <2>4 DEF Inv, Typed
  <2>6. pc'[c] = "loop" /\ view'[c] = v
    BY <1>10 DEF Inv, Typed
  <2>7. Spares(c)
    BY <1>1, <1>8, <1>10 DEF Inv, Typed, Spares
  <2>8. Addressed(c)'
    BY <1>10, <2>2, <2>6 DEF Inv, Addressed
  <2>9. Session(c)'
    <3> SUFFICES ASSUME ~server.reports
                 PROVE  /\ v.exists = v.baseline
                        /\ \A x \in MailboxNames : Told(c, box'[x]) = Counted(c, x)'
      BY <1>1, <2>6 DEF Session
    <3>1. /\ view[c].exists = view[c].baseline
          /\ \A x \in MailboxNames : Told(c, box[x]) = Counted(c, x)
      BY DEF Inv, Session
    <3>2. Told(c, box[b]) = view[c].exists
      BY <1>3, <3>1 DEF Counted
    <3>3. v.exists = r.count /\ v.exists = v.baseline
      BY <1>6, <2>2, <3>1, <3>2
    <3>4. \A x \in MailboxNames : x # b => Counted(c, x) = 0 /\ Counted(c, x)' = 0
      BY <1>3, <1>10, <2>2, <2>6 DEF Counted
    <3>5. \A x \in MailboxNames : x = b => Counted(c, x)' = r.count
      BY <1>3, <1>10, <2>2, <2>6, <3>3 DEF Counted
    <3>6. Told(c, box'[b]) = r.count /\ \A x \in MailboxNames : x # b => box'[x] = box[x]
      BY <1>6, <1>7, <1>10
    <3> QED
      BY <3>1, <3>3, <3>4, <3>5, <3>6
  <2> QED
    BY <2>5, <2>7, <2>8, <2>9, Assembled
<1> QED
  BY <1>2, <1>9, <1>10 DEF after

LEMMA StepInv == Inv /\ [Next]_vars => Inv'
<1> SUFFICES ASSUME Inv, [Next]_vars PROVE Inv'
  OBVIOUS
<1>1. ASSUME NEW c \in Clients, ClientStep(c)
      PROVE  Inv'
  BY <1>1, ClaimStep, LeaveStep, ConnectStep, ChooseStep, SelectStep, AppendStep, LogoutStep,
     RunCommandStep DEF ClientStep
<1> QED
  BY <1>1, EndRunStep, StutterStep DEF Next, Finished

-----------------------------------------------------------------------------
(* One client. *)

LEMMA BoundIs ==
  /\ Bound \in Nat /\ Initially <= Bound /\ 2 * TargetMessages + 1 <= Bound
<1> DEFINE S == {Initially, 2 * TargetMessages + 1}
<1>1. Initially \in Nat /\ 2 * TargetMessages + 1 \in Nat
  BY ConfigAssumption
<1>2. \E x \in S : \A y \in S : x >= y
  BY <1>1
<1>3. Bound = CHOOSE x \in S : \A y \in S : x >= y
  BY DEF Bound, Max
<1> DEFINE m == CHOOSE x \in S : \A y \in S : x >= y
<1>4. m \in S /\ \A y \in S : m >= y
  <2> HIDE DEF S
  <2> QED
    BY <1>2
<1> HIDE DEF m
<1> QED
  BY <1>1, <1>3, <1>4 DEF m

(* Steps that leave the mailboxes and the views alone.                     *)
LEMMA AsideAlone ==
  ASSUME NEW c, Clients = {c}, Sound(c), Bounded(c), UNCHANGED <<box, server, state, view>>,
         mismatched' = mismatched,
         pc'[c] = "send" /\ pending'[c].cmd = "APPEND" =>
           (TargetMessages > 0 => HeldBy(view[c]) <= 2 * TargetMessages)
  PROVE  Sound(c)' /\ Bounded(c)'
<1>1. box' = box /\ server' = server /\ state' = state /\ view' = view
  OBVIOUS
<1>2. Sound(c)'
  BY <1>1 DEF Sound, NoneGone, Unflagged
<1>3. Bounded(c)'
  BY <1>1 DEF Bounded, Bound
<1> QED
  BY <1>2, <1>3

(* Steps that close the session.                                           *)
LEMMA ClosedAlone ==
  ASSUME NEW c, Clients = {c}, Inv, NEW boxes \in Boxes,
         \A b \in MailboxNames : NoneGone(boxes[b])
           /\ (TargetMessages > 0 => Len(boxes[b]) <= Bound),
         box' = Forget(c, boxes), state' = [state EXCEPT ![c] = "disconnected"],
         server' = server, server.stores /\ ~server.reports => ~mismatched', pc'[c] # "send"
  PROVE  Sound(c)' /\ Bounded(c)'
<1>1. \A b \in MailboxNames : NoneGone(box'[b]) /\ Len(box'[b]) = Len(boxes[b])
  BY ForgetIs
<1>2. state'[c] = "disconnected"
  BY DEF Inv, Typed
<1>3. Sound(c)'
  BY <1>1, <1>2 DEF Sound, NoneGone
<1>4. Bounded(c)'
  BY <1>1 DEF Bounded, Bound
<1> QED
  BY <1>3, <1>4

(* The first report of a mailbox makes all of it known.                    *)
LEMMA SelectAlone ==
  ASSUME NEW c, Clients = {c}, Inv, Sound(c), Bounded(c), Select(c)
  PROVE  Sound(c)' /\ Bounded(c)'
<1> DEFINE b == pending[c].mailbox
           closed == Forget(c, box)
           s == closed[b]
           cmd == "SELECT"
           r == Report(c, s, cmd)
           v == TakeReport([EmptyView EXCEPT !.mailbox = b], r.count)
<1>1. /\ server' = server /\ mismatched' = mismatched
      /\ pc' = [pc EXCEPT ![c] = "loop"] /\ state' = [state EXCEPT ![c] = "selected"]
      /\ view' = [view EXCEPT ![c] = v] /\ box' = [closed EXCEPT ![b] = r.box]
      /\ pc[c] = "send"
  BY DEF Select, Sending, Goto, In, SetView, setting
<1>2. b \in MailboxNames /\ box \in Boxes
  BY <1>1 DEF Inv, Typed, Addressed
<1>3. /\ closed \in Boxes
      /\ \A x \in MailboxNames : NoneGone(closed[x]) /\ Len(closed[x]) = Len(box[x])
  BY <1>2, ForgetIs DEF Sound
<1> HIDE DEF closed
<1>4. s \in Seq(Messages) /\ \A i \in DOMAIN s : ~s[i].gone
  BY <1>2, <1>3 DEF Boxes, NoneGone
<1>5. Len(s) = Len(box[b]) /\ Len(s) \in Nat
  BY <1>2, <1>3, <1>4, SeqFacts
<1> HIDE DEF s, cmd
<1>6. /\ NoneGone(r.box) /\ Unflagged(c, r.box) /\ Len(r.box) = r.count
      /\ r.count = Len(s) - r.expunged /\ r.expunged \in Nat
  BY <1>4, ReportAlone
<1>7. r.box \in Seq(Messages) /\ r.count \in Nat
  BY <1>4, ReportIs
<1> HIDE DEF r
<1>8. v.mailbox = b /\ v.exists = r.count /\ v.appended = 0
  BY DEF TakeReport, EmptyView
<1> HIDE DEF v, b
<1>9. /\ box'[b] = r.box /\ pc'[c] = "loop" /\ state'[c] = "selected" /\ view'[c] = v
      /\ \A x \in MailboxNames : x # b => box'[x] = closed[x]
  BY <1>1, <1>2, <1>3 DEF Inv, Typed, Boxes
<1>10. \A x \in MailboxNames : NoneGone(box'[x]) /\ Len(box'[x]) <= Len(box[x])
  <2>1. \A x \in MailboxNames : Len(box[x]) \in Nat
    BY <1>2, SeqFacts DEF Boxes
  <2> QED
    BY <1>3, <1>5, <1>6, <1>7, <1>9, <2>1
<1>11. HeldBy(v) = r.count
  BY <1>7, <1>8 DEF HeldBy
<1>12. /\ Unflagged(c, box'[v.mailbox]) /\ HeldBy(v) \in Nat
       /\ HeldBy(v) = Len(box'[v.mailbox])
  BY <1>6, <1>7, <1>8, <1>9, <1>11
<1>13. Sound(c)'
  BY <1>1, <1>9, <1>10, <1>12 DEF Sound, NoneGone, Unflagged
<1>14. Bounded(c)'
  <2>1. \A x \in MailboxNames : Len(box'[x]) \in Nat /\ Len(box[x]) \in Nat
    <3>1. box' \in Boxes
      BY <1>1, <1>2, <1>3, <1>7 DEF Boxes
    <3> QED
      BY <1>2, <3>1, SeqFacts DEF Boxes
  <2>2. TargetMessages > 0 => \A x \in MailboxNames : Len(box'[x]) <= Bound
    BY <1>10, <2>1, BoundIs DEF Bounded
  <2> QED
    BY <1>9, <2>2 DEF Bounded, Bound
<1> QED
  BY <1>13, <1>14

(* An append is counted as it is made, and made only while there is room;  *)
(* a report in answer to it shows the session what came, and nothing went. *)
LEMMA AppendAlone ==
  ASSUME NEW c, Clients = {c}, Inv, Sound(c), Bounded(c), AppendMessage(c)
  PROVE  Sound(c)' /\ Bounded(c)'
<1> DEFINE b == pending[c].mailbox
           before == box[b]
           s == IF server.stores THEN Append(before, Arrived) ELSE before
           cmd == "APPEND"
           r == Report(c, s, cmd)
           t == IF server.reports THEN r.box ELSE s
           v == [view[c] EXCEPT !.appended = @ + 1]
<1>1. /\ server' = server /\ state' = state /\ mismatched' = mismatched
      /\ pc' = [pc EXCEPT ![c] = "loop"]
      /\ view' = [view EXCEPT ![c] = v] /\ box' = [box EXCEPT ![b] = t]
      /\ pc[c] = "send" /\ pending[c].cmd = "APPEND"
  BY DEF AppendMessage, Sending, Goto, SetView, setting
<1>2. /\ b \in MailboxNames /\ box \in Boxes /\ before \in Seq(Messages)
      /\ state[c] = "selected" /\ b = view[c].mailbox
  BY <1>1 DEF Inv, Typed, Addressed, Boxes
<1>3. /\ NoneGone(before) /\ Unflagged(c, before)
      /\ server.stores => /\ Len(before) <= HeldBy(view[c])
                          /\ ~server.reports => Len(before) = HeldBy(view[c])
  BY <1>2 DEF Sound
<1>4. Len(before) \in Nat /\ view[c] \in Views
  BY <1>2, SeqFacts DEF Inv, Typed
<1> HIDE DEF before
<1>5. /\ s \in Seq(Messages) /\ NoneGone(s) /\ Unflagged(c, s)
      /\ Len(s) = IF server.stores THEN Len(before) + 1 ELSE Len(before)
  <2>1. CASE server.stores
    BY <1>2, <1>3, <2>1, AppendIs
  <2>2. CASE ~server.stores
    BY <1>2, <1>3, <2>2
  <2> QED
    BY <2>1, <2>2
<1> HIDE DEF s, cmd
<1>6. /\ t \in Seq(Messages) /\ NoneGone(t) /\ Unflagged(c, t)
      /\ Len(t) \in Nat /\ Len(t) <= Len(s) /\ (~server.reports => t = s)
  <2>1. Len(s) \in Nat
    BY <1>4, <1>5
  <2>2. CASE server.reports
    <3>1. \A i \in DOMAIN s : ~s[i].gone
      BY <1>5 DEF NoneGone
    <3>2. /\ NoneGone(r.box) /\ Unflagged(c, r.box)
          /\ Len(r.box) = r.count /\ r.count = Len(s) - r.expunged /\ r.expunged \in Nat
      BY <1>5, <3>1, ReportAlone
    <3>3. r.box \in Seq(Messages) /\ r.count \in Nat
      BY <1>5, ReportIs
    <3> HIDE DEF r
    <3> QED
      BY <2>1, <2>2, <3>2, <3>3
  <2>3. CASE ~server.reports
    BY <1>5, <2>1, <2>3
  <2> QED
    BY <2>2, <2>3
<1> HIDE DEF t
<1>7. v.mailbox = b /\ HeldBy(v) = HeldBy(view[c]) + 1 /\ HeldBy(view[c]) \in Nat
  BY <1>2, <1>4 DEF Views, HeldBy
<1> HIDE DEF v, b
<1>8. /\ box'[b] = t /\ pc'[c] = "loop" /\ state'[c] = "selected" /\ view'[c] = v
      /\ \A x \in MailboxNames : x # b => box'[x] = box[x]
  BY <1>1, <1>2 DEF Inv, Typed, Boxes
<1>9. \A x \in MailboxNames : NoneGone(box'[x])
  BY <1>6, <1>8 DEF Sound
<1>10. /\ Unflagged(c, box'[v.mailbox])
       /\ server.stores => /\ Len(box'[v.mailbox]) <= HeldBy(v)
                           /\ ~server.reports => Len(box'[v.mailbox]) = HeldBy(v)
  BY <1>3, <1>4, <1>5, <1>6, <1>7, <1>8
<1>11. Sound(c)'
  BY <1>1, <1>8, <1>9, <1>10 DEF Sound, NoneGone, Unflagged
<1>12. Bounded(c)'
  <2>1. TargetMessages > 0 => HeldBy(view[c]) <= 2 * TargetMessages /\ Len(before) <= Bound
    BY <1>1, <1>2 DEF Bounded, before
  <2>2. TargetMessages > 0 => Len(t) <= Bound
    BY <1>3, <1>4, <1>5, <1>6, <1>7, <2>1, BoundIs, ConfigAssumption
  <2>3. TargetMessages > 0 => \A x \in MailboxNames : Len(box'[x]) <= Bound
    BY <1>8, <2>2 DEF Bounded
  <2> QED
    BY <1>8, <2>3 DEF Bounded, Bound
<1> QED
  BY <1>11, <1>12

(* An honest server's answer never says less than the view holds, if it    *)
(* reports nothing in answer to APPEND.                                    *)
LEMMA NoMismatch ==
  ASSUME NEW c, Clients = {c}, Inv, Sound(c), server.stores, ~server.reports,
         state[c] = "selected",
         NEW s \in Seq(Messages), NEW cmd,
         Len(s) = Len(box[view[c].mailbox]), Told(c, s) = Told(c, box[view[c].mailbox]),
         \A i \in DOMAIN s : s[i].gone => cmd \notin Quiet /\ c \in s[i].known,
         NEW r, r = Report(c, s, cmd)
  PROVE  ~Mismatch(view[c], r)
<1> DEFINE v == view[c]
           before == box[v.mailbox]
           x == ApplyExpunges(v, r.expunged)
<1>1. v \in Views /\ v.mailbox \in MailboxNames /\ before \in Seq(Messages)
  BY DEF Inv, Typed, Addressed, Boxes
<1>2. Told(c, before) = v.exists /\ v.exists = v.baseline /\ HeldBy(v) = Len(before)
  BY <1>1 DEF Inv, Session, Counted, Sound
<1>3. Len(before) \in Nat /\ Len(s) = Len(before) /\ Told(c, s) = v.exists
  BY <1>1, <1>2, SeqFacts
<1>4. r.count = Len(s) - r.expunged /\ r.expunged \in Nat
  BY ReportAlone
<1>5. r.count \in Nat /\ r.expunged <= Told(c, s)
  BY ReportIs
<1>6. /\ v.exists \in Nat /\ v.appended \in Nat /\ HeldBy(v) = v.exists + v.appended
  BY <1>1 DEF Views, HeldBy
<1> HIDE DEF before
<1>7. x.baseline = Minus(v.baseline, r.expunged) /\ x.appended = v.appended
  BY <1>1, <1>4, ExpungesIs
<1>8. Minus(v.baseline, r.expunged) = v.exists - r.expunged
  BY <1>2, <1>3, <1>4, <1>5, <1>6 DEF Minus
<1>9. Mismatch(v, r) => r.count < x.baseline + x.appended
  BY DEF Mismatch, Contradicts
<1> HIDE DEF x, v
<1>10. ~Mismatch(v, r)
  BY <1>2, <1>3, <1>4, <1>5, <1>6, <1>7, <1>8, <1>9
<1> QED
  BY <1>10 DEF v

(* An answer leaves the view holding no less than what is there: when it   *)
(* says nothing of new messages it takes off no more than went.  If nothing *)
(* is reported in answer to APPEND it leaves exactly what is there, for    *)
(* then an answer that says nothing follows no append.                     *)
LEMMA RunCommandAlone ==
  ASSUME NEW c, Clients = {c}, Inv, Sound(c), Bounded(c), RunCommand(c)
  PROVE  Sound(c)' /\ Bounded(c)'
<1> DEFINE b == pending[c].mailbox
           before == box[b]
           s == AfterCommand(c, before)
           cmd == pending[c].cmd
           r == Report(c, s, cmd)
           v == view[c]
           w == Apply(v, r)
           after == [box EXCEPT ![b] = r.box]
<1>1. server' = server /\ pc[c] = "send" /\ pending[c].cmd # "SELECT"
  BY DEF RunCommand, Sending, setting
<1>2. \/ /\ pc' = [pc EXCEPT ![c] = "loop"] /\ view' = [view EXCEPT ![c] = w]
         /\ box' = after /\ state' = state /\ mismatched' = mismatched
      \/ /\ Mismatch(v, r)
         /\ box' = Forget(c, after) /\ state' = [state EXCEPT ![c] = "disconnected"]
         /\ pc' = [pc EXCEPT ![c] = "idle"]
  BY DEF RunCommand, Return, Goto, In, SetView
<1>3. /\ b \in MailboxNames /\ box \in Boxes /\ before \in Seq(Messages)
      /\ state[c] = "selected" /\ b = v.mailbox /\ v \in Views
  BY <1>1 DEF Inv, Typed, Addressed, Boxes
<1>4. /\ NoneGone(before) /\ Unflagged(c, before)
      /\ server.stores => /\ Len(before) <= HeldBy(v)
                          /\ ~server.reports => Len(before) = HeldBy(v)
  BY <1>3 DEF Sound
<1>5. ~server.reports => Told(c, before) = v.exists /\ v.exists = v.baseline
  BY <1>3 DEF Inv, Session, Counted
<1>6. Len(before) \in Nat
  BY <1>3, SeqFacts
<1> HIDE DEF before
<1>7. /\ s \in Seq(Messages) /\ Len(s) = Len(before) /\ Told(c, s) = Told(c, before)
      /\ \A i \in DOMAIN s : s[i].gone => pending[c].cmd = "EXPUNGE" /\ c \in s[i].known
  BY <1>3, <1>4, AfterIs
<1>8. \A i \in DOMAIN s : s[i].gone => cmd \notin Quiet /\ c \in s[i].known
  BY <1>7 DEF Quiet
<1> HIDE DEF s, cmd
<1>9. /\ NoneGone(r.box) /\ Unflagged(c, r.box) /\ Len(r.box) = r.count
      /\ r.count = Len(before) - r.expunged /\ r.expunged \in Nat
  BY <1>7, <1>8, ReportAlone
<1>10. /\ r.box \in Seq(Messages) /\ r.count \in Nat /\ r.expunged <= Told(c, s)
       /\ ~r.says => r.count = Told(c, s) - r.expunged
  BY <1>7, ReportIs
<1>11. server.stores /\ ~server.reports => ~Mismatch(v, r)
  BY <1>3, <1>7, <1>8, NoMismatch DEF before
<1> HIDE DEF r
<1>12. /\ w.mailbox = b
       /\ w.appended = IF r.says THEN 0 ELSE v.appended
       /\ w.exists = IF r.says THEN r.count ELSE Minus(v.exists, r.expunged)
  BY <1>3, <1>9, <1>10, ApplyIs
<1> HIDE DEF w
<1>13. /\ after \in Boxes /\ after[b] = r.box
       /\ \A x \in MailboxNames : x # b => after[x] = box[x]
  BY <1>3, <1>10 DEF Boxes
<1> HIDE DEF after
<1>14. /\ v.exists \in Nat /\ v.appended \in Nat /\ HeldBy(v) = v.exists + v.appended
       /\ HeldBy(w) = w.exists + w.appended
  BY <1>3 DEF Views, HeldBy
<1>15. server.stores => /\ r.count <= HeldBy(w)
                        /\ ~server.reports => r.count = HeldBy(w)
  <2> HIDE DEF v
  <2> SUFFICES ASSUME server.stores
               PROVE  r.count <= HeldBy(w) /\ (~server.reports => r.count = HeldBy(w))
    OBVIOUS
  <2>1. CASE r.says
    BY <1>10, <1>12, <1>14, <2>1
  <2>2. CASE ~r.says
    <3>1. HeldBy(w) = Minus(v.exists, r.expunged) + v.appended
      BY <1>12, <1>14, <2>2
    <3>2. r.count <= HeldBy(w)
      BY <1>4, <1>6, <1>9, <1>14, <3>1 DEF Minus
    <3>3. ASSUME ~server.reports
          PROVE  r.count = HeldBy(w)
      <4>1. r.expunged <= v.exists /\ r.count = v.exists - r.expunged
        BY <1>5, <1>7, <1>10, <2>2, <3>3
      <4>2. v.appended = 0
        BY <1>4, <1>6, <1>9, <1>14, <3>3, <4>1
      <4> QED
        BY <1>9, <1>14, <3>1, <4>1, <4>2 DEF Minus
    <3> QED
      BY <3>2, <3>3
  <2> QED
    BY <2>1, <2>2
<1>16. \A x \in MailboxNames : /\ NoneGone(after[x])
                               /\ TargetMessages > 0 => Len(after[x]) <= Bound
  <2>1. TargetMessages > 0 => Len(before) <= Bound
    BY <1>3 DEF Bounded, before
  <2>2. TargetMessages > 0 => Len(r.box) <= Bound
    BY <1>6, <1>9, <1>10, <2>1, BoundIs
  <2> QED
    BY <1>9, <1>13, <2>2 DEF Sound, Bounded
<1> HIDE DEF v, b
<1>17. CASE /\ Mismatch(v, r)
            /\ box' = Forget(c, after) /\ state' = [state EXCEPT ![c] = "disconnected"]
            /\ pc' = [pc EXCEPT ![c] = "idle"]
  <2>1. pc'[c] # "send"
    BY <1>17 DEF Inv, Typed
  <2> QED
    BY <1>1, <1>11, <1>13, <1>16, <1>17, <2>1, ClosedAlone
<1>18. CASE /\ pc' = [pc EXCEPT ![c] = "loop"] /\ view' = [view EXCEPT ![c] = w]
            /\ box' = after /\ state' = state /\ mismatched' = mismatched
  <2>1. pc'[c] = "loop" /\ view'[c] = w
    BY <1>18 DEF Inv, Typed
  <2>2. box'[w.mailbox] = r.box
    BY <1>12, <1>13, <1>18
  <2>3. Sound(c)'
    BY <1>1, <1>9, <1>15, <1>16, <1>18, <2>1, <2>2 DEF Sound, NoneGone, Unflagged
  <2>4. Bounded(c)'
    BY <1>16, <1>18, <2>1 DEF Bounded, Bound
  <2> QED
    BY <2>3, <2>4
<1> QED
  BY <1>2, <1>17, <1>18

LEMMA InitAlone ==
  ASSUME NEW c, Clients = {c}, Init
  PROVE  Sound(c) /\ Bounded(c)
<1> DEFINE s == [i \in 1 .. Initially |-> Arrived]
<1>1. Arrived \in Messages /\ ~Arrived.gone
  BY DEF Arrived, Messages
<1>2. DOMAIN s = 1 .. Initially /\ \A i \in DOMAIN s : s[i] = Arrived
  OBVIOUS
<1>3. s \in Seq(Messages) /\ Len(s) = Initially
  <2> HIDE DEF Arrived
  <2> QED
    BY <1>1, ConfigAssumption
<1>4. box = [b \in MailboxNames |-> s]
  BY DEF Init
<1> HIDE DEF s, Arrived
<1>5. \A b \in MailboxNames : box[b] = s
  BY <1>4
<1>6. \A b \in MailboxNames : NoneGone(box[b])
  BY <1>1, <1>2, <1>5 DEF NoneGone
<1>7. state[c] = "disconnected" /\ pc[c] = "idle" /\ ~mismatched
  BY DEF Init
<1>8. Sound(c)
  BY <1>6, <1>7 DEF Sound
<1>9. Bounded(c)
  BY <1>3, <1>5, <1>7, BoundIs DEF Bounded
<1> QED
  BY <1>8, <1>9

(* What the steady state and the profile choose.                           *)
LEMMA ChooseAlone ==
  ASSUME NEW c, Clients = {c}, Inv, Sound(c), Bounded(c), Choose(c) \/ Reselect(c)
  PROVE  Sound(c)' /\ Bounded(c)'
<1>1. /\ UNCHANGED <<box, server, state, view>> /\ mismatched' = mismatched
  BY DEF Choose, Reselect, setting
<1>2. pc \in [Clients -> {"idle", "loop", "choose", "reselect", "send", "done"}]
      /\ pending \in [Clients -> [cmd : Commands, mailbox : MailboxNames \cup {NoMailbox}]]
      /\ view[c] \in Views
  BY DEF Inv, Typed
<1>3. \/ pc' = [pc EXCEPT ![c] = "reselect"]
      \/ \E b : pending' = [pending EXCEPT ![c] = [cmd |-> "SELECT", mailbox |-> b]]
      \/ \E b : pending' = [pending EXCEPT
                              ![c] = [cmd |-> ChooseFor(view[c], seq), mailbox |-> b]]
  BY DEF Choose, Reselect, SelectAt, SendNext, Goto
<1>4. \/ pc'[c] = "reselect" \/ pending'[c].cmd = "SELECT"
      \/ pending'[c].cmd = ChooseFor(view[c], seq)
  BY <1>2, <1>3
<1>5. HeldBy(view[c]) \in Nat
  BY <1>2 DEF Views, HeldBy
<1>6. ChooseFor(view[c], seq) = "APPEND" =>
        (TargetMessages > 0 => HeldBy(view[c]) <= 2 * TargetMessages)
  BY <1>5, ConfigAssumption DEF ChooseFor
<1> QED
  BY <1>1, <1>4, <1>6, AsideAlone

LEMMA ReturnAlone ==
  ASSUME NEW c, Clients = {c}, Inv, Sound(c), Bounded(c),
         Leave(c) \/ RefuseCommand(c) \/ (Connect(c) /\ Return(c, box)) \/ Logout(c)
  PROVE  Sound(c)' /\ Bounded(c)'
<1>1. /\ server' = server /\ box' = Forget(c, box)
      /\ state' = [state EXCEPT ![c] = "disconnected"]
      /\ \E place \in {"idle", "loop"} : pc' = [pc EXCEPT ![c] = place]
  BY DEF Leave, RefuseCommand, Connect, Logout, Return, Goto, In, setting
<1>2. box \in Boxes /\ pc'[c] # "send"
  BY <1>1 DEF Inv, Typed
<1>3. \A b \in MailboxNames : NoneGone(box[b]) /\ (TargetMessages > 0 => Len(box[b]) <= Bound)
  BY DEF Sound, Bounded
<1>4. server.stores /\ ~server.reports => ~mismatched'
  <2>1. CASE mismatched' = mismatched
    BY <2>1 DEF Sound
  <2>2. CASE Logout(c)
    <3> DEFINE s == box[pending[c].mailbox]
               cmd == "LOGOUT"
               r == Report(c, s, cmd)
    <3>1. /\ s \in Seq(Messages) /\ state[c] = "selected" /\ s = box[view[c].mailbox]
          /\ view[c].mailbox \in MailboxNames
      BY <2>2 DEF Logout, Sending, Inv, Typed, Addressed, Boxes
    <3>2. \A i \in DOMAIN s : ~s[i].gone
      BY <3>1 DEF Sound, NoneGone
    <3>3. mismatched' = mismatched \/ Mismatch(view[c], r)
      BY <2>2 DEF Logout
    <3> HIDE DEF s, cmd
    <3>4. server.stores /\ ~server.reports => ~Mismatch(view[c], r)
      BY <3>1, <3>2, NoMismatch
    <3> QED
      BY <2>1, <3>3, <3>4
  <2>3. CASE Leave(c) \/ RefuseCommand(c) \/ Connect(c)
    BY <2>1, <2>3 DEF Leave, RefuseCommand, Connect
  <2> QED
    BY <2>2, <2>3
<1> QED
  BY <1>1, <1>2, <1>3, <1>4, ClosedAlone

LEMMA ConnectAlone ==
  ASSUME NEW c, Clients = {c}, Inv, Sound(c), Bounded(c), Connect(c), ~Return(c, box)
  PROVE  Sound(c)' /\ Bounded(c)'
<1>1. /\ server' = server /\ mismatched' = mismatched /\ box' = box
      /\ pc' = [pc EXCEPT ![c] = "choose"] /\ state' = [state EXCEPT ![c] = "authenticated"]
  BY DEF Connect, Goto, In, setting
<1>2. pc'[c] = "choose" /\ state'[c] = "authenticated"
  BY <1>1 DEF Inv, Typed
<1>3. Sound(c)'
  BY <1>1, <1>2 DEF Sound, NoneGone
<1>4. Bounded(c)'
  BY <1>1, <1>2 DEF Bounded, Bound
<1> QED
  BY <1>3, <1>4

LEMMA StepAlone ==
  ASSUME NEW c, Clients = {c}, Inv, Sound(c), Bounded(c), [Next]_vars
  PROVE  Sound(c)' /\ Bounded(c)'
<1>1. CASE EndRun \/ UNCHANGED vars
  <2>1. /\ UNCHANGED <<box, server, state, view>> /\ mismatched' = mismatched
        /\ pc' = pc /\ pending' = pending
    BY <1>1 DEF EndRun, vars, setting
  <2> QED
    BY <2>1, AsideAlone DEF Bounded
<1>2. CASE Claim(c)
  <2>1. /\ UNCHANGED <<box, server, state, view>> /\ mismatched' = mismatched
        /\ \E place \in {"done", "loop"} : pc' = [pc EXCEPT ![c] = place]
    BY <1>2 DEF Claim, ClaimUnder, Goto, setting
  <2>2. pc'[c] # "send"
    BY <2>1 DEF Inv, Typed
  <2> QED
    BY <2>1, <2>2, AsideAlone
<1>3. CASE ClientStep(c)
  BY <1>2, <1>3, ReturnAlone, ConnectAlone, ChooseAlone, SelectAlone, AppendAlone,
     RunCommandAlone DEF ClientStep
<1> QED
  BY <1>1, <1>3 DEF Next, Finished

-----------------------------------------------------------------------------
(* Every variable keeps its type, however many clients there are and       *)
(* whatever the server answers: a view's numbers never go below zero, and  *)
(* every number picks a command of the profile.                            *)
THEOREM TypeCorrect == Spec => []TypeOK
<1>1. Inv => TypeOK
  <2> SUFFICES ASSUME Inv PROVE TypeOK
    OBVIOUS
  <2>1. Typed
    BY DEF Inv
  <2>2. DOMAIN box = MailboxNames
    BY <2>1 DEF Typed, Boxes
  <2>3. \A b \in MailboxNames : \A i \in DOMAIN box[b] : box[b][i] \in Messages
    BY <2>1, SeqFacts DEF Typed, Boxes
  <2> QED
    BY <2>1, <2>2, <2>3 DEF Typed, TypeOK
<1> QED
  BY <1>1, InitInv, StepInv, PTL DEF Spec, Safety

(* However many clients append to a mailbox and expunge it, each one's     *)
(* last EXISTS is what its own session has been told, if the server says   *)
(* nothing in answer to APPEND.                                            *)
THEOREM ViewsAreSessions == Spec => []ViewIsSession
<1>1. Inv => ViewIsSession
  BY DEF Inv, Addressed, Session, Counted, Told, ViewIsSession, Selected
<1> QED
  BY <1>1, InitInv, StepInv, PTL DEF Spec, Safety

(* Nor does a client of such a server then name a message past the end of  *)
(* its mailbox.                                                            *)
THEOREM RangesAreFresh == Spec => [](~server.reports => NoStaleRange)
<1>1. Inv => (~server.reports => NoStaleRange)
  <2> SUFFICES ASSUME Inv, ~server.reports, NEW c \in Selected
               PROVE  view[c].exists <= Cardinality(KnownTo(c, box[view[c].mailbox]))
    BY DEF NoStaleRange
  <2>1. view[c].exists = Cardinality(KnownTo(c, box[view[c].mailbox]))
    BY DEF Inv, Addressed, Session, Counted, Told, Selected
  <2>2. view[c].exists \in Nat
    <3>1. view[c] \in Views
      BY DEF Inv, Typed, Selected
    <3> QED
      BY <3>1 DEF Views
  <2> QED
    BY <2>1, <2>2
<1> QED
  BY <1>1, InitInv, StepInv, PTL DEF Spec, Safety

LEMMA AloneAlways ==
  ASSUME NEW c, Clients = {c}
  PROVE  Spec => [](Inv /\ Sound(c) /\ Bounded(c))
<1>1. Init => Inv /\ Sound(c) /\ Bounded(c)
  BY InitInv, InitAlone
<1>2. Inv /\ Sound(c) /\ Bounded(c) /\ [Next]_vars => Inv' /\ Sound(c)' /\ Bounded(c)'
  BY StepInv, StepAlone
<1> QED
  BY <1>1, <1>2, PTL DEF Spec, Safety

(* A client alone with a server that stores what it acknowledges, and that *)
(* reports nothing in answer to APPEND, never accuses it.                  *)
THEOREM HonestNotAccused ==
  ASSUME NEW c, Clients = {c}
  PROVE  Spec => []NoFalseAlarm
<1>1. Sound(c) => NoFalseAlarm
  BY DEF Sound, NoFalseAlarm, HonestNeverAccused
<1> QED
  BY <1>1, AloneAlways, PTL

(* What a client alone takes its mailbox to hold is never less than it     *)
(* holds, and is what it holds if the server reports nothing in answer to  *)
(* APPEND.                                                                 *)
THEOREM HeldTruly ==
  ASSUME NEW c, Clients = {c}
  PROVE  Spec => []HeldIsReal
<1>1. Inv /\ Sound(c) => HeldIsReal
  <2> SUFFICES ASSUME Inv, Sound(c), server.stores, state[c] = "selected"
               PROVE  /\ HeldIn(view[c].mailbox) <= HeldBy(view[c])
                      /\ ~server.reports => HeldIn(view[c].mailbox) = HeldBy(view[c])
    BY DEF HeldIsReal, Selected
  <2> DEFINE s == box[view[c].mailbox]
  <2>1. view[c].mailbox \in MailboxNames
    BY DEF Inv, Addressed
  <2>2. /\ s \in Seq(Messages) /\ NoneGone(s)
        /\ Len(s) <= HeldBy(view[c]) /\ (~server.reports => Len(s) = HeldBy(view[c]))
    BY <2>1 DEF Inv, Typed, Boxes, Sound
  <2>3. HeldIn(view[c].mailbox) = Cardinality(Held(s))
    BY DEF HeldIn
  <2> HIDE DEF s
  <2>4. Held(s) = DOMAIN s
    BY <2>2 DEF Held, NoneGone
  <2>5. Cardinality(Held(s)) = Len(s)
    BY <2>2, <2>4, SeqFacts
  <2> QED
    BY <2>2, <2>3, <2>5
<1> QED
  BY <1>1, AloneAlways, PTL

(* -msgs bounds the mailbox of a client alone through the whole run,       *)
(* whatever its profile appends and whatever the server reports.           *)
THEOREM GrowthIsBounded ==
  ASSUME NEW c, Clients = {c}
  PROVE  Spec => []GrowthBounded
<1>1. Inv /\ Bounded(c) => GrowthBounded
  <2> SUFFICES ASSUME Inv, Bounded(c), TargetMessages > 0, NEW b \in MailboxNames
               PROVE  Cardinality(Held(box[b])) <= Bound
    BY DEF GrowthBounded, Bound, HeldIn
  <2>1. box[b] \in Seq(Messages) /\ Held(box[b]) \in SUBSET DOMAIN box[b]
    BY DEF Inv, Typed, Boxes, Held
  <2>2. Len(box[b]) <= Bound
    BY DEF Bounded
  <2>3. /\ Len(box[b]) \in Nat /\ Cardinality(Held(box[b])) \in Nat
        /\ Cardinality(Held(box[b])) <= Len(box[b])
    BY <2>1, SeqFacts, PartFacts
  <2> QED
    BY <2>2, <2>3, BoundIs
<1> QED
  BY <1>1, AloneAlways, PTL
=============================================================================

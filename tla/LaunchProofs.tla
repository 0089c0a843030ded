---------------------------- MODULE LaunchProofs ----------------------------
(***************************************************************************)
(* Proofs about Launch, for files and lists of every length.               *)
(*                                                                         *)
(* What is loaded is what the file holds, what is sent is taken off the    *)
(* wire as it was loaded, and what is expanded is what a list names.       *)
(***************************************************************************)
EXTENDS Launch, SequenceTheorems, FunctionTheorems, FiniteSetTheorems,
        WellFoundedInduction, TLAPS

-----------------------------------------------------------------------------
(* Induction, over a set of numbers or of sequences. *)

LEMMA LeastNumber ==
  ASSUME NEW T \in SUBSET Nat, T # {}
  PROVE  \E n \in T : \A m \in T : n <= m
<1> DEFINE less == OpToRel(<, Nat)
<1>1. PICK n \in T : \A m \in T : <<m, n>> \notin less
  <2>1. IsWellFoundedOn(less, Nat)
    BY NatLessThanWellFounded
  <2> HIDE DEF less
  <2> QED
    BY <2>1, WFMin
<1>2. \A a, b \in Nat : a < b => <<a, b>> \in less
  BY DEF OpToRel
<1> HIDE DEF less
<1>3. \A m \in T : ~(m < n)
  BY <1>1, <1>2
<1> QED
  BY <1>3

LEMMA LargestNumber ==
  ASSUME NEW n \in Nat, NEW T \in SUBSET (0 .. n), T # {}
  PROVE  \E k \in T : \A i \in T : i <= k
<1> DEFINE R == {n - i : i \in T}
<1>1. R \in SUBSET Nat /\ R # {}
  <2>1. PICK i \in T : TRUE
    OBVIOUS
  <2>2. n - i \in R
    OBVIOUS
  <2>3. R \in SUBSET Nat
    OBVIOUS
  <2> QED
    BY <2>2, <2>3
<1>2. PICK d \in R : \A m \in R : d <= m
  BY <1>1, LeastNumber
<1>3. PICK k \in T : d = n - k
  BY <1>2
<1>4. \A i \in T : n - k <= n - i
  BY <1>2, <1>3
<1>5. \A i \in T : i <= k
  <2>1. k \in Int /\ n \in Int /\ \A i \in T : i \in Int
    OBVIOUS
  <2> QED
    BY <1>4, <2>1
<1> QED
  BY <1>5

LEMMA Induction ==
  ASSUME NEW n \in Nat, NEW P, 0 \in P, \A i \in 0 .. n - 1 : i \in P => i + 1 \in P
  PROVE  \A i \in 0 .. n : i \in P
<1> DEFINE T == {i \in 0 .. n : i \notin P}
<1> SUFFICES ASSUME T # {} PROVE FALSE
  OBVIOUS
<1>1. PICK m \in T : \A i \in T : m <= i
  <2>1. T \in SUBSET Nat
    OBVIOUS
  <2> QED
    BY <2>1, LeastNumber
<1>2. m - 1 \in 0 .. n - 1 /\ m - 1 \in 0 .. n /\ ~(m <= m - 1)
  BY <1>1
<1>3. m - 1 \in P
  BY <1>1, <1>2
<1>4. (m - 1) + 1 = m
  BY <1>1
<1> QED
  BY <1>1, <1>2, <1>3, <1>4

(* What is computed a step at a time.                                      *)
LEMMA Iteration ==
  ASSUME NEW X, NEW z \in X, NEW n \in Nat, NEW step \in [1 .. n -> [X -> X]]
  PROVE  \E f \in [0 .. n -> X] : f[0] = z /\ \A i \in 1 .. n : f[i] = step[i][f[i - 1]]
<1> DEFINE Upto(f, m) == f[0] = z /\ \A i \in 1 .. m : f[i] = step[i][f[i - 1]]
           P == {m \in 0 .. n : \E f \in [0 .. n -> X] : Upto(f, m)}
<1>1. 0 \in P
  <2>1. [i \in 0 .. n |-> z] \in [0 .. n -> X] /\ Upto([i \in 0 .. n |-> z], 0)
    OBVIOUS
  <2> HIDE DEF Upto
  <2>2. \E f \in [0 .. n -> X] : Upto(f, 0)
    BY <2>1
  <2> QED
    BY <2>2
<1>2. ASSUME NEW m \in 0 .. n - 1, m \in P PROVE m + 1 \in P
  <2>1. PICK f \in [0 .. n -> X] : Upto(f, m)
    BY <1>2
  <2>2. m \in 0 .. n /\ m + 1 \in 1 .. n /\ m + 1 \in 0 .. n /\ (m + 1) - 1 = m
    OBVIOUS
  <2> DEFINE e == step[m + 1][f[m]]
             g == [f EXCEPT ![m + 1] = e]
  <2>3. e \in X
    BY <2>2
  <2>4. g \in [0 .. n -> X] /\ \A i \in 0 .. m : g[i] = f[i]
    BY <2>3
  <2>5. g[m + 1] = e
    BY <2>2
  <2> HIDE DEF g
  <2>6. ASSUME NEW i \in 1 .. m + 1 PROVE g[i] = step[i][g[i - 1]]
    <3>1. CASE i = m + 1
      BY <2>2, <2>4, <2>5, <3>1
    <3>2. CASE i # m + 1
      <4>1. i \in 1 .. m /\ i \in 0 .. m /\ i - 1 \in 0 .. m
        BY <3>2
      <4> QED
        BY <2>1, <2>4, <4>1
    <3> QED
      BY <3>1, <3>2
  <2>7. g[0] = z
    BY <2>1, <2>4
  <2>8. Upto(g, m + 1)
    BY <2>6, <2>7
  <2> QED
    BY <2>2, <2>4, <2>8
<1> HIDE DEF P
<1>3. \A i \in 0 .. n : i \in P
  BY <1>1, <1>2, Induction
<1>4. n \in P
  BY <1>3
<1> QED
  BY <1>4 DEF P

(* A sequence, an element at a time.                                       *)
LEMMA AppendIs ==
  ASSUME NEW S, NEW s \in Seq(S), NEW e \in S
  PROVE  /\ Append(s, e) \in Seq(S) /\ Len(Append(s, e)) = Len(s) + 1
         /\ Len(s) \in Nat /\ Append(s, e) # <<>>
         /\ DOMAIN s = 1 .. Len(s) /\ DOMAIN Append(s, e) = 1 .. Len(s) + 1
         /\ \A i \in 1 .. Len(s) : Append(s, e)[i] = s[i]
         /\ Append(s, e)[Len(s) + 1] = e
         /\ Append(s, e) = s \o <<e>>
  BY AppendProperties, AppendIsConcat, LenProperties, EmptySeq

LEMMA PrefixIs ==
  ASSUME NEW S, NEW s \in Seq(S), NEW n \in 0 .. Len(s)
  PROVE  /\ SubSeq(s, 1, n) \in Seq(S) /\ Len(SubSeq(s, 1, n)) = n
         /\ \A i \in 1 .. n : SubSeq(s, 1, n)[i] = s[i]
<1>1. Len(s) \in Nat
  BY LenProperties
<1>2. \A i \in 1 .. n : s[i] \in S
  BY <1>1, ElementOfSeq
<1>3. n \in Int /\ n - 1 + 1 = n
  BY <1>1
<1> QED
  BY <1>1, <1>2, <1>3, SubSeqProperties

LEMMA PrefixGrows ==
  ASSUME NEW S, NEW s \in Seq(S), NEW n \in Nat, n < Len(s)
  PROVE  SubSeq(s, 1, n + 1) = Append(SubSeq(s, 1, n), s[n + 1])
<1> DEFINE t == SubSeq(s, 1, n + 1)
           u == Append(SubSeq(s, 1, n), s[n + 1])
<1>1. Len(s) \in Nat /\ n \in 0 .. Len(s) /\ n + 1 \in 0 .. Len(s) /\ s[n + 1] \in S
  BY LenProperties, ElementOfSeq
<1>2. t \in Seq(S) /\ Len(t) = n + 1 /\ \A i \in 1 .. n + 1 : t[i] = s[i]
  BY <1>1, PrefixIs
<1>3. u \in Seq(S) /\ Len(u) = n + 1 /\ \A i \in 1 .. n + 1 : u[i] = s[i]
  <2>1. /\ SubSeq(s, 1, n) \in Seq(S) /\ Len(SubSeq(s, 1, n)) = n
        /\ \A i \in 1 .. n : SubSeq(s, 1, n)[i] = s[i]
    BY <1>1, PrefixIs
  <2>2. \A i \in 1 .. n + 1 : i \in 1 .. n \/ i = n + 1
    OBVIOUS
  <2> QED
    BY <1>1, <2>1, <2>2, AppendIs
<1> HIDE DEF t, u
<1>4. t = u
  BY <1>2, <1>3, SeqEqual
<1> QED
  BY <1>4 DEF t, u

LEMMA SeqInduction ==
  ASSUME NEW S, NEW P, <<>> \in P,
         \A t \in Seq(S) : t \in P => \A e \in S : Append(t, e) \in P
  PROVE  \A s \in Seq(S) : s \in P
<1> SUFFICES ASSUME NEW s \in Seq(S) PROVE s \in P
  OBVIOUS
<1> DEFINE N == {n \in 0 .. Len(s) : SubSeq(s, 1, n) \in P}
<1>1. Len(s) \in Nat
  BY LenProperties
<1>2. 0 \in N
  <2>1. SubSeq(s, 1, 0) = <<>>
    BY SubSeqEmpty
  <2>2. SubSeq(s, 1, 0) \in P
    BY <2>1, Zenon
  <2>3. 0 \in 0 .. Len(s)
    BY <1>1
  <2> QED
    BY <2>2, <2>3
<1>3. ASSUME NEW n \in 0 .. Len(s) - 1, n \in N PROVE n + 1 \in N
  <2>1. n \in Nat /\ n < Len(s) /\ n \in 0 .. Len(s) /\ n + 1 \in 1 .. Len(s)
    BY <1>1
  <2>2. SubSeq(s, 1, n + 1) = Append(SubSeq(s, 1, n), s[n + 1])
    BY <2>1, PrefixGrows
  <2>3. SubSeq(s, 1, n) \in Seq(S) /\ s[n + 1] \in S
    BY <2>1, PrefixIs, ElementOfSeq
  <2>4. SubSeq(s, 1, n) \in P
    BY <1>3
  <2>5. Append(SubSeq(s, 1, n), s[n + 1]) \in P
    BY <2>3, <2>4
  <2>6. n + 1 \in 0 .. Len(s)
    BY <2>1
  <2> QED
    BY <2>2, <2>5, <2>6
<1> HIDE DEF N
<1>4. Len(s) \in N
  <2>1. \A i \in 0 .. Len(s) : i \in N
    BY <1>1, <1>2, <1>3, Induction
  <2> QED
    BY <1>1, <2>1
<1> USE DEF N
<1> QED
  BY <1>4, SubSeqFull

-----------------------------------------------------------------------------
(* Flattening. *)

FlattensTo(f, ss, n) == f = [i \in 1 .. n |-> IF i = 1 THEN ss[i] ELSE f[i - 1] \o ss[i]]

LEMMA FlattenExists ==
  ASSUME NEW ss, NEW n \in Nat
  PROVE  \E f : FlattensTo(f, ss, n)
<1> DEFINE P == {m \in Nat : \E f : FlattensTo(f, ss, m)}
<1>1. 0 \in P
  <2>1. FlattensTo([i \in 1 .. 0 |-> ss[i]], ss, 0)
    BY DEF FlattensTo
  <2> QED
    BY <2>1
<1>2. ASSUME NEW m \in 0 .. n - 1, m \in P PROVE m + 1 \in P
  <2>1. PICK f : FlattensTo(f, ss, m)
    BY <1>2
  <2> DEFINE g == [i \in 1 .. m + 1 |-> IF i = 1 THEN ss[i]
                                        ELSE IF i = m + 1 THEN f[m] \o ss[i] ELSE f[i]]
  <2> HIDE DEF P
  <2>2. FlattensTo(g, ss, m + 1)
    <3>1. ASSUME NEW i \in 1 .. m + 1
          PROVE  g[i] = IF i = 1 THEN ss[i] ELSE g[i - 1] \o ss[i]
      <4>1. CASE i = 1
        BY <4>1
      <4>2. CASE i # 1
        <5>1. i - 1 \in 1 .. m /\ i - 1 \in 1 .. m + 1 /\ i - 1 # m + 1
          BY <4>2
        <5>2. g[i - 1] = f[i - 1]
          <6>1. i - 1 = 1 => f[i - 1] = ss[i - 1]
            BY <2>1, <5>1 DEF FlattensTo
          <6> QED
            BY <5>1, <6>1
        <5>3. i = m + 1 => f[m] = f[i - 1]
          OBVIOUS
        <5>4. i # m + 1 => f[i] = f[i - 1] \o ss[i]
          <6>1. i # m + 1 => i \in 1 .. m
            OBVIOUS
          <6> QED
            BY <2>1, <4>2, <6>1 DEF FlattensTo
        <5>5. g[i] = IF i = m + 1 THEN f[m] \o ss[i] ELSE f[i]
          BY <4>2
        <5> HIDE DEF g
        <5>6. g[i] = f[i - 1] \o ss[i]
          BY <5>3, <5>4, <5>5
        <5> QED
          BY <4>2, <5>2, <5>6
      <4> QED
        BY <4>1, <4>2
    <3>2. g = [i \in 1 .. m + 1 |-> g[i]]
      OBVIOUS
    <3> HIDE DEF g
    <3> QED
      BY <3>1, <3>2 DEF FlattensTo
  <2> QED
    BY <2>2 DEF P
<1> HIDE DEF P
<1>3. n \in P
  <2>1. \A i \in 0 .. n : i \in P
    BY <1>1, <1>2, Induction
  <2> QED
    BY <2>1
<1> QED
  BY <1>3 DEF P

LEMMA FlattenIs ==
  ASSUME NEW ss, Len(ss) \in Nat \ {0}
  PROVE  \E f : FlattensTo(f, ss, Len(ss)) /\ FlattenSeq(ss) = f[Len(ss)]
<1> DEFINE f == CHOOSE h : FlattensTo(h, ss, Len(ss))
<1>1. FlattensTo(f, ss, Len(ss))
  BY FlattenExists
<1>2. FlattenSeq(ss) = f[Len(ss)]
  BY DEF FlattenSeq, FlattensTo
<1> HIDE DEF f
<1> QED
  BY <1>1, <1>2

LEMMA FlattenNil == FlattenSeq(<<>>) = <<>>
  BY DEF FlattenSeq

LEMMA FlattenAppend ==
  ASSUME NEW S, NEW ss \in Seq(Seq(S)), NEW t \in Seq(S)
  PROVE  FlattenSeq(Append(ss, t)) = FlattenSeq(ss) \o t
<1> DEFINE tt == Append(ss, t)
           n == Len(ss)
<1>1. /\ n \in Nat /\ tt \in Seq(Seq(S)) /\ Len(tt) = n + 1 /\ tt[n + 1] = t
      /\ \A i \in 1 .. n : tt[i] = ss[i]
  BY AppendIs
<1> HIDE DEF tt
<1>2. PICK g : FlattensTo(g, tt, n + 1) /\ FlattenSeq(tt) = g[n + 1]
  BY <1>1, FlattenIs
<1>3. CASE n = 0
  <2>1. ss = <<>>
    BY <1>3, EmptySeq
  <2>2. g[1] = tt[1]
    BY <1>2, <1>3 DEF FlattensTo
  <2> QED
    BY <1>1, <1>2, <1>3, <2>1, <2>2, FlattenNil, ConcatEmptySeq DEF tt
<1>4. CASE n # 0
  <2>1. PICK f : FlattensTo(f, ss, n) /\ FlattenSeq(ss) = f[n]
    BY <1>1, <1>4, FlattenIs
  <2> DEFINE P == {k \in 0 .. n : k = 0 \/ f[k] = g[k]}
  <2>2. n \in P
    <3>1. 0 \in P
      BY <1>1
    <3>2. ASSUME NEW k \in 0 .. n - 1, k \in P PROVE k + 1 \in P
      <4>1. /\ k + 1 \in 1 .. n /\ k + 1 \in 1 .. n + 1
            /\ (k + 1) - 1 = k /\ (k + 1 = 1 <=> k = 0)
        BY <1>1
      <4>2. f[k + 1] = IF k = 0 THEN ss[k + 1] ELSE f[k] \o ss[k + 1]
        BY <2>1, <4>1 DEF FlattensTo
      <4>3. g[k + 1] = IF k = 0 THEN tt[k + 1] ELSE g[k] \o tt[k + 1]
        BY <1>2, <4>1 DEF FlattensTo
      <4> QED
        BY <1>1, <3>2, <4>1, <4>2, <4>3
    <3> HIDE DEF P
    <3>3. \A k \in 0 .. n : k \in P
      BY <1>1, <3>1, <3>2, Induction
    <3> QED
      BY <1>1, <3>3
  <2>3. f[n] = g[n]
    BY <1>4, <2>2
  <2>4. g[n + 1] = g[n] \o tt[n + 1]
    <3>1. n + 1 \in 1 .. n + 1 /\ n + 1 # 1 /\ (n + 1) - 1 = n
      BY <1>1, <1>4
    <3> QED
      BY <1>2, <3>1 DEF FlattensTo
  <2> QED
    BY <1>1, <1>2, <2>1, <2>3, <2>4 DEF tt
<1> QED
  BY <1>3, <1>4

LEMMA FlattenType ==
  ASSUME NEW S, NEW ss \in Seq(Seq(S))
  PROVE  FlattenSeq(ss) \in Seq(S)
<1> DEFINE P == {tt \in Seq(Seq(S)) : FlattenSeq(tt) \in Seq(S)}
<1>1. <<>> \in P
  BY FlattenNil, EmptySeq
<1>2. ASSUME NEW tt \in Seq(Seq(S)), tt \in P, NEW e \in Seq(S) PROVE Append(tt, e) \in P
  <2>1. FlattenSeq(Append(tt, e)) = FlattenSeq(tt) \o e
    BY FlattenAppend
  <2>2. FlattenSeq(tt) \o e \in Seq(S)
    BY <1>2, ConcatProperties
  <2>3. Append(tt, e) \in Seq(Seq(S))
    BY AppendIs
  <2> QED
    BY <2>1, <2>2, <2>3
<1> HIDE DEF P
<1>3. \A tt \in Seq(Seq(S)) : tt \in P
  BY <1>1, <1>2, SeqInduction
<1> QED
  BY <1>3 DEF P

(* Two sequences flattened one after the other.                            *)
LEMMA FlattenConcat ==
  ASSUME NEW S, NEW ss \in Seq(Seq(S)), NEW tt \in Seq(Seq(S))
  PROVE  FlattenSeq(ss \o tt) = FlattenSeq(ss) \o FlattenSeq(tt)
<1> DEFINE P == {uu \in Seq(Seq(S)) : FlattenSeq(ss \o uu) = FlattenSeq(ss) \o FlattenSeq(uu)}
<1>1. <<>> \in P
  BY FlattenNil, FlattenType, EmptySeq, ConcatEmptySeq
<1>2. ASSUME NEW uu \in Seq(Seq(S)), uu \in P, NEW e \in Seq(S) PROVE Append(uu, e) \in P
  <2>1. ss \o Append(uu, e) = Append(ss \o uu, e) /\ ss \o uu \in Seq(Seq(S))
    <3>1. <<e>> \in Seq(Seq(S)) /\ ss \o uu \in Seq(Seq(S))
      BY ConcatProperties
    <3>2. ss \o (uu \o <<e>>) = (ss \o uu) \o <<e>>
      BY <3>1, ConcatAssociative
    <3> QED
      BY <3>1, <3>2, AppendIs
  <2>2. FlattenSeq(ss \o uu) \o e = FlattenSeq(ss) \o (FlattenSeq(uu) \o e)
    <3>1. FlattenSeq(ss) \in Seq(S) /\ FlattenSeq(uu) \in Seq(S)
      BY FlattenType
    <3>2. (FlattenSeq(ss) \o FlattenSeq(uu)) \o e = FlattenSeq(ss) \o (FlattenSeq(uu) \o e)
      BY <3>1, ConcatAssociative
    <3> QED
      BY <1>2, <3>2
  <2>3. FlattenSeq(Append(ss \o uu, e)) = FlattenSeq(ss \o uu) \o e
    BY <2>1, FlattenAppend
  <2>4. FlattenSeq(Append(uu, e)) = FlattenSeq(uu) \o e /\ Append(uu, e) \in Seq(Seq(S))
    BY FlattenAppend, AppendIs
  <2> QED
    BY <2>1, <2>2, <2>3, <2>4
<1> HIDE DEF P
<1>3. \A uu \in Seq(Seq(S)) : uu \in P
  BY <1>1, <1>2, SeqInduction
<1> QED
  BY <1>3 DEF P


-----------------------------------------------------------------------------
(* A text taken octet by octet, each giving a piece of another. *)

LEMMA AtAppend ==
  ASSUME NEW S, NEW s \in Seq(S), NEW o \in S
  PROVE  \A i \in Int : At(Append(s, o), i) = IF i = Len(s) + 1 THEN o ELSE At(s, i)
<1> SUFFICES ASSUME NEW i \in Int
             PROVE  At(Append(s, o), i) = IF i = Len(s) + 1 THEN o ELSE At(s, i)
  OBVIOUS
<1>1. /\ Len(s) \in Nat /\ DOMAIN s = 1 .. Len(s) /\ DOMAIN Append(s, o) = 1 .. Len(s) + 1
      /\ \A k \in 1 .. Len(s) : Append(s, o)[k] = s[k]
      /\ Append(s, o)[Len(s) + 1] = o
  BY AppendIs
<1> DEFINE t == Append(s, o)
<1> HIDE DEF t
<1>2. CASE i = Len(s) + 1
  BY <1>1, <1>2 DEF At, t
<1>3. CASE i \in 1 .. Len(s)
  BY <1>1, <1>3 DEF At, t
<1>4. CASE i \notin 1 .. Len(s) + 1
  BY <1>1, <1>4 DEF At, t
<1> QED
  BY <1>1, <1>2, <1>3, <1>4

LEMMA PiecesGrow ==
  ASSUME NEW S, NEW n \in Nat,
         NEW p \in [1 .. n -> Seq(S)], NEW q \in [1 .. n + 1 -> Seq(S)],
         \A i \in 1 .. n : q[i] = p[i]
  PROVE  /\ FlattenSeq(q) = FlattenSeq(p) \o q[n + 1]
         /\ FlattenSeq(p) \in Seq(S)
<1>1. /\ p \in Seq(Seq(S)) /\ Len(p) = n /\ q \in Seq(Seq(S)) /\ Len(q) = n + 1
  BY LenProperties DEF Seq
<1>2. q[n + 1] \in Seq(S)
  OBVIOUS
<1>3. q = Append(p, q[n + 1])
  <2>1. /\ Append(p, q[n + 1]) \in Seq(Seq(S)) /\ Len(Append(p, q[n + 1])) = n + 1
        /\ \A i \in 1 .. n : Append(p, q[n + 1])[i] = p[i]
        /\ Append(p, q[n + 1])[n + 1] = q[n + 1]
    BY <1>1, <1>2, AppendIs
  <2>2. \A i \in 1 .. n + 1 : i \in 1 .. n \/ i = n + 1
    OBVIOUS
  <2>3. \A i \in 1 .. n + 1 : q[i] = Append(p, q[n + 1])[i]
    BY <2>1, <2>2
  <2> QED
    BY <1>1, <2>1, <2>3, SeqEqual
<1>4. FlattenSeq(Append(p, q[n + 1])) = FlattenSeq(p) \o q[n + 1] /\ FlattenSeq(p) \in Seq(S)
  BY <1>1, <1>2, FlattenAppend, FlattenType
<1> QED
  BY <1>3, <1>4

(* The last octet, "none" of nothing.                                      *)
End(s) == At(s, Len(s))
LineStart(s) == s = <<>> \/ End(s) = "LF"

Normal(body) ==
  FlattenSeq([i \in DOMAIN body |->
                IF body[i] = "LF" /\ At(body, i - 1) # "CR" THEN CRLF ELSE <<body[i]>>])

Stuffed(msg) ==
  FlattenSeq([i \in DOMAIN msg |->
                IF (i = 1 \/ At(msg, i - 1) = "LF") /\ msg[i] = "." THEN <<".", ".">> ELSE <<msg[i]>>])

LEMMA Short ==
  /\ CRLF \in Seq(Octets) /\ <<".", ".">> \in Seq(Octets)
  /\ \A o \in Octets : <<o>> \in Seq(Octets)
  /\ <<>> \in Seq(Octets)
  BY DEF CRLF, Octets

LEMMA EndAppend ==
  ASSUME NEW s \in Seq(Octets), NEW o \in Octets
  PROVE  /\ End(Append(s, o)) = o
         /\ At(Append(s, o), Len(Append(s, o)) - 1) = End(s)
<1>1. Len(s) \in Nat /\ Len(Append(s, o)) = Len(s) + 1
  BY AppendIs
<1> QED
  BY <1>1, AtAppend DEF End

LEMMA NormalAppend ==
  ASSUME NEW s \in Seq(Octets), NEW o \in Octets
  PROVE  /\ Normal(Append(s, o)) =
              Normal(s) \o (IF o = "LF" /\ End(s) # "CR" THEN CRLF ELSE <<o>>)
         /\ Normal(s) \in Seq(Octets)
<1> DEFINE t == Append(s, o)
           n == Len(s)
           p == [i \in DOMAIN s |->
                   IF s[i] = "LF" /\ At(s, i - 1) # "CR" THEN CRLF ELSE <<s[i]>>]
           q == [i \in DOMAIN t |->
                   IF t[i] = "LF" /\ At(t, i - 1) # "CR" THEN CRLF ELSE <<t[i]>>]
<1>1. /\ n \in Nat /\ t \in Seq(Octets) /\ DOMAIN s = 1 .. n /\ DOMAIN t = 1 .. n + 1
      /\ \A i \in 1 .. n : t[i] = s[i] /\ s[i] \in Octets
      /\ t[n + 1] = o
  BY AppendIs, ElementOfSeq
<1>2. \A i \in 0 .. n : At(t, i) = At(s, i)
  BY <1>1, AtAppend
<1> HIDE DEF t
<1>3. p \in [1 .. n -> Seq(Octets)]
  BY <1>1, Short
<1>4. q \in [1 .. n + 1 -> Seq(Octets)]
  BY <1>1, Short
<1>5. \A i \in 1 .. n : q[i] = p[i]
  <2> SUFFICES ASSUME NEW i \in 1 .. n PROVE q[i] = p[i]
    OBVIOUS
  <2>1. i - 1 \in 0 .. n
    BY <1>1
  <2>2. t[i] = s[i] /\ At(t, i - 1) = At(s, i - 1)
    BY <1>1, <1>2, <2>1
  <2> QED
    BY <1>1, <2>2
<1>6. q[n + 1] = IF o = "LF" /\ End(s) # "CR" THEN CRLF ELSE <<o>>
  <2>1. (n + 1) - 1 = n /\ n + 1 \in 1 .. n + 1 /\ n \in 0 .. n
    BY <1>1
  <2> QED
    BY <1>1, <1>2, <2>1 DEF End
<1>7. FlattenSeq(q) = FlattenSeq(p) \o q[n + 1] /\ FlattenSeq(p) \in Seq(Octets)
  <2> HIDE DEF p, q, n
  <2> QED
    BY <1>1, <1>3, <1>4, <1>5, PiecesGrow
<1>8. Normal(s) = FlattenSeq(p) /\ Normal(t) = FlattenSeq(q)
  BY DEF Normal
<1> HIDE DEF p, q
<1> QED
  BY <1>6, <1>7, <1>8 DEF t

LEMMA StuffedAppend ==
  ASSUME NEW s \in Seq(Octets), NEW o \in Octets
  PROVE  /\ Stuffed(Append(s, o)) =
              Stuffed(s) \o (IF LineStart(s) /\ o = "." THEN <<".", ".">> ELSE <<o>>)
         /\ Stuffed(s) \in Seq(Octets)
<1> DEFINE t == Append(s, o)
           n == Len(s)
           p == [i \in DOMAIN s |->
                   IF (i = 1 \/ At(s, i - 1) = "LF") /\ s[i] = "." THEN <<".", ".">> ELSE <<s[i]>>]
           q == [i \in DOMAIN t |->
                   IF (i = 1 \/ At(t, i - 1) = "LF") /\ t[i] = "." THEN <<".", ".">> ELSE <<t[i]>>]
<1>1. /\ n \in Nat /\ t \in Seq(Octets) /\ DOMAIN s = 1 .. n /\ DOMAIN t = 1 .. n + 1
      /\ \A i \in 1 .. n : t[i] = s[i] /\ s[i] \in Octets
      /\ t[n + 1] = o
  BY AppendIs, ElementOfSeq
<1>2. \A i \in 0 .. n : At(t, i) = At(s, i)
  BY <1>1, AtAppend
<1>0. n = 0 <=> s = <<>>
  BY EmptySeq
<1> HIDE DEF t
<1>3. p \in [1 .. n -> Seq(Octets)]
  BY <1>1, Short
<1>4. q \in [1 .. n + 1 -> Seq(Octets)]
  BY <1>1, Short
<1>5. \A i \in 1 .. n : q[i] = p[i]
  <2> SUFFICES ASSUME NEW i \in 1 .. n PROVE q[i] = p[i]
    OBVIOUS
  <2>1. i - 1 \in 0 .. n
    BY <1>1
  <2>2. t[i] = s[i] /\ At(t, i - 1) = At(s, i - 1)
    BY <1>1, <1>2, <2>1
  <2> QED
    BY <1>1, <2>2
<1>6. q[n + 1] = IF LineStart(s) /\ o = "." THEN <<".", ".">> ELSE <<o>>
  <2>1. (n + 1) - 1 = n /\ n + 1 \in 1 .. n + 1 /\ n \in 0 .. n /\ (n + 1 = 1 <=> s = <<>>)
    BY <1>0, <1>1
  <2> QED
    BY <1>1, <1>2, <2>1 DEF End, LineStart
<1>7. FlattenSeq(q) = FlattenSeq(p) \o q[n + 1] /\ FlattenSeq(p) \in Seq(Octets)
  <2> HIDE DEF p, q, n
  <2> QED
    BY <1>1, <1>3, <1>4, <1>5, PiecesGrow
<1>8. Stuffed(s) = FlattenSeq(p) /\ Stuffed(t) = FlattenSeq(q)
  BY DEF Stuffed
<1> HIDE DEF p, q
<1> QED
  BY <1>6, <1>7, <1>8 DEF t

(* Where a line starts for the server, after s.                            *)
Starting(s) == s = <<>> \/ (End(s) = "LF" /\ At(s, Len(s) - 1) = "CR")

LEMMA StartsLineIs ==
  ASSUME NEW s \in Seq(Octets), NEW o \in Octets
  PROVE  /\ StartsLine(Append(s, o), Len(s) + 1) <=> Starting(s)
         /\ \A i \in 1 .. Len(s) : StartsLine(Append(s, o), i) <=> StartsLine(s, i)
<1>1. Len(s) \in Nat /\ (Len(s) = 0 <=> s = <<>>)
  BY LenProperties, EmptySeq
<1>2. \A i \in Int : i < Len(s) + 1 => At(Append(s, o), i) = At(s, i)
  BY <1>1, AtAppend
<1>3. StartsLine(Append(s, o), Len(s) + 1) <=> Starting(s)
  <2>1. /\ (Len(s) + 1) - 1 = Len(s) /\ (Len(s) + 1) - 2 = Len(s) - 1
        /\ Len(s) < Len(s) + 1 /\ Len(s) - 1 < Len(s) + 1
        /\ Len(s) \in Int /\ Len(s) - 1 \in Int /\ (Len(s) + 1 = 1 <=> s = <<>>)
    BY <1>1
  <2> QED
    BY <1>2, <2>1 DEF StartsLine, Starting, End
<1>4. ASSUME NEW i \in 1 .. Len(s) PROVE StartsLine(Append(s, o), i) <=> StartsLine(s, i)
  <2>1. i - 1 \in Int /\ i - 2 \in Int /\ i - 1 < Len(s) + 1 /\ i - 2 < Len(s) + 1
    BY <1>1
  <2> QED
    BY <1>2, <2>1 DEF StartsLine
<1> QED
  BY <1>3, <1>4

LEMMA UnstuffedAppend ==
  ASSUME NEW s \in Seq(Octets), NEW o \in Octets
  PROVE  /\ Unstuffed(Append(s, o)) =
              Unstuffed(s) \o (IF Starting(s) /\ o = "." THEN <<>> ELSE <<o>>)
         /\ Unstuffed(s) \in Seq(Octets)
<1> DEFINE t == Append(s, o)
           n == Len(s)
           p == [i \in DOMAIN s |-> IF StartsLine(s, i) /\ s[i] = "." THEN <<>> ELSE <<s[i]>>]
           q == [i \in DOMAIN t |-> IF StartsLine(t, i) /\ t[i] = "." THEN <<>> ELSE <<t[i]>>]
<1>1. /\ n \in Nat /\ t \in Seq(Octets) /\ DOMAIN s = 1 .. n /\ DOMAIN t = 1 .. n + 1
      /\ \A i \in 1 .. n : t[i] = s[i] /\ s[i] \in Octets
      /\ t[n + 1] = o
  BY AppendIs, ElementOfSeq
<1>2. /\ StartsLine(t, n + 1) <=> Starting(s)
      /\ \A i \in 1 .. n : StartsLine(t, i) <=> StartsLine(s, i)
  BY StartsLineIs
<1> HIDE DEF t
<1>3. p \in [1 .. n -> Seq(Octets)]
  BY <1>1, Short
<1>4. q \in [1 .. n + 1 -> Seq(Octets)]
  BY <1>1, Short
<1>5. \A i \in 1 .. n : q[i] = p[i]
  BY <1>1, <1>2
<1>6. q[n + 1] = IF Starting(s) /\ o = "." THEN <<>> ELSE <<o>>
  BY <1>1, <1>2
<1>7. FlattenSeq(q) = FlattenSeq(p) \o q[n + 1] /\ FlattenSeq(p) \in Seq(Octets)
  <2> HIDE DEF p, q, n
  <2> QED
    BY <1>1, <1>3, <1>4, <1>5, PiecesGrow
<1>8. Unstuffed(s) = FlattenSeq(p) /\ Unstuffed(t) = FlattenSeq(q)
  BY DEF Unstuffed
<1> HIDE DEF p, q
<1> QED
  BY <1>6, <1>7, <1>8 DEF t

-----------------------------------------------------------------------------
(* The wire. *)

(* Every line feed of s has its carriage return.                           *)
Bare(s, i) == s[i] = "LF" /\ At(s, i - 1) # "CR"
Clean(s) == \A i \in 1 .. Len(s) : ~Bare(s, i)

LEMMA CleanAppend ==
  ASSUME NEW s \in Seq(Octets), NEW o \in Octets
  PROVE  Clean(Append(s, o)) <=> Clean(s) /\ (o = "LF" => End(s) = "CR")
<1> DEFINE t == Append(s, o)
           n == Len(s)
<1>1. /\ n \in Nat /\ Len(t) = n + 1 /\ t[n + 1] = o /\ \A i \in 1 .. n : t[i] = s[i]
  BY AppendIs
<1>2. \A i \in 0 .. n : At(t, i) = At(s, i)
  BY <1>1, AtAppend
<1> HIDE DEF t
<1>3. \A i \in 1 .. n : Bare(t, i) <=> Bare(s, i)
  <2>1. \A i \in 1 .. n : i - 1 \in 0 .. n
    BY <1>1
  <2> QED
    BY <1>1, <1>2, <2>1 DEF Bare
<1>4. Bare(t, n + 1) <=> o = "LF" /\ End(s) # "CR"
  <2>1. (n + 1) - 1 = n /\ n \in 0 .. n
    BY <1>1
  <2> QED
    BY <1>1, <1>2, <2>1 DEF Bare, End
<1>5. \A i : i \in 1 .. n + 1 <=> i \in 1 .. n \/ i = n + 1
  BY <1>1
<1>6. Clean(t) <=> (\A i \in 1 .. n : ~Bare(t, i)) /\ ~Bare(t, n + 1)
  BY <1>1, <1>5 DEF Clean
<1> HIDE DEF n
<1>7. Clean(s) <=> \A i \in 1 .. n : ~Bare(s, i)
  BY DEF Clean, n
<1> QED
  BY <1>3, <1>4, <1>6, <1>7 DEF t

(* A dot that starts a line of s is followed by another.                   *)
Doubled(s) == \A i \in 1 .. Len(s) : StartsLine(s, i) /\ s[i] = "." => At(s, i + 1) = "."

(* What the wire holds of a clean text: the text, with no lone dot, and    *)
(* ending where it ends.                                                   *)
Carries(s, t) ==
  /\ Unstuffed(s) = t /\ Doubled(s)
  /\ End(s) = End(t)
  /\ s = <<>> <=> t = <<>>
  /\ End(t) = "LF" => At(s, Len(s) - 1) = "CR"

LEMMA EndIs ==
  ASSUME NEW s \in Seq(Octets)
  PROVE  s # <<>> <=> End(s) # "none"
<1>1. Len(s) \in Nat /\ DOMAIN s = 1 .. Len(s) /\ (s = <<>> <=> Len(s) = 0)
  BY LenProperties, EmptySeq
<1>2. ASSUME s # <<>> PROVE End(s) # "none"
  <2>1. Len(s) \in 1 .. Len(s)
    BY <1>1, <1>2
  <2>2. s[Len(s)] \in Octets
    BY <2>1, ElementOfSeq
  <2> QED
    BY <1>1, <2>1, <2>2 DEF End, At, Octets
<1>3. ASSUME s = <<>> PROVE End(s) = "none"
  <2>1. Len(s) \notin DOMAIN s
    BY <1>1, <1>3
  <2> QED
    BY <2>1 DEF End, At
<1> QED
  BY <1>2, <1>3

LEMMA DoubledAppend ==
  ASSUME NEW s \in Seq(Octets), NEW o \in Octets, Doubled(s), o = "." => ~Starting(s)
  PROVE  Doubled(Append(s, o))
<1> DEFINE t == Append(s, o)
<1>1. /\ Len(s) \in Nat /\ Len(t) = Len(s) + 1 /\ t[Len(s) + 1] = o
      /\ \A i \in 1 .. Len(s) : t[i] = s[i]
  BY AppendIs
<1>2. /\ StartsLine(t, Len(s) + 1) <=> Starting(s)
      /\ \A i \in 1 .. Len(s) : StartsLine(t, i) <=> StartsLine(s, i)
  BY StartsLineIs
<1>3. \A i \in Int : At(t, i) = IF i = Len(s) + 1 THEN o ELSE At(s, i)
  BY AtAppend
<1>4. \A i \in Int : i > Len(s) => At(s, i) = "none"
  BY <1>1, LenProperties DEF At
<1> HIDE DEF t
<1> SUFFICES ASSUME NEW i \in 1 .. Len(s) + 1, StartsLine(t, i), t[i] = "."
             PROVE  At(t, i + 1) = "."
  BY <1>1 DEF Doubled, t
<1>5. i # Len(s) + 1
  BY <1>1, <1>2
<1>6. i \in 1 .. Len(s) /\ i + 1 \in Int
  BY <1>1, <1>5
<1>7. At(s, i + 1) = "."
  BY <1>1, <1>2, <1>6 DEF Doubled
<1>8. i + 1 # Len(s) + 1
  BY <1>1, <1>4, <1>6, <1>7
<1> QED
  BY <1>3, <1>6, <1>7, <1>8

LEMMA DoubledTwice ==
  ASSUME NEW s \in Seq(Octets), Doubled(s)
  PROVE  Doubled(Append(Append(s, "."), "."))
<1> DEFINE u == Append(s, ".")
           t == Append(u, ".")
           n == Len(s)
<1>0. "." \in Octets
  BY DEF Octets
<1>1. /\ n \in Nat /\ Len(u) = n + 1 /\ u \in Seq(Octets) /\ u[n + 1] = "."
      /\ \A i \in 1 .. n : u[i] = s[i]
  BY <1>0, AppendIs
<1>2. /\ Len(t) = n + 2 /\ t[n + 2] = "." /\ \A i \in 1 .. n + 1 : t[i] = u[i]
  BY <1>0, <1>1, AppendIs
<1>3. End(u) = "." /\ u # <<>>
  BY <1>0, EndAppend, AppendIs
<1>4. /\ StartsLine(t, n + 2) <=> Starting(u)
      /\ \A i \in 1 .. n + 1 : StartsLine(t, i) <=> StartsLine(u, i)
  <2>1. /\ StartsLine(t, Len(u) + 1) <=> Starting(u)
        /\ \A i \in 1 .. Len(u) : StartsLine(t, i) <=> StartsLine(u, i)
    BY <1>0, <1>1, StartsLineIs
  <2>2. Len(u) = n + 1 /\ Len(u) + 1 = n + 2
    BY <1>1
  <2> HIDE DEF t, u, n
  <2> QED
    BY <2>1, <2>2
<1>5. \A i \in 1 .. n : StartsLine(u, i) <=> StartsLine(s, i)
  BY <1>0, <1>1, StartsLineIs
<1>6. \A i \in Int : At(u, i) = IF i = n + 1 THEN "." ELSE At(s, i)
  BY <1>0, AtAppend
<1>7. \A i \in Int : At(t, i) = IF i = n + 2 THEN "." ELSE At(u, i)
  <2>1. \A i \in Int : At(t, i) = IF i = Len(u) + 1 THEN "." ELSE At(u, i)
    BY <1>0, <1>1, AtAppend
  <2> QED
    BY <1>1, <2>1
<1> HIDE DEF t, u
<1> SUFFICES ASSUME NEW i \in 1 .. n + 2, StartsLine(t, i), t[i] = "." PROVE At(t, i + 1) = "."
  BY <1>2 DEF Doubled, t, u
<1>8. ~Starting(u)
  BY <1>3 DEF Starting
<1>9. i # n + 2
  BY <1>4, <1>8
<1>10. CASE i = n + 1
  <2>1. i + 1 = n + 2 /\ i + 1 \in Int
    BY <1>1, <1>10
  <2> QED
    BY <1>7, <2>1
<1>11. CASE i \in 1 .. n
  <2>1. i \in 1 .. n + 1 /\ i + 1 \in Int /\ i + 1 # n + 2
    BY <1>1, <1>11
  <2>2. StartsLine(s, i) /\ s[i] = "."
    BY <1>1, <1>2, <1>4, <1>5, <1>11, <2>1
  <2>3. At(s, i + 1) = "."
    BY <1>11, <2>2 DEF Doubled
  <2> QED
    BY <1>6, <1>7, <2>1, <2>3
<1> QED
  BY <1>1, <1>9, <1>10, <1>11

LEMMA Empty ==
  /\ Normal(<<>>) = <<>> /\ Stuffed(<<>>) = <<>> /\ Unstuffed(<<>>) = <<>>
  /\ Doubled(<<>>) /\ Clean(<<>>) /\ LineStart(<<>>) /\ Starting(<<>>)
<1>1. DOMAIN (<<>>) = {} /\ Len(<<>>) = 0
  BY EmptySeq
<1>2. \A f : DOMAIN f = {} /\ f = [i \in {} |-> f[i]] => f = <<>>
  OBVIOUS
<1> QED
  BY <1>1, <1>2, FlattenNil DEF Normal, Stuffed, Unstuffed, Doubled, Clean, LineStart, Starting

LEMMA CarriesStep ==
  ASSUME NEW t \in Seq(Octets), NEW o \in Octets,
         Carries(Stuffed(t), t), Clean(Append(t, o))
  PROVE  Carries(Stuffed(Append(t, o)), Append(t, o))
<1> DEFINE s == Stuffed(t)
           v == Stuffed(Append(t, o))
<1>1. s \in Seq(Octets) /\ "." \in Octets
  BY StuffedAppend DEF Octets
<1>2. o = "LF" => End(t) = "CR"
  BY CleanAppend
<1>3. Starting(s) <=> LineStart(t)
  BY EndIs DEF Carries, Starting, LineStart
<1>4. Append(t, o) # <<>> /\ End(Append(t, o)) = o
  BY AppendIs, EndAppend
<1>5. CASE LineStart(t) /\ o = "."
  <2> DEFINE u == Append(s, ".")
  <2>1. v = Append(u, ".")
    <3>1. v = s \o <<".", ".">>
      BY <1>5, StuffedAppend
    <3>2. <<".", ".">> = <<".">> \o <<".">>
      OBVIOUS
    <3>3. s \o (<<".">> \o <<".">>) = (s \o <<".">>) \o <<".">>
      BY <1>1, Short, ConcatAssociative
    <3>4. u = s \o <<".">> /\ u \in Seq(Octets) /\ Append(u, ".") = u \o <<".">>
      BY <1>1, AppendIs
    <3> QED
      BY <3>1, <3>2, <3>3, <3>4
  <2>2. u \in Seq(Octets) /\ u # <<>> /\ End(u) = "."
    BY <1>1, AppendIs, EndAppend
  <2>3. Unstuffed(u) = t
    <3>1. Unstuffed(u) = Unstuffed(s) \o <<>>
      BY <1>1, <1>3, <1>5, UnstuffedAppend
    <3> QED
      BY <3>1, ConcatEmptySeq DEF Carries
  <2>4. Unstuffed(Append(u, ".")) = Unstuffed(u) \o <<".">>
    BY <1>1, <2>2, UnstuffedAppend DEF Starting
  <2>5. Append(t, o) = t \o <<".">>
    BY <1>5, AppendIs
  <2>6. Doubled(v)
    BY <1>1, <2>1, DoubledTwice DEF Carries
  <2>7. v # <<>> /\ End(v) = "."
    <3>1. Append(u, ".") # <<>> /\ End(Append(u, ".")) = "."
      <4> HIDE DEF u
      <4>1. Append(u, ".") # <<>>
        BY <1>1, <2>2, AppendIs
      <4>2. End(Append(u, ".")) = "."
        BY <1>1, <2>2, EndAppend
      <4> QED
        BY <4>1, <4>2
    <3> QED
      BY <2>1, <3>1
  <2> HIDE DEF v, s, u
  <2>8. Unstuffed(v) = Append(t, o)
    BY <2>1, <2>3, <2>4, <2>5
  <2> QED
    BY <1>4, <1>5, <2>6, <2>7, <2>8 DEF Carries, v
<1>6. CASE ~(LineStart(t) /\ o = ".")
  <2>1. v = Append(s, o)
    <3>1. v = s \o <<o>>
      BY <1>6, StuffedAppend
    <3>2. Append(s, o) = s \o <<o>>
      BY <1>1, AppendIs
    <3> QED
      BY <3>1, <3>2
  <2>2. Unstuffed(v) = Append(t, o)
    <3>1. Unstuffed(Append(s, o)) = Unstuffed(s) \o <<o>>
      BY <1>1, <1>3, <1>6, UnstuffedAppend
    <3> QED
      BY <2>1, <3>1, AppendIs DEF Carries
  <2>3. Doubled(v)
    BY <1>1, <1>3, <1>6, <2>1, DoubledAppend DEF Carries
  <2>4. v # <<>> /\ End(v) = o /\ At(v, Len(v) - 1) = End(s)
    BY <1>1, <2>1, AppendIs, EndAppend
  <2>5. End(s) = End(t)
    BY DEF Carries
  <2> HIDE DEF v, s
  <2> QED
    BY <1>2, <1>4, <2>2, <2>3, <2>4, <2>5 DEF Carries, v
<1> QED
  BY <1>5, <1>6

LEMMA WireCarries ==
  ASSUME NEW t \in Seq(Octets), Clean(t)
  PROVE  Carries(Stuffed(t), t)
<1> DEFINE P == {u \in Seq(Octets) : Clean(u) => Carries(Stuffed(u), u)}
<1>1. <<>> \in P
  <2>1. Carries(<<>>, <<>>)
    <3>1. <<>> \in Seq(Octets)
      BY Short
    <3>2. End(<<>>) = "none"
      BY <3>1, EndIs
    <3> QED
      BY <3>2, Empty DEF Carries
  <2> QED
    BY <2>1, Empty, Short
<1>2. ASSUME NEW u \in Seq(Octets), u \in P, NEW o \in Octets PROVE Append(u, o) \in P
  <2>1. Append(u, o) \in Seq(Octets)
    BY AppendIs
  <2>2. Clean(Append(u, o)) => Clean(u)
    BY CleanAppend
  <2>3. Clean(Append(u, o)) => Carries(Stuffed(Append(u, o)), Append(u, o))
    BY <1>2, <2>2, CarriesStep
  <2> QED
    BY <2>1, <2>3
<1> HIDE DEF P
<1>3. \A u \in Seq(Octets) : u \in P
  BY <1>1, <1>2, SeqInduction
<1> QED
  BY <1>3 DEF P

LEMMA ConcatIs ==
  ASSUME NEW S, NEW s \in Seq(S), NEW t \in Seq(S)
  PROVE  /\ s \o t \in Seq(S) /\ Len(s \o t) = Len(s) + Len(t)
         /\ Len(s) \in Nat /\ Len(t) \in Nat
         /\ DOMAIN (s \o t) = 1 .. Len(s) + Len(t)
         /\ \A i \in 1 .. Len(s) : (s \o t)[i] = s[i]
         /\ \A i \in 1 .. Len(t) : (s \o t)[Len(s) + i] = t[i]
<1> DEFINE m == Len(s)
           n == Len(t)
           u == s \o t
<1>1. m \in Nat /\ n \in Nat
  BY LenProperties
<1>2. /\ u \in Seq(S) /\ Len(u) = m + n
      /\ \A i \in 1 .. m + n : u[i] = IF i <= m THEN s[i] ELSE t[i - m]
  BY ConcatProperties
<1> HIDE DEF m, n, u
<1>3. DOMAIN u = 1 .. m + n
  BY <1>2, LenProperties
<1>4. \A i \in 1 .. m : u[i] = s[i]
  <2>1. \A i \in 1 .. m : i \in 1 .. m + n /\ i <= m
    BY <1>1
  <2> QED
    BY <1>2, <2>1
<1>5. \A i \in 1 .. n : u[m + i] = t[i]
  <2>1. \A i \in 1 .. n : m + i \in 1 .. m + n /\ ~(m + i <= m) /\ (m + i) - m = i
    BY <1>1
  <2> QED
    BY <1>2, <2>1
<1> QED
  BY <1>1, <1>2, <1>3, <1>4, <1>5 DEF m, n, u

LEMMA SmallestOf ==
  ASSUME NEW n \in Int, NEW T \in SUBSET Int, n \in T, \A i \in T : n <= i
  PROVE  Min(T) = n
<1> DEFINE m == Min(T)
<1>1. m \in T /\ \A i \in T : m <= i
  BY DEF Min
<1> HIDE DEF m
<1>2. m <= n /\ n <= m /\ m \in Int
  BY <1>1
<1>3. m = n
  BY <1>2
<1> QED
  BY <1>3 DEF m

LEMMA LargestOf ==
  ASSUME NEW n \in Int, NEW T \in SUBSET Int, n \in T, \A i \in T : i <= n
  PROVE  Max(T) = n
<1> DEFINE m == Max(T)
<1>1. m \in T /\ \A i \in T : m >= i
  <2>1. \A i \in T : n >= i
    OBVIOUS
  <2> QED
    BY <2>1 DEF Max
<1> HIDE DEF m
<1>2. m <= n /\ n <= m /\ m \in Int
  BY <1>1
<1>3. m = n
  BY <1>2
<1> QED
  BY <1>3 DEF m

LEMMA StuffDotsIs ==
  ASSUME NEW msg \in Seq(Octets)
  PROVE  StuffDots(msg) = Stuffed(msg)
<1>1. CASE NeedsStuffing(msg)
  BY <1>1 DEF StuffDots, Stuffed
<1>2. CASE ~NeedsStuffing(msg)
  <2> DEFINE P == {t \in Seq(Octets) : ~NeedsStuffing(t) => Stuffed(t) = t}
  <2>1. <<>> \in P
    <3>1. <<>> \in Seq(Octets) /\ Stuffed(<<>>) = <<>>
      BY Empty, Short
    <3> QED
      BY <3>1, Zenon
  <2>2. ASSUME NEW t \in Seq(Octets), t \in P, NEW o \in Octets PROVE Append(t, o) \in P
    <3> DEFINE u == Append(t, o)
    <3>1. /\ u \in Seq(Octets) /\ Len(t) \in Nat /\ (t = <<>> <=> Len(t) = 0)
          /\ DOMAIN t = 1 .. Len(t) /\ DOMAIN u = 1 .. Len(t) + 1
          /\ \A i \in 1 .. Len(t) : u[i] = t[i]
          /\ u = t \o <<o>>
      BY AppendIs, EmptySeq
    <3>2. \A i \in Int : At(u, i) = IF i = Len(t) + 1 THEN o ELSE At(t, i)
      BY AtAppend
    <3>3. Stuffed(u) = t \o (IF LineStart(t) /\ o = "." THEN <<".", ".">> ELSE <<o>>)
          \/ NeedsStuffing(t)
      BY <2>2, StuffedAppend
    <3> HIDE DEF u
    <3>4. ASSUME NeedsStuffing(t) PROVE NeedsStuffing(u)
      <4>1. CASE At(t, 1) = "."
        <5>1. 1 \in DOMAIN t
          BY <4>1 DEF At
        <5>2. 1 # Len(t) + 1
          BY <3>1, <5>1
        <5> QED
          BY <3>2, <4>1, <5>2 DEF NeedsStuffing
      <4>2. CASE NeedsStuffingInside(t)
        <5>1. PICK i \in 1 .. Len(t) : t[i] = "LF" /\ At(t, i + 1) = "."
          BY <3>1, <4>2 DEF NeedsStuffingInside
        <5>2. i + 1 \in DOMAIN t
          BY <5>1 DEF At
        <5>3. i \in DOMAIN u /\ u[i] = "LF" /\ i + 1 \in Int /\ i + 1 # Len(t) + 1
          BY <3>1, <5>1, <5>2
        <5>4. At(u, i + 1) = "."
          BY <3>2, <5>1, <5>3
        <5> QED
          BY <5>3, <5>4 DEF NeedsStuffing, NeedsStuffingInside
      <4> QED
        BY <3>4, <4>1, <4>2 DEF NeedsStuffing
    <3>5. ASSUME LineStart(t), o = "." PROVE NeedsStuffing(u)
      <4>1. CASE t = <<>>
        <5>1. 1 = Len(t) + 1
          BY <3>1, <4>1
        <5> QED
          BY <3>2, <3>5, <5>1 DEF NeedsStuffing
      <4>2. CASE t # <<>>
        <5>1. Len(t) \in 1 .. Len(t) /\ Len(t) \in 1 .. Len(t) + 1 /\ Len(t) + 1 \in Int
          BY <3>1, <4>2
        <5>2. t[Len(t)] = "LF"
          BY <3>1, <3>5, <4>2, <5>1 DEF LineStart, End, At
        <5>3. u[Len(t)] = "LF" /\ At(u, Len(t) + 1) = "."
          BY <3>1, <3>2, <3>5, <5>1, <5>2
        <5> QED
          BY <3>1, <5>1, <5>3 DEF NeedsStuffing, NeedsStuffingInside
      <4> QED
        BY <4>1, <4>2
    <3>6. ~NeedsStuffing(u) => Stuffed(u) = u
      BY <3>1, <3>3, <3>4, <3>5
    <3> QED
      BY <3>1, <3>6 DEF u
  <2> HIDE DEF P
  <2>3. \A t \in Seq(Octets) : t \in P
    BY <2>1, <2>2, SeqInduction
  <2>4. Stuffed(msg) = msg
    BY <1>2, <2>3 DEF P
  <2> QED
    BY <1>2, <2>4 DEF StuffDots
<1> QED
  BY <1>1, <1>2

(* A message as the loader makes them.                                     *)
WellFormed(msg) == Clean(msg) /\ msg # <<>> /\ Ends(msg, CRLF)

LEMMA PrefixMeans ==
  ASSUME NEW S, NEW s \in Seq(S), NEW t \in Seq(S)
  PROVE  IsPrefix(t, s) <=> Len(t) <= Len(s) /\ \A i \in 1 .. Len(t) : s[i] = t[i]
<1>1. Len(s) \in Nat /\ Len(t) \in Nat
  BY LenProperties
<1>2. SubSeq(t, 1, Len(t)) = t
  BY SubSeqFull
<1>3. ASSUME Len(t) <= Len(s)
      PROVE  SubSeq(s, 1, Len(t)) = t <=> \A i \in 1 .. Len(t) : s[i] = t[i]
  <2>1. Len(t) \in 0 .. Len(s)
    BY <1>1, <1>3
  <2>2. /\ SubSeq(s, 1, Len(t)) \in Seq(S) /\ Len(SubSeq(s, 1, Len(t))) = Len(t)
        /\ \A i \in 1 .. Len(t) : SubSeq(s, 1, Len(t))[i] = s[i]
    BY <2>1, PrefixIs
  <2>3. ASSUME \A i \in 1 .. Len(t) : s[i] = t[i] PROVE SubSeq(s, 1, Len(t)) = t
    BY <2>2, <2>3, SeqEqual
  <2> QED
    BY <2>2, <2>3
<1> QED
  BY <1>2, <1>3 DEF IsPrefix

LEMMA ReversedIs ==
  ASSUME NEW S, NEW s \in Seq(S)
  PROVE  /\ Reverse(s) \in Seq(S) /\ Len(Reverse(s)) = Len(s)
         /\ \A i \in 1 .. Len(s) : Reverse(s)[i] = s[(Len(s) - i) + 1]
<1>1. Len(s) \in Nat
  BY LenProperties
<1>2. \A i \in 1 .. Len(s) : s[(Len(s) - i) + 1] \in S
  <2>1. \A i \in 1 .. Len(s) : (Len(s) - i) + 1 \in 1 .. Len(s)
    BY <1>1
  <2> QED
    BY <2>1, ElementOfSeq
<1>3. Reverse(s) \in [1 .. Len(s) -> S]
  BY <1>2 DEF Reverse
<1>4. Reverse(s) \in Seq(S)
  BY <1>1, <1>3 DEF Seq
<1>5. Len(Reverse(s)) = Len(s)
  BY <1>1, <1>3, <1>4, LenProperties
<1> QED
  BY <1>4, <1>5 DEF Reverse

LEMMA SuffixMeans ==
  ASSUME NEW S, NEW s \in Seq(S), NEW t \in Seq(S)
  PROVE  Ends(s, t) <=>
           /\ Len(t) <= Len(s)
           /\ \A i \in 1 .. Len(t) : s[(Len(s) - i) + 1] = t[(Len(t) - i) + 1]
<1>1. /\ Reverse(s) \in Seq(S) /\ Len(Reverse(s)) = Len(s)
      /\ \A i \in 1 .. Len(s) : Reverse(s)[i] = s[(Len(s) - i) + 1]
  BY ReversedIs
<1>2. /\ Reverse(t) \in Seq(S) /\ Len(Reverse(t)) = Len(t)
      /\ \A i \in 1 .. Len(t) : Reverse(t)[i] = t[(Len(t) - i) + 1]
  BY ReversedIs
<1>3. IsPrefix(Reverse(t), Reverse(s)) <=>
        Len(t) <= Len(s) /\ \A i \in 1 .. Len(t) : Reverse(s)[i] = Reverse(t)[i]
  BY <1>1, <1>2, PrefixMeans
<1>4. Len(t) <= Len(s) => \A i \in 1 .. Len(t) : i \in 1 .. Len(s)
  BY LenProperties
<1> QED
  BY <1>1, <1>2, <1>3, <1>4 DEF Ends, IsSuffix

LEMMA EndsCRLF ==
  ASSUME NEW s \in Seq(Octets)
  PROVE  Ends(s, CRLF) <=> End(s) = "LF" /\ At(s, Len(s) - 1) = "CR"
<1>1. /\ Len(s) \in Nat /\ DOMAIN s = 1 .. Len(s) /\ CRLF \in Seq(Octets)
      /\ Len(CRLF) = 2 /\ CRLF[1] = "CR" /\ CRLF[2] = "LF"
  <2>1. Len(s) \in Nat /\ DOMAIN s = 1 .. Len(s)
    BY LenProperties
  <2>2. CRLF \in Seq(Octets)
    BY Short
  <2> QED
    BY <2>1, <2>2 DEF CRLF
<1>2. Ends(s, CRLF) <=> Len(s) >= 2 /\ s[Len(s) - 1] = "CR" /\ s[Len(s)] = "LF"
  <2>1. Ends(s, CRLF) <=>
          2 <= Len(s) /\ \A i \in 1 .. 2 : s[(Len(s) - i) + 1] = CRLF[(2 - i) + 1]
    <3>1. CRLF \in Seq(Octets) /\ Len(CRLF) = 2
      BY <1>1
    <3>2. Ends(s, CRLF) <=>
            /\ Len(CRLF) <= Len(s)
            /\ \A i \in 1 .. Len(CRLF) : s[(Len(s) - i) + 1] = CRLF[(Len(CRLF) - i) + 1]
      BY <3>1, SuffixMeans
    <3> QED
      BY <3>1, <3>2
  <2>2. \A i : i \in 1 .. 2 <=> i = 1 \/ i = 2
    OBVIOUS
  <2>3. /\ (Len(s) - 1) + 1 = Len(s) /\ (Len(s) - 2) + 1 = Len(s) - 1
        /\ (2 - 1) + 1 = 2 /\ (2 - 2) + 1 = 1
    BY <1>1
  <2> QED
    BY <1>1, <2>1, <2>2, <2>3
<1>3. End(s) = "LF" <=> Len(s) >= 1 /\ s[Len(s)] = "LF"
  BY <1>1 DEF End, At
<1>4. At(s, Len(s) - 1) = "CR" <=> Len(s) >= 2 /\ s[Len(s) - 1] = "CR"
  BY <1>1 DEF At
<1> QED
  BY <1>1, <1>2, <1>3, <1>4

(* What Deliver does of a well-formed message.                             *)
Wire(msg) == StuffDots(msg) \o Terminator(msg)
DataEnd(msg) == Min({i \in DOMAIN Wire(msg) : EndsData(Wire(msg), i)})

(* The wire is transparent: a server stores the octets of a message, every *)
(* one of them, and takes none of what body sends for a command.           *)
THEOREM WireTransparent ==
  ASSUME NEW msg \in Seq(Octets), WellFormed(msg)
  PROVE  /\ Unstuffed(SubSeq(Wire(msg), 1, DataEnd(msg) - 1)) = msg
         /\ SubSeq(Wire(msg), DataEnd(msg) + 3, Len(Wire(msg))) = <<>>
<1> DEFINE s == Stuffed(msg)
           w == Wire(msg)
           n == Len(s)
<1>1. Carries(s, msg)
  BY WireCarries DEF WellFormed
<1>2. s \in Seq(Octets) /\ n \in Nat /\ DOMAIN s = 1 .. n
  BY StuffedAppend, LenProperties, ElementOfSeq DEF Octets
<1>3. w = s \o <<".", "CR", "LF">>
  BY StuffDotsIs DEF Wire, Terminator, WellFormed, CRLF
<1>4. /\ w \in Seq(Octets) /\ Len(w) = n + 3 /\ DOMAIN w = 1 .. n + 3
      /\ \A i \in 1 .. n : w[i] = s[i]
      /\ w[n + 1] = "." /\ w[n + 2] = "CR" /\ w[n + 3] = "LF"
  <2> DEFINE d == <<".", "CR", "LF">>
  <2>1. d \in Seq(Octets) /\ Len(d) = 3 /\ d[1] = "." /\ d[2] = "CR" /\ d[3] = "LF"
    <3>1. "." \in Octets /\ "CR" \in Octets /\ "LF" \in Octets
      BY DEF Octets
    <3> QED
      BY <3>1
  <2> HIDE DEF s, w, d
  <2>2. /\ w \in Seq(Octets) /\ Len(w) = n + 3 /\ DOMAIN w = 1 .. n + 3
        /\ \A i \in 1 .. n : w[i] = s[i]
        /\ \A i \in 1 .. 3 : w[n + i] = d[i]
    <3>1. /\ s \o d \in Seq(Octets) /\ Len(s \o d) = Len(s) + Len(d)
          /\ DOMAIN (s \o d) = 1 .. Len(s) + Len(d)
          /\ \A i \in 1 .. Len(s) : (s \o d)[i] = s[i]
          /\ \A i \in 1 .. Len(d) : (s \o d)[Len(s) + i] = d[i]
      <4>1. s \in Seq(Octets) /\ d \in Seq(Octets)
        BY <1>2, <2>1
      <4> QED
        BY <4>1, ConcatIs
    <3>2. w = s \o d
      BY <1>3 DEF d
    <3>3. Len(d) = 3
      BY <2>1
    <3> QED
      BY <3>1, <3>2, <3>3
  <2>3. 1 \in 1 .. 3 /\ 2 \in 1 .. 3 /\ 3 \in 1 .. 3
    OBVIOUS
  <2> QED
    BY <2>1, <2>2, <2>3
<1>5. Starting(s)
  BY <1>1, EndsCRLF DEF Carries, WellFormed, Starting
<1> HIDE DEF s, w
<1>6. \A i \in Int : At(w, i) = IF i = n + 1 THEN "." ELSE IF i = n + 2 THEN "CR"
                                ELSE IF i = n + 3 THEN "LF" ELSE At(s, i)
  BY <1>2, <1>4 DEF At
<1>7. ASSUME NEW i \in 1 .. n PROVE ~EndsData(w, i)
  <2>1. StartsLine(w, i) <=> StartsLine(s, i)
    <3>1. i - 1 \in Int /\ i - 2 \in Int /\ i - 1 < n + 1 /\ i - 2 < n + 1
      BY <1>2
    <3> QED
      BY <1>2, <1>6, <3>1 DEF StartsLine
  <2>2. StartsLine(s, i) /\ s[i] = "." => At(s, i + 1) = "."
    BY <1>1 DEF Carries, Doubled, n
  <2>3. At(s, i + 1) = "." => At(w, i + 1) = "."
    <3>1. At(s, i + 1) = "." => i + 1 \in 1 .. n
      BY <1>2 DEF At
    <3> QED
      BY <1>2, <1>6, <3>1
  <2>4. At(w, i) = s[i]
    BY <1>2, <1>4 DEF At
  <2> QED
    BY <2>1, <2>2, <2>3, <2>4 DEF EndsData
<1>8. EndsData(w, n + 1)
  <2>1. StartsLine(w, n + 1)
    <3>1. /\ (n + 1) - 1 = n /\ (n + 1) - 2 = n - 1 /\ n \in Int /\ n - 1 \in Int
          /\ n < n + 1 /\ n - 1 < n + 1 /\ (n = 0 => n + 1 = 1)
      BY <1>2
    <3>2. At(w, n) = At(s, n) /\ At(w, n - 1) = At(s, n - 1)
      BY <1>2, <1>6
    <3>3. s = <<>> => n = 0
      BY EmptySeq DEF n
    <3> QED
      BY <1>5, <3>1, <3>2, <3>3 DEF StartsLine, Starting, End, n
  <2> QED
    BY <1>2, <1>6, <2>1 DEF EndsData
<1>9. DataEnd(msg) = n + 1
  <2> DEFINE T == {i \in DOMAIN w : EndsData(w, i)}
  <2>1. T \in SUBSET Int /\ n + 1 \in Int /\ n + 1 \in T
    BY <1>2, <1>4, <1>8
  <2>2. \A i \in T : n + 1 <= i
    BY <1>2, <1>4, <1>7
  <2> HIDE DEF T
  <2>3. Min(T) = n + 1
    BY <2>1, <2>2, SmallestOf
  <2> QED
    BY <2>3 DEF DataEnd, T, w
<1>10. SubSeq(w, 1, n) = s
  <2>1. n \in 0 .. Len(w)
    BY <1>2, <1>4
  <2>2. /\ SubSeq(w, 1, n) \in Seq(Octets) /\ Len(SubSeq(w, 1, n)) = n
        /\ \A i \in 1 .. n : SubSeq(w, 1, n)[i] = w[i]
    BY <1>4, <2>1, PrefixIs
  <2>3. \A i \in 1 .. Len(SubSeq(w, 1, n)) : SubSeq(w, 1, n)[i] = s[i]
    BY <1>4, <2>2
  <2>4. Len(SubSeq(w, 1, n)) = Len(s)
    BY <2>2 DEF n
  <2> QED
    BY <1>2, <2>2, <2>3, <2>4, SeqEqual
<1>11. SubSeq(w, n + 4, n + 3) = <<>>
  BY <1>2, SubSeqEmpty
<1>12. (n + 1) - 1 = n /\ (n + 1) + 3 = n + 4
  BY <1>2
<1>13. Unstuffed(s) = msg
  BY <1>1 DEF Carries
<1> HIDE DEF n
<1> QED
  BY <1>4, <1>9, <1>10, <1>11, <1>12, <1>13 DEF w

-----------------------------------------------------------------------------
(* The messages the loader makes. *)

Breaks == {"CR", "LF"}

LEMMA TrimIs ==
  ASSUME NEW s \in Seq(Octets)
  PROVE  \E k \in 0 .. Len(s) :
           /\ TrimRight(s) = SubSeq(s, 1, k)
           /\ k = 0 \/ s[k] \notin Breaks
           /\ \A i \in 1 .. Len(s) : i > k => s[i] \in Breaks
<1> DEFINE K == {i \in DOMAIN s : s[i] \notin {"CR", "LF"}} \cup {0}
<1>1. Len(s) \in Nat /\ DOMAIN s = 1 .. Len(s)
  BY LenProperties
<1>2. K \subseteq 0 .. Len(s) /\ 0 \in K
  BY <1>1
<1>3. PICK k \in K : \A i \in K : i <= k
  <2> HIDE DEF K
  <2> QED
    BY <1>1, <1>2, LargestNumber
<1>4. Max(K) = k
  <2>1. K \in SUBSET Int /\ k \in Int
    BY <1>1, <1>2
  <2> HIDE DEF K
  <2> QED
    BY <1>3, <2>1, LargestOf
<1>5. TrimRight(s) = SubSeq(s, 1, k)
  BY <1>4 DEF TrimRight
<1>6. k \in 0 .. Len(s) /\ (k = 0 \/ s[k] \notin Breaks)
  BY <1>1, <1>2 DEF Breaks
<1>7. \A i \in 1 .. Len(s) : i > k => s[i] \in Breaks
  <2> SUFFICES ASSUME NEW i \in 1 .. Len(s), i > k, s[i] \notin Breaks PROVE FALSE
    OBVIOUS
  <2>1. i \in K
    BY <1>1 DEF Breaks
  <2> QED
    BY <1>1, <1>3, <1>6, <2>1
<1> QED
  BY <1>5, <1>6, <1>7

(* What is trimmed is all that is trimmed.                                 *)
LEMMA TrimUnique ==
  ASSUME NEW s \in Seq(Octets), NEW k \in 0 .. Len(s), k = 0 \/ s[k] \notin Breaks,
         \A i \in 1 .. Len(s) : i > k => s[i] \in Breaks
  PROVE  TrimRight(s) = SubSeq(s, 1, k)
<1>1. PICK m \in 0 .. Len(s) :
        /\ TrimRight(s) = SubSeq(s, 1, m)
        /\ m = 0 \/ s[m] \notin Breaks
        /\ \A i \in 1 .. Len(s) : i > m => s[i] \in Breaks
  BY TrimIs
<1>2. Len(s) \in Nat
  BY LenProperties
<1>3. ~(m < k) /\ ~(k < m)
  BY <1>1, <1>2
<1>4. m = k
  BY <1>2, <1>3
<1> QED
  BY <1>1, <1>4

LEMMA TrimAppend ==
  ASSUME NEW s \in Seq(Octets), NEW o \in Breaks
  PROVE  TrimRight(Append(s, o)) = TrimRight(s)
<1> DEFINE t == Append(s, o)
<1>0. o \in Octets
  BY DEF Breaks, Octets
<1>1. PICK k \in 0 .. Len(s) :
        /\ TrimRight(s) = SubSeq(s, 1, k)
        /\ k = 0 \/ s[k] \notin Breaks
        /\ \A i \in 1 .. Len(s) : i > k => s[i] \in Breaks
  BY TrimIs
<1>2. /\ Len(s) \in Nat /\ t \in Seq(Octets) /\ Len(t) = Len(s) + 1 /\ t[Len(s) + 1] = o
      /\ \A i \in 1 .. Len(s) : t[i] = s[i]
  BY <1>0, AppendIs
<1> HIDE DEF t
<1>3. k \in 0 .. Len(t) /\ (k = 0 \/ t[k] \notin Breaks)
  BY <1>1, <1>2
<1>4. \A i \in 1 .. Len(t) : i > k => t[i] \in Breaks
  <2>1. \A i \in 1 .. Len(t) : i \in 1 .. Len(s) \/ i = Len(s) + 1
    BY <1>2
  <2> QED
    BY <1>1, <1>2, <2>1
<1>5. TrimRight(t) = SubSeq(t, 1, k)
  BY <1>2, <1>3, <1>4, TrimUnique
<1>6. SubSeq(t, 1, k) = SubSeq(s, 1, k)
  <2>1. /\ SubSeq(t, 1, k) \in Seq(Octets) /\ Len(SubSeq(t, 1, k)) = k
        /\ \A i \in 1 .. k : SubSeq(t, 1, k)[i] = t[i]
    BY <1>2, <1>3, PrefixIs
  <2>2. /\ SubSeq(s, 1, k) \in Seq(Octets) /\ Len(SubSeq(s, 1, k)) = k
        /\ \A i \in 1 .. k : SubSeq(s, 1, k)[i] = s[i]
    BY <1>2, PrefixIs
  <2>3. \A i \in 1 .. k : t[i] = s[i]
    BY <1>2
  <2> QED
    BY <2>1, <2>2, <2>3, SeqEqual
<1> QED
  BY <1>1, <1>5, <1>6 DEF t

(* CRLF after a text, an octet at a time.                                  *)
LEMMA ThenCRLF ==
  ASSUME NEW s \in Seq(Octets)
  PROVE  /\ s \o CRLF = Append(Append(s, "CR"), "LF")
         /\ s \o CRLF \in Seq(Octets) /\ s \o CRLF # <<>>
         /\ End(s \o CRLF) = "LF" /\ At(s \o CRLF, Len(s \o CRLF) - 1) = "CR"
         /\ Clean(s) => Clean(s \o CRLF)
         /\ TrimRight(s \o CRLF) = TrimRight(s)
<1> DEFINE u == Append(s, "CR")
           v == Append(u, "LF")
<1>0. "CR" \in Octets /\ "LF" \in Octets /\ "CR" \in Breaks /\ "LF" \in Breaks
  BY DEF Octets, Breaks
<1>1. u \in Seq(Octets) /\ u = s \o <<"CR">>
  BY <1>0, AppendIs
<1>2. End(u) = "CR"
  BY <1>0, EndAppend
<1>3. s \o CRLF = v
  <2>1. CRLF = <<"CR">> \o <<"LF">>
    BY DEF CRLF
  <2>2. s \o (<<"CR">> \o <<"LF">>) = (s \o <<"CR">>) \o <<"LF">>
    BY <1>0, Short, ConcatAssociative
  <2>3. Append(u, "LF") = u \o <<"LF">>
    <3> HIDE DEF u
    <3> QED
      BY <1>0, <1>1, AppendIs
  <2> QED
    BY <1>1, <2>1, <2>2, <2>3
<1> HIDE DEF u
<1>4. v \in Seq(Octets) /\ v # <<>>
  BY <1>0, <1>1, AppendIs
<1>5. End(v) = "LF" /\ At(v, Len(v) - 1) = "CR"
  BY <1>0, <1>1, <1>2, EndAppend
<1>6. Clean(s) => Clean(v)
  <2>1. Clean(s) => Clean(u)
    BY <1>0, CleanAppend DEF u
  <2>2. Clean(u) => Clean(v)
    BY <1>0, <1>1, <1>2, CleanAppend
  <2> QED
    BY <2>1, <2>2
<1>7. TrimRight(v) = TrimRight(s)
  <2>1. TrimRight(u) = TrimRight(s)
    BY <1>0, TrimAppend DEF u
  <2>2. TrimRight(v) = TrimRight(u)
    BY <1>0, <1>1, TrimAppend
  <2> QED
    BY <2>1, <2>2
<1> HIDE DEF v
<1> QED
  BY <1>3, <1>4, <1>5, <1>6, <1>7 DEF u, v

LEMMA NormalIs ==
  ASSUME NEW body \in Seq(Octets)
  PROVE  /\ Normal(body) \in Seq(Octets) /\ Clean(Normal(body))
         /\ End(Normal(body)) = End(body)
<1> DEFINE P == {b \in Seq(Octets) : Clean(Normal(b)) /\ End(Normal(b)) = End(b)}
<1>1. <<>> \in P
  <2>1. <<>> \in Seq(Octets) /\ Clean(<<>>) /\ Normal(<<>>) = <<>>
    BY Empty, Short
  <2> QED
    BY <2>1, Zenon
<1>2. ASSUME NEW b \in Seq(Octets), b \in P, NEW o \in Octets PROVE Append(b, o) \in P
  <2> DEFINE N == Normal(b)
             M == Normal(Append(b, o))
  <2>1. N \in Seq(Octets) /\ Clean(N) /\ End(N) = End(b)
    BY <1>2, NormalAppend
  <2>2. Append(b, o) \in Seq(Octets) /\ End(Append(b, o)) = o
    BY AppendIs, EndAppend
  <2>3. CASE o = "LF" /\ End(b) # "CR"
    <3>1. M = N \o CRLF
      BY <2>3, NormalAppend
    <3>2. Clean(N \o CRLF) /\ End(N \o CRLF) = "LF"
      BY <2>1, ThenCRLF
    <3> QED
      BY <2>2, <2>3, <3>1, <3>2
  <2>4. CASE ~(o = "LF" /\ End(b) # "CR")
    <3>1. M = N \o <<o>>
      BY <2>4, NormalAppend
    <3> HIDE DEF N
    <3>2. Append(N, o) = N \o <<o>>
      BY <2>1, AppendIs
    <3>3. Clean(Append(N, o)) /\ End(Append(N, o)) = o
      BY <2>1, <2>4, CleanAppend, EndAppend
    <3> QED
      BY <2>2, <3>1, <3>2, <3>3
  <2> QED
    BY <2>3, <2>4
<1> HIDE DEF P
<1>3. \A b \in Seq(Octets) : b \in P
  BY <1>1, <1>2, SeqInduction
<1>4. Normal(body) \in Seq(Octets)
  <2>1. "x" \in Octets
    BY DEF Octets
  <2> QED
    BY <2>1, NormalAppend
<1> QED
  BY <1>3, <1>4 DEF P

LEMMA AddIs ==
  ASSUME NEW body \in Seq(Octets)
  PROVE  /\ Add(body) = TrimRight(Normal(body)) \o CRLF
         /\ Add(body) \in Seq(Octets) /\ WellFormed(Add(body))
<1>1. Add(body) = TrimRight(Normal(body)) \o CRLF
  BY DEF Add, Normal
<1> DEFINE N == Normal(body)
           T == TrimRight(N)
<1>2. N \in Seq(Octets) /\ Clean(N)
  BY NormalIs
<1> HIDE DEF N
<1>3. T \in Seq(Octets) /\ Clean(T)
  <2>1. PICK k \in 0 .. Len(N) : T = SubSeq(N, 1, k)
    BY <1>2, TrimIs
  <2>2. /\ Len(N) \in Nat
        /\ SubSeq(N, 1, k) \in Seq(Octets) /\ Len(SubSeq(N, 1, k)) = k
        /\ \A i \in 1 .. k : SubSeq(N, 1, k)[i] = N[i]
    BY <1>2, PrefixIs, LenProperties
  <2>3. DOMAIN N = 1 .. Len(N) /\ DOMAIN T = 1 .. k
    BY <1>2, <2>1, <2>2, LenProperties
  <2>4. ASSUME NEW i \in 1 .. k PROVE ~Bare(T, i)
    <3>1. i \in 1 .. Len(N) /\ N[i] = T[i] /\ At(T, i - 1) = At(N, i - 1)
      BY <2>1, <2>2, <2>3 DEF At
    <3>2. ~Bare(N, i)
      BY <1>2, <3>1 DEF Clean
    <3> QED
      BY <3>1, <3>2 DEF Bare
  <2> QED
    BY <2>1, <2>2, <2>4 DEF Clean
<1> HIDE DEF T
<1>4. /\ T \o CRLF \in Seq(Octets) /\ Clean(T \o CRLF) /\ T \o CRLF # <<>>
      /\ End(T \o CRLF) = "LF" /\ At(T \o CRLF, Len(T \o CRLF) - 1) = "CR"
  BY <1>3, ThenCRLF
<1>5. WellFormed(T \o CRLF)
  BY <1>4, EndsCRLF DEF WellFormed
<1> QED
  BY <1>1, <1>4, <1>5 DEF T, N

-----------------------------------------------------------------------------
(* Lines. *)

LEMMA EndConcat ==
  ASSUME NEW a \in Seq(Octets), NEW c \in Seq(Octets)
  PROVE  End(a \o c) = IF c = <<>> THEN End(a) ELSE End(c)
<1>1. CASE c = <<>>
  BY <1>1, ConcatEmptySeq
<1>2. CASE c # <<>>
  <2>1. /\ Len(a \o c) = Len(a) + Len(c) /\ Len(a) \in Nat /\ Len(c) \in Nat
        /\ DOMAIN (a \o c) = 1 .. Len(a) + Len(c)
        /\ \A i \in 1 .. Len(c) : (a \o c)[Len(a) + i] = c[i]
    BY ConcatIs
  <2>2. Len(c) \in 1 .. Len(c) /\ DOMAIN c = 1 .. Len(c)
    BY <1>2, <2>1, EmptySeq, LenProperties
  <2>3. Len(a) + Len(c) \in 1 .. Len(a) + Len(c)
    BY <2>1, <2>2
  <2> QED
    BY <1>2, <2>1, <2>2, <2>3 DEF End, At
<1> QED
  BY <1>1, <1>2

LEMMA NormalConcat ==
  ASSUME NEW a \in Seq(Octets), LineStart(a), NEW b \in Seq(Octets)
  PROVE  Normal(a \o b) = Normal(a) \o Normal(b)
<1> DEFINE P == {c \in Seq(Octets) : Normal(a \o c) = Normal(a) \o Normal(c)}
<1>0. Normal(a) \in Seq(Octets) /\ End(a) # "CR"
  <2>1. a = <<>> => End(a) = "none"
    BY EndIs
  <2> QED
    BY <2>1, NormalIs DEF LineStart
<1>1. <<>> \in P
  <2>1. a \o <<>> = a /\ Normal(a) \o <<>> = Normal(a) /\ <<>> \in Seq(Octets)
    BY <1>0, Short, ConcatEmptySeq
  <2> QED
    BY <2>1, Empty
<1>2. ASSUME NEW c \in Seq(Octets), c \in P, NEW o \in Octets PROVE Append(c, o) \in P
  <2> DEFINE piece == IF o = "LF" /\ End(c) # "CR" THEN CRLF ELSE <<o>>
  <2>1. piece \in Seq(Octets) /\ Normal(c) \in Seq(Octets)
    BY Short, NormalIs
  <2>2. a \o Append(c, o) = Append(a \o c, o) /\ a \o c \in Seq(Octets)
    <3>1. <<o>> \in Seq(Octets) /\ a \o c \in Seq(Octets)
      BY Short, ConcatProperties
    <3>2. a \o (c \o <<o>>) = (a \o c) \o <<o>>
      BY <3>1, ConcatAssociative
    <3> QED
      BY <3>1, <3>2, AppendIs
  <2>3. End(a \o c) = IF c = <<>> THEN End(a) ELSE End(c)
    BY EndConcat
  <2>4. End(a \o c) = "CR" <=> End(c) = "CR"
    <3>1. c = <<>> => End(c) = "none"
      BY EndIs
    <3> QED
      BY <1>0, <2>3, <3>1
  <2>5. Normal(Append(a \o c, o)) = Normal(a \o c) \o piece
    BY <2>2, <2>4, NormalAppend
  <2>6. Normal(Append(c, o)) = Normal(c) \o piece
    BY NormalAppend
  <2> HIDE DEF piece
  <2>7. (Normal(a) \o Normal(c)) \o piece = Normal(a) \o (Normal(c) \o piece)
    BY <1>0, <2>1, ConcatAssociative
  <2>8. Append(c, o) \in Seq(Octets)
    BY AppendIs
  <2> QED
    BY <1>2, <2>2, <2>5, <2>6, <2>7, <2>8
<1> HIDE DEF P
<1>3. \A c \in Seq(Octets) : c \in P
  BY <1>1, <1>2, SeqInduction
<1> QED
  BY <1>3 DEF P

NoFeed(s) == \A i \in 1 .. Len(s) : s[i] # "LF"

LEMMA NormalNoFeed ==
  ASSUME NEW s \in Seq(Octets), NoFeed(s)
  PROVE  Normal(s) = s
<1> DEFINE P == {t \in Seq(Octets) : NoFeed(t) => Normal(t) = t}
<1>1. <<>> \in P
  <2>1. <<>> \in Seq(Octets) /\ Normal(<<>>) = <<>>
    BY Empty, Short
  <2> QED
    BY <2>1, Zenon
<1>2. ASSUME NEW t \in Seq(Octets), t \in P, NEW o \in Octets PROVE Append(t, o) \in P
  <2>1. /\ Append(t, o) \in Seq(Octets) /\ Len(Append(t, o)) = Len(t) + 1 /\ Len(t) \in Nat
        /\ \A i \in 1 .. Len(t) : Append(t, o)[i] = t[i]
        /\ Append(t, o)[Len(t) + 1] = o /\ Append(t, o) = t \o <<o>>
    BY AppendIs
  <2>2. NoFeed(Append(t, o)) => NoFeed(t) /\ o # "LF"
    <3>1. Len(t) + 1 \in 1 .. Len(t) + 1 /\ \A i \in 1 .. Len(t) : i \in 1 .. Len(t) + 1
      BY <2>1
    <3> QED
      BY <2>1, <3>1 DEF NoFeed
  <2>3. o # "LF" => Normal(Append(t, o)) = Normal(t) \o <<o>>
    BY NormalAppend
  <2> QED
    BY <1>2, <2>1, <2>2, <2>3
<1> HIDE DEF P
<1>3. \A t \in Seq(Octets) : t \in P
  BY <1>1, <1>2, SeqInduction
<1> QED
  BY <1>3 DEF P

(* A line: a line feed, if any, ends it.                                   *)
IsLine(s) == s # <<>> /\ \A i \in 1 .. Len(s) - 1 : s[i] # "LF"

(* What LinesOf computes, octet by octet.                                  *)
Reading == [whole : Seq(Seq(Octets)), line : Seq(Octets)]
ReadsTo(g, s) ==
  /\ g[0] = [whole |-> <<>>, line |-> <<>>]
  /\ \A i \in 1 .. Len(s) : g[i] = TakeOctet(g[i - 1], s[i])

LEMMA TakeOctetType ==
  ASSUME NEW a \in Reading, NEW o \in Octets
  PROVE  TakeOctet(a, o) \in Reading
<1>1. a.whole \in Seq(Seq(Octets)) /\ a.line \in Seq(Octets)
  BY DEF Reading
<1>2. Append(a.line, o) \in Seq(Octets) /\ <<>> \in Seq(Octets)
  BY <1>1, AppendIs, Short
<1>3. Append(a.whole, Append(a.line, o)) \in Seq(Seq(Octets))
  BY <1>1, <1>2, AppendIs
<1>4. CASE o = "LF"
  <2>1. TakeOctet(a, o) = [whole |-> Append(a.whole, Append(a.line, o)), line |-> <<>>]
    BY <1>4 DEF TakeOctet
  <2> QED
    BY <1>2, <1>3, <2>1 DEF Reading
<1>5. CASE o # "LF"
  <2>1. TakeOctet(a, o) = [whole |-> a.whole, line |-> Append(a.line, o)]
    BY <1>5 DEF TakeOctet, Reading
  <2> QED
    BY <1>1, <1>2, <2>1 DEF Reading
<1> QED
  BY <1>4, <1>5

LEMMA LinesRead ==
  ASSUME NEW s \in Seq(Octets)
  PROVE  \E g : /\ ReadsTo(g, s)
                /\ LinesOf(s) = IF g[Len(s)].line = <<>> THEN g[Len(s)].whole
                                ELSE Append(g[Len(s)].whole, g[Len(s)].line)
<1> DEFINE z == [whole |-> <<>>, line |-> <<>>]
           Computes(g) == g = [i \in 0 .. Len(s) |->
                             IF i = 0 THEN [whole |-> <<>>, line |-> <<>>]
                             ELSE TakeOctet(g[i - 1], s[i])]
           step == [i \in 1 .. Len(s) |-> [a \in Reading |-> TakeOctet(a, s[i])]]
           h == CHOOSE g : Computes(g)
<1>1. Len(s) \in Nat /\ \A i \in 1 .. Len(s) : s[i] \in Octets
  BY LenProperties, ElementOfSeq
<1>2. z \in Reading
  BY Short, EmptySeq DEF Reading
<1>3. step \in [1 .. Len(s) -> [Reading -> Reading]]
  <2>1. \A i \in 1 .. Len(s) : \A a \in Reading : TakeOctet(a, s[i]) \in Reading
    BY <1>1, TakeOctetType
  <2> QED
    BY <2>1
<1>4. \E g : Computes(g)
  <2> HIDE DEF step, z
  <2>1. PICK f \in [0 .. Len(s) -> Reading] :
          f[0] = z /\ \A i \in 1 .. Len(s) : f[i] = step[i][f[i - 1]]
    <3> DEFINE n == Len(s)
    <3>1. n \in Nat /\ step \in [1 .. n -> [Reading -> Reading]]
      BY <1>1, <1>3
    <3> HIDE DEF n
    <3>2. \E f \in [0 .. n -> Reading] : f[0] = z /\ \A i \in 1 .. n : f[i] = step[i][f[i - 1]]
      BY <1>2, <3>1, Iteration
    <3> QED
      BY <3>2 DEF n
  <2>2. ASSUME NEW i \in 1 .. Len(s) PROVE f[i] = TakeOctet(f[i - 1], s[i])
    <3>1. i - 1 \in 0 .. Len(s)
      BY <1>1
    <3>2. f[i - 1] \in Reading
      BY <2>1, <3>1
    <3>3. step[i][f[i - 1]] = TakeOctet(f[i - 1], s[i])
      BY <3>2 DEF step
    <3> QED
      BY <2>1, <3>3
  <2>3. f = [i \in 0 .. Len(s) |-> f[i]]
    OBVIOUS
  <2>4. \A i \in 0 .. Len(s) :
          f[i] = IF i = 0 THEN [whole |-> <<>>, line |-> <<>>] ELSE TakeOctet(f[i - 1], s[i])
    <3>1. \A i \in 0 .. Len(s) : i = 0 \/ i \in 1 .. Len(s)
      BY <1>1
    <3> QED
      BY <2>1, <2>2, <3>1 DEF z
  <2>5. Computes(f)
    BY <2>3, <2>4
  <2> QED
    BY <2>5
<1>5. Computes(h)
  BY <1>4
<1>6. LinesOf(s) = IF h[Len(s)].line = <<>> THEN h[Len(s)].whole
                   ELSE Append(h[Len(s)].whole, h[Len(s)].line)
  BY DEF LinesOf
<1> HIDE DEF h
<1>7. ReadsTo(h, s)
  <2>1. 0 \in 0 .. Len(s) /\ \A i \in 1 .. Len(s) : i \in 0 .. Len(s) /\ i # 0
    BY <1>1
  <2> QED
    BY <1>5, <2>1 DEF ReadsTo
<1> QED
  BY <1>6, <1>7

(* The lines a text has.                                                   *)
WholeLines(ss) == \A i \in 1 .. Len(ss) : IsLine(ss[i]) /\ End(ss[i]) = "LF"

LEMMA TakeOctetLines ==
  ASSUME NEW a \in Reading, NEW o \in Octets, WholeLines(a.whole), NoFeed(a.line)
  PROVE  WholeLines(TakeOctet(a, o).whole) /\ NoFeed(TakeOctet(a, o).line)
<1> DEFINE w == a.whole
           line == Append(a.line, o)
<1>1. w \in Seq(Seq(Octets)) /\ a.line \in Seq(Octets)
  BY DEF Reading
<1>2. /\ line \in Seq(Octets) /\ line # <<>> /\ Len(a.line) \in Nat /\ Len(line) = Len(a.line) + 1
      /\ \A i \in 1 .. Len(a.line) : line[i] = a.line[i]
      /\ line[Len(a.line) + 1] = o
  BY <1>1, AppendIs
<1>3. End(line) = o
  BY <1>1, EndAppend
<1>4. CASE o = "LF"
  <2>1. TakeOctet(a, o).whole = Append(w, line) /\ TakeOctet(a, o).line = <<>>
    BY <1>4 DEF TakeOctet
  <2>2. IsLine(line)
    <3>1. Len(line) - 1 = Len(a.line)
      BY <1>2
    <3> QED
      BY <1>2, <3>1 DEF IsLine, NoFeed
  <2> HIDE DEF w, line
  <2>3. /\ Len(Append(w, line)) = Len(w) + 1 /\ Len(w) \in Nat
        /\ \A i \in 1 .. Len(w) : Append(w, line)[i] = w[i]
        /\ Append(w, line)[Len(w) + 1] = line
    BY <1>1, <1>2, AppendIs
  <2>4. \A i \in 1 .. Len(w) + 1 : i \in 1 .. Len(w) \/ i = Len(w) + 1
    BY <2>3
  <2>5. WholeLines(Append(w, line))
    BY <1>3, <1>4, <2>2, <2>3, <2>4 DEF WholeLines, w
  <2>6. NoFeed(<<>>)
    BY EmptySeq DEF NoFeed
  <2> QED
    BY <2>1, <2>5, <2>6
<1>5. CASE o # "LF"
  <2>1. TakeOctet(a, o).whole = w /\ TakeOctet(a, o).line = line
    BY <1>5 DEF TakeOctet, Reading
  <2>2. \A i \in 1 .. Len(line) : i \in 1 .. Len(a.line) \/ i = Len(a.line) + 1
    BY <1>2
  <2>3. NoFeed(line)
    BY <1>2, <1>5, <2>2 DEF NoFeed
  <2> QED
    BY <2>1, <2>3
<1> QED
  BY <1>4, <1>5

LEMMA LinesAre ==
  ASSUME NEW s \in Seq(Octets)
  PROVE  /\ LinesOf(s) \in Seq(Seq(Octets)) /\ Len(LinesOf(s)) \in Nat
         /\ \A i \in 1 .. Len(LinesOf(s)) : IsLine(LinesOf(s)[i])
         /\ \A i \in 1 .. Len(LinesOf(s)) - 1 : End(LinesOf(s)[i]) = "LF"
<1>1. PICK g : /\ ReadsTo(g, s)
               /\ LinesOf(s) = IF g[Len(s)].line = <<>> THEN g[Len(s)].whole
                               ELSE Append(g[Len(s)].whole, g[Len(s)].line)
  BY LinesRead
<1>2. Len(s) \in Nat /\ \A i \in 1 .. Len(s) : s[i] \in Octets
  BY LenProperties, ElementOfSeq
<1> DEFINE Fine(a) == a \in Reading /\ WholeLines(a.whole) /\ NoFeed(a.line)
           P == {i \in 0 .. Len(s) : Fine(g[i])}
<1>3. 0 \in P
  <2>1. Fine([whole |-> <<>>, line |-> <<>>])
    BY Short, EmptySeq DEF Reading, WholeLines, NoFeed
  <2> QED
    BY <1>1, <1>2, <2>1 DEF ReadsTo
<1>4. ASSUME NEW i \in 0 .. Len(s) - 1, i \in P PROVE i + 1 \in P
  <2>1. i + 1 \in 1 .. Len(s) /\ i + 1 \in 0 .. Len(s) /\ (i + 1) - 1 = i
    BY <1>2
  <2>2. g[i + 1] = TakeOctet(g[i], s[i + 1])
    BY <1>1, <2>1 DEF ReadsTo
  <2>3. Fine(g[i]) /\ s[i + 1] \in Octets
    BY <1>2, <1>4, <2>1
  <2>4. Fine(g[i + 1])
    BY <2>2, <2>3, TakeOctetType, TakeOctetLines
  <2> QED
    BY <2>1, <2>4
<1> DEFINE w == g[Len(s)].whole
           last == g[Len(s)].line
<1>5. /\ w \in Seq(Seq(Octets)) /\ last \in Seq(Octets)
      /\ WholeLines(w) /\ NoFeed(last)
  <2> HIDE DEF P
  <2>1. \A i \in 0 .. Len(s) : i \in P
    BY <1>2, <1>3, <1>4, Induction
  <2>2. Len(s) \in P
    BY <1>2, <2>1
  <2> QED
    BY <2>2 DEF P, Reading
<1> HIDE DEF w, last
<1>6. LinesOf(s) = IF last = <<>> THEN w ELSE Append(w, last)
  BY <1>1 DEF w, last
<1>7. CASE last = <<>>
  BY <1>5, <1>6, <1>7, LenProperties DEF WholeLines
<1>8. CASE last # <<>>
  <2> DEFINE v == Append(w, last)
  <2>1. /\ v \in Seq(Seq(Octets)) /\ Len(v) = Len(w) + 1 /\ Len(w) \in Nat
        /\ \A i \in 1 .. Len(w) : v[i] = w[i]
        /\ v[Len(w) + 1] = last
    BY <1>5, AppendIs
  <2>2. IsLine(last)
    <3>1. Len(last) \in Nat
      BY <1>5, LenProperties
    <3> QED
      BY <1>5, <1>8, <3>1 DEF NoFeed, IsLine
  <2> HIDE DEF v
  <2>3. /\ \A i \in 1 .. Len(v) : i \in 1 .. Len(w) \/ i = Len(w) + 1
        /\ \A i \in 1 .. Len(v) - 1 : i \in 1 .. Len(w)
        /\ Len(v) \in Nat
    BY <2>1
  <2>4. LinesOf(s) = v
    BY <1>6, <1>8 DEF v
  <2> QED
    BY <1>5, <2>1, <2>2, <2>3, <2>4 DEF WholeLines
<1> QED
  BY <1>7, <1>8

-----------------------------------------------------------------------------
(* A line of the file, and what it was before the format escaped it. *)

Escaped(s) == At(s, 1) = ">" /\ At(s, 2) = "From "

LEMMA PairIs ==
  ASSUME NEW S, NEW a \in S, NEW b \in S
  PROVE  <<a, b>> \in Seq(S)
  OBVIOUS

LEMMA TailIs ==
  ASSUME NEW s \in Seq(Octets), s # <<>>
  PROVE  /\ Tail(s) \in Seq(Octets) /\ Len(s) \in Nat /\ Len(Tail(s)) = Len(s) - 1
         /\ \A i \in 1 .. Len(s) - 1 : Tail(s)[i] = s[i + 1]
<1>1. Len(s) \in Nat /\ Len(s) # 0
  BY LenProperties, EmptySeq
<1>2. Tail(s) \in Seq(Octets) /\ Len(Tail(s)) = Len(s) - 1
  BY HeadTailProperties
<1>3. \A i \in 1 .. Len(Tail(s)) : Tail(s)[i] = s[i + 1]
  BY HeadTailProperties
<1> QED
  BY <1>1, <1>2, <1>3

LEMMA EscapedIs ==
  ASSUME NEW s \in Seq(Octets)
  PROVE  /\ Escaped(s) <=> Len(s) >= 2 /\ s[1] = ">" /\ s[2] = "From "
         /\ IsPrefix(<<">", "From ">>, s) <=> Escaped(s)
<1>1. Len(s) \in Nat /\ DOMAIN s = 1 .. Len(s)
  BY LenProperties
<1>2. Escaped(s) <=> Len(s) >= 2 /\ s[1] = ">" /\ s[2] = "From "
  <2>1. (1 \in DOMAIN s <=> Len(s) >= 1) /\ (2 \in DOMAIN s <=> Len(s) >= 2)
    BY <1>1
  <2>2. At(s, 1) = ">" <=> Len(s) >= 1 /\ s[1] = ">"
    BY <2>1 DEF At
  <2>3. At(s, 2) = "From " <=> Len(s) >= 2 /\ s[2] = "From "
    BY <2>1 DEF At
  <2> QED
    <3>1. Len(s) >= 2 => Len(s) >= 1
      BY <1>1
    <3>2. Escaped(s) <=> (Len(s) >= 1 /\ s[1] = ">") /\ (Len(s) >= 2 /\ s[2] = "From ")
      BY <2>2, <2>3 DEF Escaped
    <3> QED
      BY <3>1, <3>2
<1> DEFINE t == <<">", "From ">>
<1>3. t \in Seq(Octets) /\ Len(t) = 2 /\ t[1] = ">" /\ t[2] = "From "
  <2>1. t \in Seq(Octets)
    <3>1. ">" \in Octets /\ "From " \in Octets
      BY DEF Octets
    <3> QED
      BY <3>1, PairIs
  <2>2. Len(t) = 2 /\ t[1] = ">" /\ t[2] = "From "
    OBVIOUS
  <2> QED
    BY <2>1, <2>2
<1> HIDE DEF t
<1>4. IsPrefix(t, s) <=> Len(t) <= Len(s) /\ \A i \in 1 .. Len(t) : s[i] = t[i]
  BY <1>3, PrefixMeans
<1>5. \A i : i \in 1 .. 2 <=> i = 1 \/ i = 2
  OBVIOUS
<1>6. IsPrefix(t, s) <=> 2 <= Len(s) /\ s[1] = ">" /\ s[2] = "From "
  BY <1>3, <1>4, <1>5
<1> QED
  BY <1>1, <1>2, <1>6 DEF t

LEMMA UnescapeIs ==
  ASSUME NEW s \in Seq(Octets)
  PROVE  /\ Unescape(s) = IF Escaped(s) THEN Tail(s) ELSE s
         /\ Unescape(s) \in Seq(Octets)
         /\ s # <<>> => Unescape(s) # <<>>
         /\ End(Unescape(s)) = End(s)
         /\ NoFeed(s) => NoFeed(Unescape(s))
<1>1. Unescape(s) = IF Escaped(s) THEN Tail(s) ELSE s
  BY DEF Unescape, Escaped
<1>2. CASE Escaped(s)
  <2> DEFINE t == Tail(s)
  <2>1. Len(s) >= 2
    BY <1>2, EscapedIs
  <2>2. s # <<>>
    BY <2>1, EmptySeq
  <2>3. /\ t \in Seq(Octets) /\ Len(s) \in Nat /\ Len(t) = Len(s) - 1
        /\ \A i \in 1 .. Len(s) - 1 : t[i] = s[i + 1]
    BY <2>2, TailIs
  <2> HIDE DEF t
  <2>4. t # <<>>
    BY <2>1, <2>3, EmptySeq
  <2>5. End(t) = End(s)
    <3>1. DOMAIN t = 1 .. Len(t) /\ DOMAIN s = 1 .. Len(s)
      BY <2>3, LenProperties
    <3>2. /\ Len(t) \in 1 .. Len(t) /\ Len(s) \in 1 .. Len(s)
          /\ Len(t) \in 1 .. Len(s) - 1 /\ Len(t) + 1 = Len(s)
      BY <2>1, <2>3
    <3>3. t[Len(t)] = s[Len(s)]
      BY <2>3, <3>2
    <3> QED
      BY <3>1, <3>2, <3>3 DEF End, At
  <2>6. NoFeed(s) => NoFeed(t)
    <3>1. \A i \in 1 .. Len(t) : i + 1 \in 1 .. Len(s) /\ i \in 1 .. Len(s) - 1
      BY <2>1, <2>3
    <3> QED
      BY <2>3, <3>1 DEF NoFeed
  <2> QED
    BY <1>1, <1>2, <2>3, <2>4, <2>5, <2>6 DEF t
<1>3. CASE ~Escaped(s)
  BY <1>1, <1>3
<1> QED
  BY <1>2, <1>3

LEMMA UnescapeBefore ==
  ASSUME NEW s \in Seq(Octets), NEW e \in Seq(Octets), \A i \in 1 .. Len(e) : e[i] \in Breaks
  PROVE  Unescape(s \o e) = Unescape(s) \o e
<1> DEFINE u == s \o e
           m == Len(s)
           n == Len(e)
<1>1. /\ u \in Seq(Octets) /\ Len(u) = m + n /\ m \in Nat /\ n \in Nat
      /\ \A i \in 1 .. m : u[i] = s[i]
      /\ \A i \in 1 .. n : u[m + i] = e[i]
  BY ConcatIs
<1> HIDE DEF u, m, n
<1>0. \A i \in 1 .. n : e[i] \in Breaks
  BY DEF n
<1>2. Escaped(u) <=> Escaped(s)
  <2>1. Escaped(u) <=> m + n >= 2 /\ u[1] = ">" /\ u[2] = "From "
    BY <1>1, EscapedIs
  <2>2. Escaped(s) <=> m >= 2 /\ s[1] = ">" /\ s[2] = "From "
    BY EscapedIs DEF m
  <2>3. CASE m >= 2
    <3>1. u[1] = s[1] /\ u[2] = s[2] /\ m + n >= 2
      BY <1>1, <2>3
    <3> QED
      BY <2>1, <2>2, <2>3, <3>1
  <2>4. CASE m = 1 /\ n >= 1
    <3>1. u[2] = e[1] /\ e[1] \in Breaks
      <4>1. 1 \in 1 .. n /\ m + 1 = 2
        BY <1>1, <2>4
      <4> QED
        BY <1>0, <1>1, <4>1
    <3>2. u[2] # "From "
      BY <3>1 DEF Breaks
    <3> QED
      <4>1. ~Escaped(u)
        BY <2>1, <3>2
      <4>2. ~(m >= 2)
        BY <2>4
      <4>3. ~Escaped(s)
        BY <2>2, <4>2
      <4> QED
        BY <4>1, <4>3
  <2>5. CASE m = 0 /\ n >= 1
    <3>1. u[1] = e[1] /\ e[1] \in Breaks
      <4>1. 1 \in 1 .. n /\ m + 1 = 1
        BY <1>1, <2>5
      <4> QED
        BY <1>0, <1>1, <4>1
    <3>2. u[1] # ">"
      BY <3>1 DEF Breaks
    <3> QED
      <4>1. ~Escaped(u)
        BY <2>1, <3>2
      <4>2. ~(m >= 2)
        BY <2>5
      <4>3. ~Escaped(s)
        BY <2>2, <4>2
      <4> QED
        BY <4>1, <4>3
  <2>6. CASE m < 2 /\ n = 0
    <3>1. ~(m + n >= 2) /\ ~(m >= 2)
      BY <1>1, <2>6
    <3> QED
      BY <2>1, <2>2, <3>1
  <2> QED
    BY <1>1, <2>3, <2>4, <2>5, <2>6
<1>3. CASE Escaped(s)
  <2>1. m >= 2 /\ s # <<>> /\ u # <<>>
    <3>1. m >= 2
      BY <1>3, EscapedIs DEF m
    <3> QED
      BY <1>1, <3>1, EmptySeq DEF m
  <2> DEFINE t == Tail(s)
             v == Tail(u)
             w == Tail(s) \o e
  <2>2. t \in Seq(Octets) /\ Len(t) = m - 1 /\ \A i \in 1 .. m - 1 : t[i] = s[i + 1]
    BY <2>1, TailIs DEF m
  <2>3. v \in Seq(Octets) /\ Len(v) = Len(u) - 1 /\ \A i \in 1 .. Len(u) - 1 : v[i] = u[i + 1]
    BY <1>1, <2>1, TailIs
  <2>4. /\ w \in Seq(Octets) /\ Len(w) = Len(t) + n
        /\ \A i \in 1 .. Len(t) : w[i] = t[i]
        /\ \A i \in 1 .. n : w[Len(t) + i] = e[i]
    BY <2>2, ConcatIs DEF n
  <2> HIDE DEF t, v, w
  <2>5. Len(v) = Len(w)
    BY <1>1, <2>1, <2>2, <2>3, <2>4
  <2>6. ASSUME NEW i \in 1 .. Len(v) PROVE v[i] = w[i]
    <3>1. v[i] = u[i + 1]
      BY <2>3
    <3>2. CASE i <= m - 1
      <4>1. i + 1 \in 1 .. m /\ i \in 1 .. m - 1 /\ i \in 1 .. Len(t)
        BY <1>1, <2>2, <3>2
      <4> QED
        BY <1>1, <2>2, <2>4, <3>1, <4>1
    <3>3. CASE ~(i <= m - 1)
      <4>1. PICK j \in 1 .. n : i = m - 1 + j
        <5>1. i - m + 1 \in 1 .. n /\ i = m - 1 + (i - m + 1)
          BY <1>1, <2>3, <3>3
        <5> QED
          BY <5>1
      <4>2. i + 1 = m + j /\ i = Len(t) + j
        BY <1>1, <2>2, <4>1
      <4> QED
        BY <1>1, <2>4, <3>1, <4>2
    <3> QED
      BY <3>2, <3>3
  <2>7. v = w
    BY <2>3, <2>4, <2>5, <2>6, SeqEqual
  <2>8. Unescape(u) = v /\ Unescape(s) = t
    BY <1>1, <1>2, <1>3, UnescapeIs DEF t, v
  <2> QED
    BY <2>7, <2>8 DEF w, t, u
<1>4. CASE ~Escaped(s)
  <2>1. Unescape(u) = u /\ Unescape(s) = s
    BY <1>1, <1>2, <1>4, UnescapeIs
  <2> QED
    BY <2>1 DEF u
<1> QED
  BY <1>3, <1>4

LEMMA CutEnd ==
  ASSUME NEW s \in Seq(Octets), NEW n \in Nat \ {0}, Len(s) = n
  PROVE  /\ SubSeq(s, 1, n - 1) \in Seq(Octets) /\ Len(SubSeq(s, 1, n - 1)) = n - 1
         /\ \A i \in 1 .. n - 1 : SubSeq(s, 1, n - 1)[i] = s[i]
         /\ s[n] \in Octets
         /\ s = Append(SubSeq(s, 1, n - 1), s[n])
<1>1. n - 1 \in 0 .. Len(s) /\ n - 1 \in Nat /\ n - 1 < Len(s) /\ (n - 1) + 1 = n
  OBVIOUS
<1>2. SubSeq(s, 1, (n - 1) + 1) = Append(SubSeq(s, 1, n - 1), s[(n - 1) + 1])
  BY <1>1, PrefixGrows
<1>3. SubSeq(s, 1, n) = s
  BY SubSeqFull
<1>4. s[n] \in Octets
  <2>1. n \in 1 .. Len(s)
    OBVIOUS
  <2> QED
    BY <2>1, ElementOfSeq
<1>5. /\ SubSeq(s, 1, n - 1) \in Seq(Octets) /\ Len(SubSeq(s, 1, n - 1)) = n - 1
      /\ \A i \in 1 .. n - 1 : SubSeq(s, 1, n - 1)[i] = s[i]
  BY <1>1, PrefixIs
<1> QED
  BY <1>1, <1>2, <1>3, <1>4, <1>5

(* A line feed after a text without one.                                   *)
LEMMA ThenFeed ==
  ASSUME NEW u \in Seq(Octets), NoFeed(u)
  PROVE  /\ Normal(u \o CRLF) = u \o CRLF
         /\ End(u) # "CR" => Normal(u \o <<"LF">>) = u \o CRLF
<1>0. "CR" \in Octets /\ "LF" \in Octets /\ Normal(u) = u
  BY NormalNoFeed DEF Octets
<1> DEFINE v == Append(u, "CR")
<1>1. v \in Seq(Octets) /\ End(v) = "CR" /\ v = u \o <<"CR">>
  BY <1>0, AppendIs, EndAppend
<1>2. Normal(v) = v
  <2>1. Normal(v) = Normal(u) \o <<"CR">>
    BY <1>0, NormalAppend
  <2> QED
    BY <1>0, <1>1, <2>1
<1> HIDE DEF v
<1>3. Normal(Append(v, "LF")) = Append(v, "LF")
  <2>1. Normal(Append(v, "LF")) = Normal(v) \o <<"LF">>
    BY <1>0, <1>1, NormalAppend
  <2>2. Append(v, "LF") = v \o <<"LF">>
    BY <1>0, <1>1, AppendIs
  <2> QED
    BY <1>2, <2>1, <2>2
<1>4. u \o CRLF = Append(v, "LF")
  BY ThenCRLF DEF v
<1>5. End(u) # "CR" => Normal(u \o <<"LF">>) = u \o CRLF
  <2>1. Append(u, "LF") = u \o <<"LF">>
    BY <1>0, AppendIs
  <2>2. End(u) # "CR" => Normal(Append(u, "LF")) = Normal(u) \o CRLF
    BY <1>0, NormalAppend
  <2> QED
    BY <1>0, <2>1, <2>2
<1> QED
  BY <1>3, <1>4, <1>5

LEMMA BreaksAfter ==
  /\ CRLF \in Seq(Octets) /\ \A i \in 1 .. Len(CRLF) : CRLF[i] \in Breaks
  /\ <<"LF">> \in Seq(Octets) /\ \A i \in 1 .. Len(<<"LF">>) : <<"LF">>[i] \in Breaks
<1>1. "LF" \in Octets /\ "LF" \in Breaks /\ "CR" \in Breaks
  BY DEF Octets, Breaks
<1>2. CRLF \in Seq(Octets) /\ <<"LF">> \in Seq(Octets)
  BY <1>1, Short
<1>3. Len(CRLF) = 2 /\ CRLF[1] = "CR" /\ CRLF[2] = "LF"
  BY DEF CRLF
<1>4. Len(<<"LF">>) = 1 /\ <<"LF">>[1] = "LF"
  OBVIOUS
<1>5. (\A i \in 1 .. 2 : i = 1 \/ i = 2) /\ (\A i \in 1 .. 1 : i = 1)
  OBVIOUS
<1>6. \A i \in 1 .. Len(CRLF) : CRLF[i] \in Breaks
  BY <1>1, <1>3, <1>5
<1>7. \A i \in 1 .. Len(<<"LF">>) : <<"LF">>[i] \in Breaks
  <2> DEFINE e == <<"LF">>
  <2>1. Len(e) = 1 /\ e[1] = "LF"
    BY <1>4
  <2> HIDE DEF e
  <2>2. \A i \in 1 .. Len(e) : e[i] \in Breaks
    BY <1>1, <1>5, <2>1
  <2> QED
    BY <2>2 DEF e
<1> QED
  BY <1>2, <1>6, <1>7

(* A line read is what its line was, its end made CRLF.                    *)
LEMMA LineIs ==
  ASSUME NEW line \in Seq(Octets), IsLine(line)
  PROVE  /\ Original(line) \in Seq(Octets)
         /\ End(line) = "LF" => Normal(Unescape(line)) = Original(line)
         /\ End(line) # "LF" => Normal(Unescape(line)) \o CRLF = Original(line)
<1> DEFINE text == WithoutEnd(line)
           n == Len(line)
<1>1. n \in Nat /\ n \in Nat \ {0} /\ n >= 1 /\ DOMAIN line = 1 .. n
  BY LenProperties, EmptySeq DEF IsLine
<1>2. ASSUME text \in Seq(Octets)
      PROVE  Original(line) = Unescape(text) \o CRLF /\ Original(line) \in Seq(Octets)
  <2> HIDE DEF text
  <2>1. Unescape(text) = (IF IsPrefix(<<">", "From ">>, text) THEN Tail(text) ELSE text)
    BY <1>2, UnescapeIs, EscapedIs
  <2>2. Unescape(text) \in Seq(Octets)
    BY <1>2, UnescapeIs
  <2>3. Unescape(text) \o CRLF \in Seq(Octets)
    BY <2>2, ThenCRLF
  <2> QED
    BY <2>1, <2>3 DEF Original, text
<1>3. Ends(line, CRLF) <=> n >= 2 /\ line[n] = "LF" /\ line[n - 1] = "CR"
  BY <1>1, EndsCRLF DEF End, At
<1>4. Ends(line, <<"LF">>) <=> line[n] = "LF"
  <2> DEFINE e == <<"LF">>
  <2>1. e \in Seq(Octets) /\ Len(e) = 1 /\ e[1] = "LF"
    BY BreaksAfter
  <2> HIDE DEF e
  <2>2. Ends(line, e) <=> Len(e) <= n /\ \A i \in 1 .. Len(e) : line[(n - i) + 1] = e[(Len(e) - i) + 1]
    BY <2>1, SuffixMeans
  <2>3. (\A i : i \in 1 .. 1 <=> i = 1) /\ (n - 1) + 1 = n /\ (1 - 1) + 1 = 1
    BY <1>1
  <2> HIDE DEF n
  <2> QED
    BY <1>1, <2>1, <2>2, <2>3 DEF e
<1>5. End(line) = line[n]
  BY <1>1 DEF End, At
<1>6. \A i \in 1 .. n - 1 : line[i] # "LF"
  BY DEF IsLine
<1>7. /\ SubSeq(line, 1, n - 1) \in Seq(Octets) /\ Len(SubSeq(line, 1, n - 1)) = n - 1
      /\ \A i \in 1 .. n - 1 : SubSeq(line, 1, n - 1)[i] = line[i]
      /\ line = Append(SubSeq(line, 1, n - 1), line[n])
  BY <1>1, CutEnd
<1>8. Ends(line, CRLF) => text = SubSeq(line, 1, n - 2)
  BY DEF WithoutEnd
<1>9. line[n] = "LF" /\ ~Ends(line, CRLF) => text = SubSeq(line, 1, n - 1)
  BY <1>4 DEF WithoutEnd
<1>10. line[n] # "LF" => text = line
  BY <1>3, <1>4 DEF WithoutEnd
<1> HIDE DEF text, n
<1>11. CASE Ends(line, CRLF)
  <2> DEFINE a == SubSeq(line, 1, n - 1)
  <2>1. n - 1 \in Nat \ {0} /\ (n - 1) - 1 = n - 2 /\ n - 2 \in 0 .. n /\ n - 1 \in 1 .. n - 1
    BY <1>1, <1>3, <1>11
  <2>2. /\ SubSeq(a, 1, (n - 1) - 1) \in Seq(Octets) /\ Len(SubSeq(a, 1, (n - 1) - 1)) = (n - 1) - 1
        /\ \A i \in 1 .. (n - 1) - 1 : SubSeq(a, 1, (n - 1) - 1)[i] = a[i]
        /\ a = Append(SubSeq(a, 1, (n - 1) - 1), a[n - 1])
    BY <1>7, <2>1, CutEnd
  <2>3. a[n - 1] = "CR"
    BY <1>3, <1>7, <1>11, <2>1
  <2>4. /\ text \in Seq(Octets) /\ Len(text) = n - 2
        /\ \A i \in 1 .. n - 2 : text[i] = line[i]
    <3>1. text = SubSeq(line, 1, n - 2) /\ n - 2 \in 0 .. Len(line)
      BY <1>8, <1>11, <2>1 DEF n
    <3>2. /\ SubSeq(line, 1, n - 2) \in Seq(Octets) /\ Len(SubSeq(line, 1, n - 2)) = n - 2
          /\ \A i \in 1 .. n - 2 : SubSeq(line, 1, n - 2)[i] = line[i]
      BY <3>1, PrefixIs
    <3> QED
      BY <3>1, <3>2
  <2>5. SubSeq(a, 1, n - 2) = text
    <3>1. \A i \in 1 .. n - 2 : i \in 1 .. n - 1
      BY <1>1
    <3> DEFINE b == SubSeq(a, 1, n - 2)
    <3>2. b \in Seq(Octets) /\ Len(b) = n - 2 /\ \A i \in 1 .. n - 2 : b[i] = a[i]
      BY <2>1, <2>2
    <3>3. \A i \in 1 .. n - 2 : b[i] = text[i]
      BY <1>7, <2>4, <3>1, <3>2
    <3> HIDE DEF b
    <3>4. b = text
      BY <2>4, <3>2, <3>3, SeqEqual
    <3> QED
      BY <3>4 DEF b
  <2>6. line = Append(Append(text, "CR"), "LF")
    <3>1. a = Append(text, "CR")
      BY <2>1, <2>2, <2>3, <2>5
    <3>2. line = Append(a, "LF")
      BY <1>3, <1>7, <1>11
    <3> QED
      BY <3>1, <3>2
  <2>7. line = text \o CRLF
    BY <2>4, <2>6, ThenCRLF
  <2>8. NoFeed(text)
    <3>1. \A i \in 1 .. n - 2 : i \in 1 .. n - 1
      BY <1>1
    <3> QED
      BY <1>6, <2>4, <3>1 DEF NoFeed
  <2>9. Unescape(line) = Unescape(text) \o CRLF
    BY <2>4, <2>7, BreaksAfter, UnescapeBefore
  <2>10. Normal(Unescape(line)) = Unescape(text) \o CRLF
    BY <2>4, <2>8, <2>9, UnescapeIs, ThenFeed
  <2> QED
    BY <1>2, <1>3, <1>5, <1>11, <2>4, <2>10
<1>12. CASE line[n] = "LF" /\ ~Ends(line, CRLF)
  <2>1. /\ text \in Seq(Octets) /\ Len(text) = n - 1
        /\ \A i \in 1 .. n - 1 : text[i] = line[i]
        /\ line = Append(text, "LF")
    BY <1>7, <1>9, <1>12
  <2>2. NoFeed(text)
    BY <1>6, <2>1 DEF NoFeed
  <2>3. line = text \o <<"LF">>
    <3>1. "LF" \in Octets
      BY DEF Octets
    <3> QED
      BY <2>1, <3>1, AppendIs
  <2>4. End(text) # "CR"
    <3>1. DOMAIN text = 1 .. n - 1
      BY <2>1, LenProperties
    <3>2. End(text) = "CR" => n - 1 \in 1 .. n - 1 /\ text[n - 1] = "CR"
      BY <2>1, <3>1 DEF End, At
    <3>3. n - 1 \in 1 .. n - 1 => text[n - 1] = line[n - 1] /\ n >= 2
      BY <1>1, <2>1
    <3> QED
      BY <1>3, <1>12, <3>2, <3>3
  <2>5. Unescape(line) = Unescape(text) \o <<"LF">>
    BY <2>1, <2>3, BreaksAfter, UnescapeBefore
  <2>6. Normal(Unescape(line)) = Unescape(text) \o CRLF
    BY <2>1, <2>2, <2>4, <2>5, UnescapeIs, ThenFeed
  <2> QED
    BY <1>2, <1>5, <1>12, <2>1, <2>6
<1>13. CASE line[n] # "LF"
  <2>1. NoFeed(line)
    <3>1. \A i \in 1 .. n : i \in 1 .. n - 1 \/ i = n
      BY <1>1
    <3> QED
      BY <1>6, <1>13, <3>1 DEF NoFeed, n
  <2>2. Normal(Unescape(line)) = Unescape(line)
    BY <2>1, UnescapeIs, NormalNoFeed
  <2> QED
    BY <1>2, <1>5, <1>10, <1>13, <2>2
<1> QED
  BY <1>3, <1>11, <1>12, <1>13

-----------------------------------------------------------------------------
(* The members of a set of numbers, in order. *)

Upto(S, k) == {j \in S : j <= k}
Rank(S, k) == Cardinality(Upto(S, k))

LEMMA RankIs ==
  ASSUME NEW n \in Nat, NEW S \in SUBSET (1 .. n)
  PROVE  /\ IsFiniteSet(S) /\ Cardinality(S) \in Nat
         /\ \A k \in Int : Rank(S, k) \in Nat
         /\ Rank(S, 0) = 0 /\ Rank(S, n) = Cardinality(S)
         /\ \A k \in 0 .. n - 1 : Rank(S, k + 1) = IF k + 1 \in S THEN Rank(S, k) + 1 ELSE Rank(S, k)
<1>0. \A i \in S : i \in Int /\ 1 <= i /\ i <= n
  OBVIOUS
<1>1. IsFiniteSet(S) /\ Cardinality(S) \in Nat
  <2>1. IsFiniteSet(1 .. n)
    BY FS_Interval
  <2>2. IsFiniteSet(S)
    BY <2>1, FS_Subset
  <2> QED
    BY <2>2, FS_CardinalityType
<1>2. ASSUME NEW k \in Int PROVE IsFiniteSet(Upto(S, k)) /\ Rank(S, k) \in Nat
  <2>1. Upto(S, k) \in SUBSET S
    BY DEF Upto
  <2>2. IsFiniteSet(Upto(S, k))
    BY <1>1, <2>1, FS_Subset
  <2> QED
    BY <2>2, FS_CardinalityType DEF Rank
<1>3. Rank(S, 0) = 0
  <2>1. \A i \in S : ~(i <= 0)
    BY <1>0
  <2>2. Upto(S, 0) = {}
    BY <2>1 DEF Upto
  <2> QED
    BY <2>2, FS_EmptySet DEF Rank
<1>4. Rank(S, n) = Cardinality(S)
  <2>1. Upto(S, n) = S
    BY <1>0 DEF Upto
  <2> QED
    BY <2>1 DEF Rank
<1>5. ASSUME NEW k \in 0 .. n - 1
      PROVE  Rank(S, k + 1) = IF k + 1 \in S THEN Rank(S, k) + 1 ELSE Rank(S, k)
  <2>0. /\ \A i \in S : i <= k + 1 <=> i <= k \/ i = k + 1
        /\ ~(k + 1 <= k) /\ k + 1 <= k + 1
    BY <1>0
  <2>1. IsFiniteSet(Upto(S, k))
    BY <1>2
  <2>2. CASE k + 1 \in S
    <3>1. Upto(S, k + 1) = Upto(S, k) \cup {k + 1} /\ k + 1 \notin Upto(S, k)
      BY <2>0, <2>2 DEF Upto
    <3> QED
      BY <2>1, <2>2, <3>1, FS_AddElement DEF Rank
  <2>3. CASE k + 1 \notin S
    <3>1. Upto(S, k + 1) = Upto(S, k)
      BY <2>0, <2>3 DEF Upto
    <3> QED
      BY <2>3, <3>1 DEF Rank
  <2> QED
    BY <2>2, <2>3
<1> QED
  BY <1>1, <1>2, <1>3, <1>4, <1>5

LEMMA RankGrows ==
  ASSUME NEW n \in Nat, NEW S \in SUBSET (1 .. n), NEW i \in S, NEW j \in S, i < j
  PROVE  Rank(S, i) # Rank(S, j)
<1>1. IsFiniteSet(Upto(S, j))
  <2>1. IsFiniteSet(S) /\ Upto(S, j) \in SUBSET S
    BY RankIs DEF Upto
  <2> QED
    BY <2>1, FS_Subset
<1>2. Upto(S, i) \in SUBSET Upto(S, j) /\ j \in Upto(S, j) /\ j \notin Upto(S, i)
  <2>1. \A k \in S : k \in Int
    OBVIOUS
  <2>2. (\A k \in S : k <= i => k <= j) /\ j <= j /\ ~(j <= i)
    BY <2>1
  <2> QED
    BY <2>2 DEF Upto
<1> QED
  BY <1>1, <1>2, FS_Subset DEF Rank

LEMMA NthAt ==
  ASSUME NEW n \in Nat, NEW S \in SUBSET (1 .. n), NEW i \in S
  PROVE  Nth(S, Rank(S, i)) = i
<1> DEFINE m == Nth(S, Rank(S, i))
<1>1. m \in S /\ Rank(S, m) = Rank(S, i)
  <2>1. m = CHOOSE j \in S : Rank(S, j) = Rank(S, i)
    BY DEF Nth, Rank, Upto
  <2>2. \E j \in S : Rank(S, j) = Rank(S, i)
    OBVIOUS
  <2> QED
    BY <2>1, <2>2
<1> HIDE DEF m
<1>2. ~(m < i) /\ ~(i < m)
  BY <1>1, RankGrows
<1>3. m = i
  BY <1>1, <1>2
<1> QED
  BY <1>3 DEF m

-----------------------------------------------------------------------------
(* The loop of LoadMbox. *)

Gathering == [done : Seq(Seq(Octets)), cur : Seq(Octets)]
GathersTo(g, lines) ==
  /\ g[0] = [done |-> <<>>, cur |-> <<>>]
  /\ \A i \in 1 .. Len(lines) : g[i] = TakeLine(g[i - 1], lines[i])

LEMMA FlushType ==
  ASSUME NEW a \in Gathering
  PROVE  Flush(a) \in Seq(Seq(Octets))
<1>1. a.done \in Seq(Seq(Octets)) /\ a.cur \in Seq(Octets)
  BY DEF Gathering
<1>2. Add(a.cur) \in Seq(Octets)
  BY <1>1, AddIs
<1>3. Append(a.done, Add(a.cur)) \in Seq(Seq(Octets))
  BY <1>1, <1>2, AppendIs
<1> QED
  BY <1>1, <1>3 DEF Flush

LEMMA TakeLineIs ==
  ASSUME NEW a \in Gathering, NEW line \in Seq(Octets)
  PROVE  /\ TakeLine(a, line) \in Gathering
         /\ Separates(line) => TakeLine(a, line).done = Flush(a) /\ TakeLine(a, line).cur = <<>>
         /\ ~Separates(line) => /\ TakeLine(a, line).done = a.done
                                /\ TakeLine(a, line).cur = a.cur \o Unescape(line)
<1>1. a.done \in Seq(Seq(Octets)) /\ a.cur \in Seq(Octets)
  BY DEF Gathering
<1>2. Unescape(line) \in Seq(Octets)
  BY UnescapeIs
<1>3. a.cur \o Unescape(line) \in Seq(Octets)
  BY <1>1, <1>2, ConcatProperties
<1>4. CASE Separates(line)
  <2>1. TakeLine(a, line) = [done |-> Flush(a), cur |-> <<>>]
    BY <1>4 DEF TakeLine, Separates
  <2> QED
    BY <1>4, <2>1, FlushType, Short DEF Gathering
<1>5. CASE ~Separates(line)
  <2>1. TakeLine(a, line) = [done |-> a.done, cur |-> a.cur \o Unescape(line)]
    BY <1>5 DEF TakeLine, Separates, Gathering
  <2> QED
    BY <1>1, <1>3, <1>5, <2>1 DEF Gathering
<1> QED
  BY <1>4, <1>5

LEMMA MessagesGathered ==
  ASSUME NEW s \in Seq(Octets)
  PROVE  \E g : GathersTo(g, LinesOf(s)) /\ MessagesOf(s) = Flush(g[Len(LinesOf(s))])
<1> DEFINE lines == LinesOf(s)
           n == Len(lines)
           Computes(g) == g = [i \in 0 .. Len(LinesOf(s)) |->
                                 IF i = 0 THEN [done |-> <<>>, cur |-> <<>>]
                                 ELSE TakeLine(g[i - 1], LinesOf(s)[i])]
           z == [done |-> <<>>, cur |-> <<>>]
           step == [i \in 1 .. n |-> [a \in Gathering |-> TakeLine(a, lines[i])]]
           h == CHOOSE g : Computes(g)
<1>1. n \in Nat /\ \A i \in 1 .. n : lines[i] \in Seq(Octets)
  <2>1. lines \in Seq(Seq(Octets)) /\ n \in Nat
    BY LinesAre
  <2> HIDE DEF lines
  <2> QED
    BY <2>1, ElementOfSeq
<1>2. z \in Gathering
  BY Short, EmptySeq DEF Gathering
<1>3. step \in [1 .. n -> [Gathering -> Gathering]]
  <2>1. \A i \in 1 .. n : \A a \in Gathering : TakeLine(a, lines[i]) \in Gathering
    <3> HIDE DEF lines, n
    <3> QED
      BY <1>1, TakeLineIs
  <2> QED
    BY <2>1
<1>4. \E g : Computes(g)
  <2> HIDE DEF step, z, n, lines
  <2>1. PICK f \in [0 .. n -> Gathering] : f[0] = z /\ \A i \in 1 .. n : f[i] = step[i][f[i - 1]]
    <3>1. n \in Nat /\ step \in [1 .. n -> [Gathering -> Gathering]]
      BY <1>1, <1>3
    <3> QED
      BY <1>2, <3>1, Iteration
  <2>2. ASSUME NEW i \in 1 .. n PROVE f[i] = TakeLine(f[i - 1], lines[i])
    <3>1. i - 1 \in 0 .. n
      BY <1>1
    <3>2. f[i - 1] \in Gathering
      BY <2>1, <3>1
    <3>3. step[i][f[i - 1]] = TakeLine(f[i - 1], lines[i])
      BY <3>2 DEF step
    <3> QED
      BY <2>1, <3>3
  <2>3. f = [i \in 0 .. n |-> f[i]]
    OBVIOUS
  <2>4. \A i \in 0 .. n :
          f[i] = IF i = 0 THEN [done |-> <<>>, cur |-> <<>>] ELSE TakeLine(f[i - 1], lines[i])
    <3>1. \A i \in 0 .. n : i = 0 \/ i \in 1 .. n
      BY <1>1
    <3> QED
      BY <2>1, <2>2, <3>1 DEF z
  <2>5. Computes(f)
    BY <2>3, <2>4 DEF n, lines
  <2> QED
    BY <2>5
<1>5. Computes(h)
  BY <1>4
<1>6. MessagesOf(s) = Flush(h[n])
  BY DEF MessagesOf
<1> HIDE DEF h
<1>7. GathersTo(h, lines)
  <2>1. 0 \in 0 .. n /\ \A i \in 1 .. n : i \in 0 .. n /\ i # 0
    BY <1>1
  <2> QED
    BY <1>5, <2>1 DEF GathersTo
<1> QED
  BY <1>6, <1>7

(* The lines from a to b, each as it was.                                  *)
Joined(lines, a, b) == FlattenSeq([i \in 1 .. b - a + 1 |-> Original(lines[a + i - 1])])

LEMMA JoinedIs ==
  ASSUME NEW lines \in Seq(Seq(Octets)), \A i \in 1 .. Len(lines) : IsLine(lines[i]),
         NEW a \in 1 .. Len(lines), NEW b \in Int, a <= b + 1, b <= Len(lines)
  PROVE  /\ Joined(lines, a, b) \in Seq(Octets)
         /\ b < Len(lines) => Joined(lines, a, b + 1) = Joined(lines, a, b) \o Original(lines[b + 1])
         /\ b + 1 = a => Joined(lines, a, b) = <<>>
<1> DEFINE m == b - a + 1
           p == [i \in 1 .. m |-> Original(lines[a + i - 1])]
           q == [i \in 1 .. m + 1 |-> Original(lines[a + i - 1])]
<1>1. Len(lines) \in Nat /\ m \in Nat
  BY LenProperties
<1>2. \A i \in 1 .. Len(lines) : lines[i] \in Seq(Octets) /\ Original(lines[i]) \in Seq(Octets)
  <2>1. \A i \in 1 .. Len(lines) : lines[i] \in Seq(Octets)
    BY ElementOfSeq
  <2> QED
    BY <2>1, LineIs
<1>3. p \in [1 .. m -> Seq(Octets)]
  <2>1. \A i \in 1 .. m : a + i - 1 \in 1 .. Len(lines)
    BY <1>1
  <2> QED
    BY <1>2, <2>1
<1>4. FlattenSeq(p) \in Seq(Octets)
  <2> HIDE DEF p, m
  <2>1. p \in Seq(Seq(Octets))
    BY <1>1, <1>3 DEF Seq
  <2> QED
    BY <2>1, FlattenType
<1>5. ASSUME b < Len(lines) PROVE FlattenSeq(q) = FlattenSeq(p) \o Original(lines[b + 1])
  <2>1. q \in [1 .. m + 1 -> Seq(Octets)]
    <3>1. \A i \in 1 .. m + 1 : a + i - 1 \in 1 .. Len(lines)
      BY <1>1, <1>5
    <3> QED
      BY <1>2, <3>1
  <2>2. \A i \in 1 .. m : q[i] = p[i]
    BY <1>1
  <2>3. q[m + 1] = Original(lines[b + 1])
    <3>1. m + 1 \in 1 .. m + 1 /\ a + (m + 1) - 1 = b + 1
      BY <1>1
    <3> QED
      BY <3>1
  <2> HIDE DEF p, q, m
  <2> QED
    BY <1>1, <1>3, <2>1, <2>2, <2>3, PiecesGrow
<1>6. Joined(lines, a, b) = FlattenSeq(p) /\ Joined(lines, a, b + 1) = FlattenSeq(q)
  <2>1. (b + 1) - a + 1 = m + 1
    BY <1>1
  <2> QED
    BY <2>1 DEF Joined
<1>7. b + 1 = a => FlattenSeq(p) = <<>>
  <2> SUFFICES ASSUME b + 1 = a PROVE FlattenSeq(p) = <<>>
    OBVIOUS
  <2>1. m = 0
    OBVIOUS
  <2>2. p = <<>>
    BY <2>1
  <2> QED
    BY <2>2, FlattenNil
<1> HIDE DEF p, q
<1> QED
  BY <1>4, <1>5, <1>6, <1>7

Texts(lines) ==
  /\ lines \in Seq(Seq(Octets))
  /\ \A i \in 1 .. Len(lines) : IsLine(lines[i])
  /\ \A i \in 1 .. Len(lines) - 1 : End(lines[i]) = "LF"

LEMMA StartsAre ==
  ASSUME NEW lines, Texts(lines)
  PROVE  /\ Len(lines) \in Nat
         /\ \A i \in 1 .. Len(lines) : lines[i] \in Seq(Octets) /\ IsLine(lines[i])
         /\ Starts(lines) \in SUBSET (1 .. Len(lines))
         /\ \A i \in 1 .. Len(lines) :
              i \in Starts(lines) <=> ~Separates(lines[i]) /\ (i = 1 \/ Separates(lines[i - 1]))
<1>1. Len(lines) \in Nat /\ DOMAIN lines = 1 .. Len(lines)
  BY LenProperties DEF Texts
<1>2. \A i \in 1 .. Len(lines) : lines[i] \in Seq(Octets)
  BY ElementOfSeq DEF Texts
<1> QED
  BY <1>1, <1>2 DEF Starts, Texts

LEMMA RunIs ==
  ASSUME NEW lines, Texts(lines),
         NEW st \in 1 .. Len(lines), NEW k \in st .. Len(lines),
         \A i \in st .. k : ~Separates(lines[i]),
         k = Len(lines) \/ Separates(lines[k + 1])
  PROVE  Filed(RunFrom(lines, st)) = TrimRight(Joined(lines, st, k)) \o CRLF
<1> DEFINE T == {j \in st .. Len(lines) : \A i \in st .. j : ~Separates(lines[i])}
           run == SubSeq(lines, st, k)
<1>1. Len(lines) \in Nat /\ \A i \in 1 .. Len(lines) : lines[i] \in Seq(Octets)
  BY StartsAre
<1>2. Max(T) = k
  <2>1. T \in SUBSET Int /\ k \in Int /\ k \in T
    BY <1>1
  <2>2. ASSUME NEW j \in T PROVE j <= k
    <3> SUFFICES ASSUME k < j PROVE FALSE
      BY <1>1
    <3>1. k + 1 \in st .. j /\ k # Len(lines)
      BY <1>1
    <3>2. ~Separates(lines[k + 1])
      BY <3>1
    <3> QED
      BY <3>1, <3>2
  <2> HIDE DEF T
  <2> QED
    BY <2>1, <2>2, LargestOf
<1>3. RunFrom(lines, st) = run
  BY <1>2 DEF RunFrom
<1>4. /\ run \in Seq(Seq(Octets)) /\ Len(run) = k - st + 1
      /\ \A i \in 1 .. k - st + 1 : run[i] = lines[st + i - 1]
  <2>1. \A i \in st .. k : lines[i] \in Seq(Octets)
    BY <1>1
  <2>2. st \in Int /\ k \in Int /\ st <= k
    BY <1>1
  <2> QED
    BY <2>1, <2>2, SubSeqProperties
<1> HIDE DEF run
<1>5. DOMAIN run = 1 .. k - st + 1
  BY <1>4, LenProperties
<1>6. FlattenSeq([i \in DOMAIN run |-> Original(run[i])]) = Joined(lines, st, k)
  <2>1. [i \in DOMAIN run |-> Original(run[i])]
          = [i \in 1 .. k - st + 1 |-> Original(lines[st + i - 1])]
    BY <1>4, <1>5
  <2> QED
    BY <2>1 DEF Joined
<1> QED
  BY <1>3, <1>6 DEF Filed

(* After k lines: what is done, and what the lines since make.             *)
Open(lines, cur, st, k) ==
  /\ st <= k /\ Rank(Starts(lines), st) = Rank(Starts(lines), k)
  /\ \A i \in st .. k : ~Separates(lines[i])
  /\ End(cur) = End(lines[k])
  /\ End(lines[k]) = "LF" => Normal(cur) = Joined(lines, st, k)
  /\ End(lines[k]) # "LF" => Normal(cur) \o CRLF = Joined(lines, st, k)

Closed(lines, k) == k = 0 \/ Separates(lines[k])

Correct(lines, done) ==
  \A j \in 1 .. Len(done) :
    done[j] = Filed(RunFrom(lines, Nth(Starts(lines), j))) /\ WellFormed(done[j])

Loop(lines, a, k) ==
  /\ a \in Gathering /\ Correct(lines, a.done)
  /\ Closed(lines, k) => a.cur = <<>> /\ Len(a.done) = Rank(Starts(lines), k)
  /\ ~Closed(lines, k) => /\ a.cur # <<>> /\ Len(a.done) + 1 = Rank(Starts(lines), k)
                          /\ \E st \in Starts(lines) : Open(lines, a.cur, st, k)

LEMMA FlushLoop ==
  ASSUME NEW lines, Texts(lines), NEW a, NEW k \in 0 .. Len(lines), Loop(lines, a, k),
         k = Len(lines) \/ Separates(lines[k + 1])
  PROVE  /\ Flush(a) \in Seq(Seq(Octets)) /\ Correct(lines, Flush(a))
         /\ Len(Flush(a)) = Rank(Starts(lines), k)
<1> DEFINE S == Starts(lines)
<1>1. a \in Gathering /\ a.done \in Seq(Seq(Octets)) /\ a.cur \in Seq(Octets)
  BY DEF Loop, Gathering
<1>2. CASE Closed(lines, k)
  <2>1. Flush(a) = a.done
    BY <1>2 DEF Flush, Loop
  <2> QED
    BY <1>1, <1>2, <2>1 DEF Loop
<1>3. CASE ~Closed(lines, k)
  <2>1. PICK st \in S : Open(lines, a.cur, st, k)
    BY <1>3 DEF Loop
  <2>2. a.cur # <<>> /\ Len(a.done) + 1 = Rank(S, k)
    BY <1>3 DEF Loop
  <2>3. Flush(a) = Append(a.done, Add(a.cur))
    BY <2>2 DEF Flush
  <2>4. st \in 1 .. Len(lines) /\ Len(lines) \in Nat /\ k \in st .. Len(lines)
    BY <2>1, StartsAre DEF Open
  <2>5. Add(a.cur) = TrimRight(Normal(a.cur)) \o CRLF /\ Add(a.cur) \in Seq(Octets)
        /\ WellFormed(Add(a.cur))
    BY <1>1, AddIs
  <2>6. TrimRight(Joined(lines, st, k)) = TrimRight(Normal(a.cur))
    <3>1. Normal(a.cur) \in Seq(Octets)
      BY <1>1, NormalIs
    <3>2. TrimRight(Normal(a.cur) \o CRLF) = TrimRight(Normal(a.cur))
      BY <3>1, ThenCRLF
    <3> QED
      BY <2>1, <3>2 DEF Open
  <2>7. Filed(RunFrom(lines, st)) = TrimRight(Joined(lines, st, k)) \o CRLF
    BY <2>1, <2>4, RunIs DEF Open
  <2>8. Nth(S, Len(a.done) + 1) = st
    <3>1. S \in SUBSET (1 .. Len(lines)) /\ Rank(S, st) = Len(a.done) + 1
      BY <2>1, <2>2, StartsAre DEF Open
    <3> HIDE DEF S
    <3>2. Nth(S, Rank(S, st)) = st
      BY <2>4, <3>1, NthAt
    <3> QED
      BY <3>1, <3>2
  <2>9. Add(a.cur) = Filed(RunFrom(lines, Nth(S, Len(a.done) + 1)))
    BY <2>5, <2>6, <2>7, <2>8
  <2> DEFINE d == a.done
             e == Add(a.cur)
  <2>10. /\ Append(d, e) \in Seq(Seq(Octets)) /\ Len(Append(d, e)) = Len(d) + 1 /\ Len(d) \in Nat
         /\ \A i \in 1 .. Len(d) : Append(d, e)[i] = d[i]
         /\ Append(d, e)[Len(d) + 1] = e
    BY <1>1, <2>5, AppendIs
  <2>11. \A j \in 1 .. Len(d) : d[j] = Filed(RunFrom(lines, Nth(S, j))) /\ WellFormed(d[j])
    BY DEF Loop, Correct
  <2>12. e = Filed(RunFrom(lines, Nth(S, Len(d) + 1))) /\ WellFormed(e)
    BY <2>5, <2>9
  <2> HIDE DEF d, e
  <2>13. \A j \in 1 .. Len(d) + 1 : j \in 1 .. Len(d) \/ j = Len(d) + 1
    BY <2>10
  <2>14. Correct(lines, Append(d, e))
    BY <2>10, <2>11, <2>12, <2>13 DEF Correct
  <2> QED
    BY <2>2, <2>3, <2>10, <2>14 DEF d, e
<1> QED
  BY <1>2, <1>3

LEMMA TakeLoop ==
  ASSUME NEW lines, Texts(lines), NEW a, NEW k \in 0 .. Len(lines) - 1, Loop(lines, a, k)
  PROVE  Loop(lines, TakeLine(a, lines[k + 1]), k + 1)
<1> DEFINE S == Starts(lines)
           n == Len(lines)
           line == lines[k + 1]
           b == TakeLine(a, line)
<1>1. /\ n \in Nat /\ k \in 0 .. n /\ k + 1 \in 1 .. n /\ (k + 1) - 1 = k /\ S \in SUBSET (1 .. n)
      /\ k + 1 # 0 /\ (k + 1 = 1 <=> k = 0)
  BY StartsAre
<1>2. line \in Seq(Octets) /\ IsLine(line)
  BY <1>1, StartsAre
<1>3. a \in Gathering /\ a.done \in Seq(Seq(Octets)) /\ a.cur \in Seq(Octets)
  BY DEF Loop, Gathering
<1>4. /\ b \in Gathering
      /\ Separates(line) => b.done = Flush(a) /\ b.cur = <<>>
      /\ ~Separates(line) => b.done = a.done /\ b.cur = a.cur \o Unescape(line)
  BY <1>2, <1>3, TakeLineIs
<1>5. k + 1 \in S <=> ~Separates(line) /\ Closed(lines, k)
  BY <1>1, StartsAre DEF Closed
<1>6. /\ Rank(S, k) \in Nat /\ Rank(S, k + 1) \in Nat
      /\ Rank(S, k + 1) = IF k + 1 \in S THEN Rank(S, k) + 1 ELSE Rank(S, k)
  BY <1>1, RankIs
<1>7. Closed(lines, k + 1) <=> Separates(line)
  BY <1>1 DEF Closed
<1>8. Correct(lines, a.done)
  BY DEF Loop
<1> HIDE DEF b, S, n
<1>9. CASE Separates(line)
  <2>1. Correct(lines, Flush(a)) /\ Len(Flush(a)) = Rank(S, k)
    BY <1>1, <1>9, FlushLoop DEF S, n
  <2> QED
    BY <1>4, <1>5, <1>6, <1>7, <1>9, <2>1 DEF Loop, b, S
<1>10. CASE ~Separates(line) /\ Closed(lines, k)
  <2>1. a.cur = <<>> /\ Len(a.done) = Rank(S, k)
    BY <1>10 DEF Loop, S
  <2>2. /\ Unescape(line) \in Seq(Octets) /\ Unescape(line) # <<>>
        /\ End(Unescape(line)) = End(line)
    BY <1>2, UnescapeIs DEF IsLine
  <2>3. b.cur = Unescape(line)
    BY <1>4, <1>10, <2>1, <2>2, ConcatEmptySeq
  <2>4. Joined(lines, k + 1, k + 1) = Original(line)
    <3>1. /\ Joined(lines, k + 1, k) = <<>>
          /\ Joined(lines, k + 1, k + 1) = Joined(lines, k + 1, k) \o Original(lines[k + 1])
      <4>1. /\ lines \in Seq(Seq(Octets)) /\ \A i \in 1 .. Len(lines) : IsLine(lines[i])
            /\ k + 1 \in 1 .. Len(lines) /\ k \in Int /\ k + 1 <= k + 1
            /\ k < Len(lines) /\ k <= Len(lines)
        BY <1>1 DEF Texts, n
      <4> QED
        BY <4>1, JoinedIs
    <3>2. Original(line) \in Seq(Octets)
      BY <1>2, LineIs
    <3> QED
      BY <3>1, <3>2, ConcatEmptySeq
  <2>5. Open(lines, b.cur, k + 1, k + 1)
    <3>1. \A i \in k + 1 .. k + 1 : i = k + 1
      BY <1>1
    <3>2. k + 1 <= k + 1
      BY <1>1
    <3> QED
      BY <1>2, <1>10, <2>2, <2>3, <2>4, <3>1, <3>2, LineIs DEF Open
  <2> QED
    BY <1>4, <1>5, <1>6, <1>7, <1>8, <1>10, <2>1, <2>2, <2>3, <2>5 DEF Loop, b, S
<1>11. CASE ~Separates(line) /\ ~Closed(lines, k)
  <2>1. PICK st \in S : Open(lines, a.cur, st, k)
    BY <1>11 DEF Loop, S
  <2>2. a.cur # <<>> /\ Len(a.done) + 1 = Rank(S, k)
    BY <1>11 DEF Loop, S
  <2> DEFINE u == Unescape(line)
             c == a.cur
             j == Joined(lines, st, k)
  <2>3. u \in Seq(Octets) /\ u # <<>> /\ End(u) = End(line)
    BY <1>2, UnescapeIs DEF IsLine
  <2>4. k \in 1 .. n - 1 /\ k \in 1 .. n
    BY <1>1, <1>11 DEF Closed
  <2>5. End(lines[k]) = "LF" /\ End(c) = "LF" /\ Normal(c) = j
    BY <2>1, <2>4 DEF Open, Texts, n
  <2>6. Normal(c \o u) = j \o Normal(u)
    BY <1>3, <2>3, <2>5, NormalConcat DEF LineStart
  <2>7. End(c \o u) = End(line) /\ c \o u # <<>>
    <3>1. End(c \o u) = End(u) /\ c \o u \in Seq(Octets)
      BY <1>3, <2>3, EndConcat, ConcatProperties
    <3> HIDE DEF u, c
    <3> QED
      BY <2>3, <3>1, EndIs
  <2>8. st \in 1 .. n /\ st <= k
    BY <1>1, <2>1 DEF Open
  <2>9. /\ j \in Seq(Octets) /\ Joined(lines, st, k + 1) = j \o Original(line)
    <3>1. /\ lines \in Seq(Seq(Octets)) /\ \A i \in 1 .. Len(lines) : IsLine(lines[i])
          /\ st \in 1 .. Len(lines) /\ k \in Int /\ st <= k + 1 /\ k < Len(lines) /\ k <= Len(lines)
      BY <1>1, <2>8 DEF Texts, n
    <3> QED
      BY <3>1, JoinedIs
  <2>10. Normal(u) \in Seq(Octets)
    BY <2>3, NormalIs
  <2>11. End(line) = "LF" => Normal(c \o u) = Joined(lines, st, k + 1)
    BY <1>2, <2>6, <2>9, LineIs
  <2>12. End(line) # "LF" => Normal(c \o u) \o CRLF = Joined(lines, st, k + 1)
    <3>1. (j \o Normal(u)) \o CRLF = j \o (Normal(u) \o CRLF)
      BY <2>9, <2>10, Short, ConcatAssociative
    <3> QED
      BY <1>2, <2>6, <2>9, <3>1, LineIs
  <2>13. \A i \in st .. k + 1 : ~Separates(lines[i])
    <3>1. \A i \in st .. k + 1 : i \in st .. k \/ i = k + 1
      BY <1>1, <2>8
    <3> QED
      BY <1>11, <2>1, <3>1 DEF Open
  <2>14. Rank(S, st) = Rank(S, k + 1) /\ st <= k + 1
    BY <1>1, <1>5, <1>6, <1>11, <2>1, <2>8 DEF Open, S
  <2>15. b.cur = c \o u
    BY <1>4, <1>11
  <2> HIDE DEF c, u, j
  <2>16. Open(lines, b.cur, st, k + 1)
    BY <2>7, <2>11, <2>12, <2>13, <2>14, <2>15 DEF Open, S
  <2> QED
    BY <1>4, <1>5, <1>6, <1>7, <1>8, <1>11, <2>2, <2>7, <2>15, <2>16 DEF Loop, b, S
<1> QED
  BY <1>9, <1>10, <1>11

LEMMA LoopAlways ==
  ASSUME NEW lines, Texts(lines), NEW g, GathersTo(g, lines)
  PROVE  Loop(lines, g[Len(lines)], Len(lines))
<1> DEFINE n == Len(lines)
           S == Starts(lines)
           P == {k \in 0 .. n : Loop(lines, g[k], k)}
<1>1. n \in Nat /\ S \in SUBSET (1 .. n)
  BY StartsAre
<1>2. 0 \in P
  <2>1. g[0] = [done |-> <<>>, cur |-> <<>>]
    BY DEF GathersTo
  <2>2. g[0] \in Gathering /\ g[0].done = <<>> /\ g[0].cur = <<>>
    BY <2>1, Short, EmptySeq DEF Gathering
  <2>3. Rank(S, 0) = 0 /\ Closed(lines, 0) /\ Len(<<>>) = 0
    BY <1>1, RankIs, EmptySeq DEF Closed
  <2>4. Loop(lines, g[0], 0)
    BY <2>2, <2>3 DEF Loop, Correct
  <2> QED
    BY <1>1, <2>4
<1>3. ASSUME NEW k \in 0 .. n - 1, k \in P PROVE k + 1 \in P
  <2>1. k + 1 \in 1 .. n /\ k + 1 \in 0 .. n /\ (k + 1) - 1 = k
    BY <1>1
  <2>2. g[k + 1] = TakeLine(g[k], lines[k + 1])
    BY <2>1 DEF GathersTo
  <2>3. Loop(lines, g[k + 1], k + 1)
    BY <1>3, <2>2, TakeLoop
  <2> QED
    BY <2>1, <2>3
<1> HIDE DEF P
<1>4. \A k \in 0 .. n : k \in P
  BY <1>1, <1>2, <1>3, Induction
<1>5. n \in P
  BY <1>1, <1>4
<1> QED
  BY <1>5 DEF P

(* What LoadMbox loads is what the file holds: its messages, in order, as  *)
(* they were before they were escaped, each with lines the wire carries.   *)
THEOREM LoadsAll ==
  ASSUME NEW s \in Seq(Octets)
  PROVE  LET lines == LinesOf(s)
             starts == InOrder(Starts(lines))
         IN  /\ MessagesOf(s) = [k \in DOMAIN starts |-> Filed(RunFrom(lines, starts[k]))]
             /\ MessagesOf(s) \in Seq(Seq(Octets))
             /\ \A k \in 1 .. Len(MessagesOf(s)) : WellFormed(MessagesOf(s)[k])
<1> DEFINE lines == LinesOf(s)
           n == Len(lines)
           S == Starts(lines)
           starts == InOrder(S)
           size == Cardinality(S)
           read == MessagesOf(s)
<1>1. Texts(lines)
  BY LinesAre DEF Texts
<1>2. PICK g : GathersTo(g, lines) /\ read = Flush(g[n])
  BY MessagesGathered
<1> HIDE DEF lines, read
<1>3. n \in Nat /\ S \in SUBSET (1 .. n)
  BY <1>1, StartsAre
<1>4. Loop(lines, g[n], n)
  BY <1>1, <1>2, LoopAlways
<1>5. read \in Seq(Seq(Octets)) /\ Correct(lines, read) /\ Len(read) = Rank(S, n)
  <2>1. n \in 0 .. n
    BY <1>3
  <2> QED
    BY <1>1, <1>2, <1>4, <2>1, FlushLoop
<1> HIDE DEF n
<1>6. Len(read) = size /\ size \in Nat
  BY <1>3, <1>5, RankIs
<1>7. DOMAIN starts = 1 .. size /\ \A k \in 1 .. size : starts[k] = Nth(S, k)
  BY DEF InOrder
<1>8. DOMAIN read = 1 .. size
  BY <1>5, <1>6, LenProperties
<1>9. \A k \in 1 .. size : read[k] = Filed(RunFrom(lines, Nth(S, k))) /\ WellFormed(read[k])
  BY <1>5, <1>6 DEF Correct
<1>10. read = [k \in DOMAIN starts |-> Filed(RunFrom(lines, starts[k]))]
  <2> HIDE DEF S, starts, size
  <2>1. read \in [1 .. size -> Seq(Octets)]
    BY <1>5, <1>6, LenProperties
  <2> QED
    BY <1>7, <1>8, <1>9, <2>1
<1> QED
  BY <1>5, <1>6, <1>9, <1>10 DEF lines, read

-----------------------------------------------------------------------------
(* The run: what it has loaded, and what it has sent. *)

Long(read) == \E i \in DOMAIN read : \E line \in ToSet(LinesOf(read[i])) : TooLong(line)
Sent(k) == messages[((k - 1) % Len(messages)) + 1]

Judged ==
  /\ phase # "given" => (phase = "loaded" <=> MessagesOf(file) # <<>> /\ ~Long(MessagesOf(file)))
  /\ phase = "loaded" => messages = MessagesOf(file) /\ messages # <<>>
  /\ phase # "loaded" => messages = <<>> /\ seq = 0

Delivered ==
  /\ seq \in Nat /\ stored \in Seq(Seq(Octets)) /\ Len(stored) = seq /\ strays = <<>>
  /\ seq <= Len(messages) + Again
  /\ \A k \in 1 .. seq : stored[k] = Sent(k)

LaunchInv ==
  /\ file \in Seq(Octets)
  /\ phase \in {"given", "refused", "loaded"}
  /\ Judged
  /\ Delivered

LEMMA FiledIs ==
  ASSUME file \in Seq(Octets)
  PROVE  FiledMessages = MessagesOf(file)
  BY LoadsAll DEF FiledMessages

LEMMA InitLaunch == Init => LaunchInv
<1> SUFFICES ASSUME Init PROVE LaunchInv
  OBVIOUS
<1>1. file \in Seq(Octets)
  <2>1. "x" \in Octets
    BY DEF Octets
  <2>2. <<"x">> \in Seq(Octets)
    BY <2>1, Short
  <2>3. BoundedSeq(Octets, MaxFile) \subseteq Seq(Octets)
    BY SizesAssumption DEF BoundedSeq, SeqOf, Seq
  <2> QED
    BY <2>2, <2>3 DEF Init
<1>2. phase = "given" /\ messages = <<>> /\ seq = 0 /\ stored = <<>> /\ strays = <<>>
  BY DEF Init, ReplayInit
<1>3. stored \in Seq(Seq(Octets)) /\ Len(stored) = 0 /\ Len(messages) = 0
  BY <1>2, EmptySeq
<1>4. Delivered
  BY <1>2, <1>3, SizesAssumption DEF Delivered
<1> QED
  BY <1>1, <1>2, <1>4 DEF LaunchInv, Judged

LEMMA LoadStep == LaunchInv /\ LoadFile => LaunchInv'
<1> SUFFICES ASSUME LaunchInv, LoadFile PROVE LaunchInv'
  OBVIOUS
<1> DEFINE read == MessagesOf(file)
<1>1. phase = "given" /\ file' = file /\ seq' = seq /\ stored' = stored /\ strays' = strays
  BY DEF LoadFile, Load
<1>2. \/ (read = <<>> \/ Long(read)) /\ phase' = "refused" /\ messages' = messages
      \/ read # <<>> /\ ~Long(read) /\ phase' = "loaded" /\ messages' = read
  BY DEF LoadFile, Load, Long
<1>3. messages = <<>> /\ seq = 0 /\ stored \in Seq(Seq(Octets)) /\ Len(stored) = 0 /\ strays = <<>>
  BY <1>1 DEF LaunchInv, Judged, Delivered
<1>4. read \in Seq(Seq(Octets)) /\ file \in Seq(Octets)
  BY LoadsAll DEF LaunchInv
<1> HIDE DEF read
<1>5. Judged'
  BY <1>1, <1>2, <1>3 DEF Judged, read
<1>6. Len(messages') \in Nat
  BY <1>2, <1>3, <1>4, LenProperties, EmptySeq
<1>7. Delivered'
  BY <1>1, <1>3, <1>6, SizesAssumption DEF Delivered
<1> QED
  BY <1>1, <1>2, <1>4, <1>5, <1>7 DEF LaunchInv

LEMMA DeliverStep == LaunchInv /\ DeliverNext => LaunchInv'
<1> SUFFICES ASSUME LaunchInv, DeliverNext PROVE LaunchInv'
  OBVIOUS
<1> DEFINE m == Len(messages)
           msg == messages[(seq % m) + 1]
<1>1. /\ phase = "loaded" /\ seq < m + Again /\ seq' = seq + 1
      /\ UNCHANGED <<file, phase, messages>>
      /\ stored' = Append(stored, Unstuffed(SubSeq(Wire(msg), 1, DataEnd(msg) - 1)))
      /\ strays' = strays \o SubSeq(Wire(msg), DataEnd(msg) + 3, Len(Wire(msg)))
  BY DEF DeliverNext, Deliver, Wire, DataEnd
<1>2. /\ file \in Seq(Octets) /\ messages = MessagesOf(file) /\ messages # <<>>
      /\ seq \in Nat /\ stored \in Seq(Seq(Octets)) /\ Len(stored) = seq /\ strays = <<>>
      /\ \A k \in 1 .. seq : stored[k] = Sent(k)
  BY <1>1 DEF LaunchInv, Judged, Delivered
<1>3. messages \in Seq(Seq(Octets)) /\ \A k \in 1 .. m : WellFormed(messages[k])
  BY <1>2, LoadsAll
<1>4. m \in Nat \ {0}
  BY <1>2, <1>3, EmptySeq
<1>5. (seq % m) + 1 \in 1 .. m
  <2> HIDE DEF m
  <2>1. seq % m \in 0 .. m - 1
    BY <1>2, <1>4
  <2> QED
    BY <1>4, <2>1
<1>6. msg \in Seq(Octets) /\ WellFormed(msg)
  BY <1>3, <1>5, ElementOfSeq
<1> HIDE DEF msg
<1>7. stored' = Append(stored, msg) /\ strays' = <<>>
  <2>1. /\ Unstuffed(SubSeq(Wire(msg), 1, DataEnd(msg) - 1)) = msg
        /\ SubSeq(Wire(msg), DataEnd(msg) + 3, Len(Wire(msg))) = <<>>
    BY <1>6, WireTransparent
  <2>2. <<>> \o <<>> = <<>>
    BY Short, ConcatEmptySeq
  <2> QED
    BY <1>1, <1>2, <2>1, <2>2
<1>8. /\ stored' \in Seq(Seq(Octets)) /\ Len(stored') = seq + 1
      /\ \A k \in 1 .. seq : stored'[k] = stored[k]
      /\ stored'[seq + 1] = msg
  BY <1>2, <1>6, <1>7, AppendIs
<1>9. msg = Sent(seq + 1)
  <2>1. (seq + 1) - 1 = seq
    BY <1>2
  <2> QED
    BY <2>1 DEF Sent, msg
<1>10. ASSUME NEW k \in 1 .. seq + 1 PROVE stored'[k] = Sent(k)
  <2>1. k \in 1 .. seq \/ k = seq + 1
    BY <1>2
  <2> QED
    BY <1>2, <1>8, <1>9, <2>1
<1>11. \A k : Sent(k)' = Sent(k)
  BY <1>1 DEF Sent
<1>12. Delivered'
  <2>1. seq + 1 \in Nat /\ seq + 1 <= m + Again
    BY <1>1, <1>2, <1>4, SizesAssumption
  <2> QED
    BY <1>1, <1>7, <1>8, <1>10, <1>11, <2>1 DEF Delivered
<1>13. Judged'
  BY <1>1 DEF Judged, LaunchInv
<1> QED
  BY <1>1, <1>2, <1>12, <1>13 DEF LaunchInv

LEMMA StepLaunch == LaunchInv /\ [Next]_launchVars => LaunchInv'
<1> SUFFICES ASSUME LaunchInv, [Next]_launchVars PROVE LaunchInv'
  OBVIOUS
<1>1. CASE LoadFile
  BY <1>1, LoadStep
<1>2. CASE DeliverNext
  BY <1>2, DeliverStep
<1>3. ASSUME UNCHANGED vars PROVE LaunchInv'
  BY <1>3 DEF vars, LaunchInv, Judged, Delivered, Sent
<1>4. CASE Read
  BY <1>3, <1>4 DEF Read
<1>5. CASE Done \/ UNCHANGED launchVars
  BY <1>3, <1>5 DEF Done, launchVars
<1> QED
  BY <1>1, <1>2, <1>4, <1>5 DEF Next

LEMMA LaunchAlways == Spec => []LaunchInv
<1>1. LaunchInv /\ [Next]_launchVars => LaunchInv'
  BY StepLaunch
<1> QED
  BY <1>1, InitLaunch, PTL DEF Spec

(* Whatever the file, the server stores the messages it holds, in their    *)
(* order and over again, and takes nothing of them for a command.          *)
THEOREM SentAsFiled == Spec => []StoredAsFiled
<1>1. LaunchInv => StoredAsFiled
  <2> SUFFICES ASSUME LaunchInv PROVE StoredAsFiled
    OBVIOUS
  <2>1. FiledMessages = MessagesOf(file) /\ strays = <<>>
    BY FiledIs DEF LaunchInv, Delivered
  <2>2. DOMAIN stored = 1 .. seq /\ \A k \in 1 .. seq : stored[k] = Sent(k)
    BY LenProperties DEF LaunchInv, Delivered
  <2>3. CASE phase = "loaded"
    <3>1. messages = MessagesOf(file)
      BY <2>3 DEF LaunchInv, Judged
    <3> QED
      BY <2>1, <2>2, <3>1 DEF StoredAsFiled, Sent
  <2>4. CASE phase # "loaded"
    <3>1. 1 .. seq = {}
      BY <2>4 DEF LaunchInv, Judged
    <3> QED
      BY <2>1, <2>2, <3>1 DEF StoredAsFiled
  <2> QED
    BY <2>3, <2>4
<1> QED
  BY <1>1, LaunchAlways, PTL

(* A file is taken exactly when it holds messages, none with a line too    *)
(* long to send.                                                           *)
THEOREM LoadsWhatIsSendable == Spec => []LoadsWhatCanBeSent
<1>1. LaunchInv => LoadsWhatCanBeSent
  <2> SUFFICES ASSUME LaunchInv PROVE LoadsWhatCanBeSent
    OBVIOUS
  <2>1. FiledMessages = MessagesOf(file)
    BY FiledIs DEF LaunchInv
  <2>2. phase # "given" => (phase = "loaded" <=> MessagesOf(file) # <<>> /\ ~Long(MessagesOf(file)))
    BY DEF LaunchInv, Judged
  <2>3. Long(MessagesOf(file)) <=> \E k \in DOMAIN FiledMessages :
          \E line \in ToSet(LinesOf(FiledMessages[k])) : Len(line) > MaxLineOctets
    BY <2>1 DEF Long, TooLong
  <2> QED
    BY <2>1, <2>2, <2>3 DEF LoadsWhatCanBeSent
<1> QED
  BY <1>1, LaunchAlways, PTL

(* What is loaded, what is sent and what is stored stay what they are      *)
(* declared to be, and a delivery is counted once.                         *)
THEOREM ReplayTypeCorrect == Spec => []TypeOK
<1>1. LaunchInv => TypeOK
  <2> SUFFICES ASSUME LaunchInv PROVE TypeOK
    OBVIOUS
  <2>1. MessagesOf(file) \in Seq(Seq(Octets))
    BY LoadsAll DEF LaunchInv
  <2>2. messages \in Seq(Seq(Octets))
    BY <2>1, EmptySeq DEF LaunchInv, Judged
  <2>3. Len(messages) \in Nat
    BY <2>2, LenProperties
  <2>4. strays \in Seq(Octets)
    BY Short DEF LaunchInv, Delivered
  <2>5. seq \in 0 .. Len(messages) + Again
    BY <2>3, SizesAssumption DEF LaunchInv, Delivered
  <2> QED
    BY <2>2, <2>4, <2>5 DEF LaunchInv, Delivered, TypeOK
<1> QED
  BY <1>1, LaunchAlways, PTL

-----------------------------------------------------------------------------
(* The parts of a list: a part starts where one ends. *)

(* The provers' input has no name for a string that is a comma.            *)
Comma == ","

PartStart(l, e) == Max({0} \cup {c \in Places(l, Comma) : c < e}) + 1
PartEnds(l) == {e \in Places(l, Comma) \cup {Len(l) + 1} : PartStart(l, e) < e}
PartStarts(l) == {a \in DOMAIN l : \E b \in DOMAIN l : IsPart(l, a, b)}
Inside(l, k) == k \in 1 .. Len(l) /\ l[k] # Comma

LEMMA RankNext ==
  ASSUME NEW n \in Nat, NEW S \in SUBSET (1 .. n), NEW k \in 0 .. n - 1
  PROVE  Rank(S, k + 1) = IF k + 1 \in S THEN Rank(S, k) + 1 ELSE Rank(S, k)
<1>1. /\ Rank(S, 0) = 0 /\ Rank(S, n) = Cardinality(S)
      /\ \A i \in 0 .. n - 1 : Rank(S, i + 1) = IF i + 1 \in S THEN Rank(S, i) + 1 ELSE Rank(S, i)
  BY RankIs
<1> QED
  BY <1>1

LEMMA TupleIs ==
  ASSUME NEW X, NEW n \in Nat, NEW f \in [1 .. n -> X]
  PROVE  f \in Seq(X)
  BY IsASeq

LEMMA NthIn ==
  ASSUME NEW n \in Nat, NEW S \in SUBSET (1 .. n), NEW k \in 1 .. Cardinality(S)
  PROVE  Nth(S, k) \in S /\ Rank(S, Nth(S, k)) = k
<1> DEFINE P == {i \in Int : Rank(S, i) >= k => \E j \in S : Rank(S, j) = k}
<1>1. /\ Cardinality(S) \in Nat /\ \A i \in Int : Rank(S, i) \in Nat
      /\ Rank(S, 0) = 0 /\ Rank(S, n) = Cardinality(S)
      /\ \A i \in 0 .. n - 1 : Rank(S, i + 1) = IF i + 1 \in S THEN Rank(S, i) + 1 ELSE Rank(S, i)
  BY RankIs
<1>2. k \in Nat /\ k >= 1 /\ k <= Cardinality(S)
  BY <1>1
<1>3. 0 \in P
  BY <1>1, <1>2
<1>4. ASSUME NEW i \in 0 .. n - 1, i \in P PROVE i + 1 \in P
  <2>1. i \in Int /\ i + 1 \in Int /\ Rank(S, i) \in Nat
    BY <1>1
  <2> SUFFICES ASSUME Rank(S, i + 1) >= k PROVE \E j \in S : Rank(S, j) = k
    BY <2>1
  <2>2. CASE Rank(S, i) >= k
    BY <1>4, <2>2
  <2>3. CASE ~(Rank(S, i) >= k)
    <3>1. i + 1 \in S /\ Rank(S, i + 1) = k
      BY <1>1, <1>2, <2>1, <2>3
    <3> QED
      BY <3>1
  <2> QED
    BY <2>2, <2>3
<1>5. n \in P
  <2> HIDE DEF P
  <2>1. \A i \in 0 .. n - 1 : i \in P => i + 1 \in P
    BY <1>4
  <2>2. \A i \in 0 .. n : i \in P
    BY <1>3, <2>1, Induction
  <2> QED
    BY <2>2
<1>6. \E j \in S : Rank(S, j) = k
  BY <1>1, <1>2, <1>5
<1>7. Nth(S, k) = CHOOSE j \in S : Rank(S, j) = k
  BY DEF Nth, Rank, Upto
<1> QED
  BY <1>6, <1>7

LEMMA IsPartMeans ==
  ASSUME NEW l, NEW a, NEW b
  PROVE  IsPart(l, a, b) <=> /\ a <= b /\ \A i \in a .. b : l[i] # Comma
                             /\ a = 1 \/ l[a - 1] = Comma
                             /\ b = Len(l) \/ l[b + 1] = Comma
  BY Zenon DEF IsPart, Comma

LEMMA PlacesIs ==
  ASSUME NEW S, NEW l \in Seq(S), NEW c
  PROVE  /\ Places(l, c) \in SUBSET (1 .. Len(l))
         /\ \A i \in 1 .. Len(l) : i \in Places(l, c) <=> l[i] = c
  BY LenProperties DEF Places

LEMMA PartStartIs ==
  ASSUME NEW S, NEW l \in Seq(S), NEW e \in 1 .. Len(l) + 1
  PROVE  /\ PartStart(l, e) \in 1 .. e
         /\ \A i \in PartStart(l, e) .. e - 1 : i \in 1 .. Len(l) /\ l[i] # Comma
         /\ PartStart(l, e) = 1 \/ l[PartStart(l, e) - 1] = Comma
<1> DEFINE T == {0} \cup {c \in Places(l, Comma) : c < e}
<1>1. Len(l) \in Nat /\ DOMAIN l = 1 .. Len(l)
  BY LenProperties
<1>2. /\ \A c \in T : c \in Int /\ (c = 0 \/ (c \in 1 .. Len(l) /\ c < e))
      /\ \A c \in T : c = 0 \/ l[c] = Comma
      /\ \A c \in 1 .. Len(l) : l[c] = Comma /\ c < e => c \in T
      /\ 0 \in T
  BY <1>1, PlacesIs
<1> HIDE DEF T
<1>3. T \in SUBSET (0 .. e - 1) /\ T \in SUBSET Int /\ T # {}
  BY <1>1, <1>2
<1>4. PICK k \in T : \A i \in T : i <= k
  <2>1. e - 1 \in Nat
    BY <1>1
  <2> QED
    BY <1>3, <2>1, LargestNumber
<1>5. Max(T) = k
  BY <1>3, <1>4, LargestOf
<1>6. PartStart(l, e) = k + 1
  BY <1>5 DEF PartStart, T
<1>7. k \in 0 .. e - 1
  BY <1>3
<1>8. ASSUME NEW i \in k + 1 .. e - 1 PROVE i \in 1 .. Len(l) /\ l[i] # Comma
  <2>1. i \in 1 .. Len(l) /\ i < e /\ ~(i <= k)
    BY <1>1, <1>7
  <2> QED
    BY <1>2, <1>4, <2>1
<1>9. k + 1 = 1 \/ l[(k + 1) - 1] = Comma
  <2>1. (k + 1) - 1 = k
    BY <1>7
  <2> QED
    BY <1>2, <2>1
<1> QED
  BY <1>6, <1>7, <1>8, <1>9

LEMMA StartsAt ==
  ASSUME NEW S, NEW l \in Seq(S)
  PROVE  /\ PartStarts(l) \in SUBSET (1 .. Len(l))
         /\ \A a \in 1 .. Len(l) :
              a \in PartStarts(l) <=> l[a] # Comma /\ (a = 1 \/ l[a - 1] = Comma)
<1>1. Len(l) \in Nat /\ DOMAIN l = 1 .. Len(l)
  BY LenProperties
<1>2. ASSUME NEW a \in 1 .. Len(l), a \in PartStarts(l) PROVE l[a] # Comma /\ (a = 1 \/ l[a - 1] = Comma)
  <2>1. PICK b \in 1 .. Len(l) : IsPart(l, a, b)
    BY <1>1, <1>2 DEF PartStarts
  <2>2. a \in a .. b
    BY <1>1, <2>1, IsPartMeans
  <2> QED
    BY <2>1, <2>2, IsPartMeans
<1>3. ASSUME NEW a \in 1 .. Len(l), l[a] # Comma, a = 1 \/ l[a - 1] = Comma PROVE a \in PartStarts(l)
  <2> DEFINE T == {b \in a .. Len(l) : b = Len(l) \/ l[b + 1] = Comma}
  <2>0. \A b \in T : b \in a .. Len(l)
    OBVIOUS
  <2>1. T \in SUBSET Nat /\ Len(l) \in T
    <3>1. T \in SUBSET Nat
      <4> HIDE DEF T
      <4> QED
        BY <1>1, <2>0
    <3>2. Len(l) \in a .. Len(l)
      BY <1>1
    <3> QED
      BY <3>1, <3>2
  <2>2. PICK b \in T : \A m \in T : b <= m
    <3> HIDE DEF T
    <3> QED
      BY <2>1, LeastNumber
  <2>3. b \in a .. Len(l)
    OBVIOUS
  <2>6. b = Len(l) \/ l[b + 1] = Comma
    OBVIOUS
  <2> HIDE DEF T
  <2>4. ASSUME NEW i \in a .. b PROVE l[i] # Comma
    <3>1. CASE i = a
      BY <1>3, <3>1
    <3>2. CASE i # a
      <4>1. i - 1 \in a .. Len(l) /\ ~(b <= i - 1) /\ (i - 1) + 1 = i
        BY <1>1, <2>3, <3>2
      <4>2. i - 1 \notin T
        BY <2>2, <4>1
      <4> QED
        BY <4>1, <4>2 DEF T
    <3> QED
      BY <3>1, <3>2
  <2>5. IsPart(l, a, b) /\ b \in 1 .. Len(l)
    <3>1. a <= b /\ b \in 1 .. Len(l)
      BY <1>1, <2>3
    <3> QED
      BY <1>3, <2>6, <2>4, <3>1, IsPartMeans
  <2> QED
    BY <1>1, <2>5 DEF PartStarts
<1> QED
  BY <1>1, <1>2, <1>3 DEF PartStarts

LEMMA EndsAt ==
  ASSUME NEW S, NEW l \in Seq(S)
  PROVE  /\ PartEnds(l) \in SUBSET (1 .. Len(l) + 1)
         /\ \A e \in 1 .. Len(l) + 1 :
              e \in PartEnds(l) <=> (e = Len(l) + 1 \/ l[e] = Comma) /\ e > 1 /\ l[e - 1] # Comma
<1>1. Len(l) \in Nat /\ DOMAIN l = 1 .. Len(l)
  BY LenProperties
<1>2. PartEnds(l) \in SUBSET (1 .. Len(l) + 1)
  <2>1. \A e \in PartEnds(l) : e \in Places(l, Comma) \/ e = Len(l) + 1
    BY DEF PartEnds
  <2>2. Places(l, Comma) \in SUBSET (1 .. Len(l))
    BY PlacesIs
  <2> QED
    BY <1>1, <2>1, <2>2
<1>3. ASSUME NEW e \in 1 .. Len(l) + 1
      PROVE  e \in PartEnds(l) <=> (e = Len(l) + 1 \/ l[e] = Comma) /\ e > 1 /\ l[e - 1] # Comma
  <2>1. e \in PartEnds(l) <=> (e = Len(l) + 1 \/ l[e] = Comma) /\ PartStart(l, e) < e
    <3>1. e \in Places(l, Comma) \cup {Len(l) + 1} <=> e = Len(l) + 1 \/ l[e] = Comma
      BY <1>1, PlacesIs
    <3> QED
      BY <3>1 DEF PartEnds
  <2>2. /\ PartStart(l, e) \in 1 .. e
        /\ \A i \in PartStart(l, e) .. e - 1 : l[i] # Comma
        /\ PartStart(l, e) = 1 \/ l[PartStart(l, e) - 1] = Comma
    BY PartStartIs
  <2>3. ASSUME PartStart(l, e) < e PROVE e > 1 /\ l[e - 1] # Comma
    <3>1. e - 1 \in PartStart(l, e) .. e - 1 /\ e > 1
      BY <1>1, <2>2, <2>3
    <3> QED
      BY <2>2, <3>1
  <2>4. ASSUME e > 1, l[e - 1] # Comma PROVE PartStart(l, e) < e
    <3>1. PartStart(l, e) # e
      BY <2>2, <2>4
    <3> QED
      BY <1>1, <2>2, <3>1
  <2> QED
    BY <2>1, <2>3, <2>4
<1> QED
  BY <1>2, <1>3

(* So far as many parts have started as have ended, but for the one that   *)
(* is open.                                                                *)
LEMMA RanksAgree ==
  ASSUME NEW S, NEW l \in Seq(S), NEW k \in 0 .. Len(l) + 1
  PROVE  Rank(PartStarts(l), k) = Rank(PartEnds(l), k) + (IF Inside(l, k) THEN 1 ELSE 0)
<1> DEFINE n == Len(l) + 1
           A == PartStarts(l)
           E == PartEnds(l)
           P == {i \in Int : Rank(A, i) = Rank(E, i) + (IF Inside(l, i) THEN 1 ELSE 0)}
<1>1. Len(l) \in Nat /\ n \in Nat
  BY LenProperties
<1>2. A \in SUBSET (1 .. n) /\ E \in SUBSET (1 .. n)
  <2>1. A \in SUBSET (1 .. Len(l))
    BY StartsAt
  <2>2. \A i \in 1 .. Len(l) : i \in 1 .. n
    BY <1>1
  <2> QED
    BY <2>1, <2>2, EndsAt
<1>3. ASSUME NEW i \in 0 .. n - 1
      PROVE  /\ i + 1 \in A <=> Inside(l, i + 1) /\ ~Inside(l, i)
             /\ i + 1 \in E <=> ~Inside(l, i + 1) /\ Inside(l, i)
  <2>1. (i + 1) - 1 = i /\ i + 1 \in 1 .. n
    BY <1>1
  <2>2. i + 1 \in A <=> i + 1 \in 1 .. Len(l) /\ l[i + 1] # Comma /\ (i + 1 = 1 \/ l[i] = Comma)
    BY <2>1, StartsAt
  <2>3. i + 1 \in E <=> (i + 1 = n \/ l[i + 1] = Comma) /\ i + 1 > 1 /\ l[i] # Comma
    BY <2>1, EndsAt
  <2>4. /\ i + 1 = 1 <=> i \notin 1 .. Len(l)
        /\ i + 1 > 1 <=> i \in 1 .. Len(l)
        /\ i + 1 = n <=> i + 1 \notin 1 .. Len(l)
    BY <1>1
  <2> HIDE DEF A, E, n
  <2> QED
    BY <2>2, <2>3, <2>4 DEF Inside
<1> HIDE DEF A, E, n
<1>0. A \in SUBSET (1 .. n)
  BY <1>2
<1>00. E \in SUBSET (1 .. n)
  BY <1>2
<1>4. /\ \A i \in Int : Rank(A, i) \in Nat
      /\ Rank(A, 0) = 0
      /\ \A i \in 0 .. n - 1 : Rank(A, i + 1) = IF i + 1 \in A THEN Rank(A, i) + 1 ELSE Rank(A, i)
  <2>1. \A i \in Int : Rank(A, i) \in Nat
    BY <1>0, <1>1, RankIs
  <2>2. Rank(A, 0) = 0
    BY <1>0, <1>1, RankIs
  <2>3. \A i \in 0 .. n - 1 : Rank(A, i + 1) = IF i + 1 \in A THEN Rank(A, i) + 1 ELSE Rank(A, i)
    <3> SUFFICES ASSUME NEW i \in 0 .. n - 1
                 PROVE  Rank(A, i + 1) = IF i + 1 \in A THEN Rank(A, i) + 1 ELSE Rank(A, i)
      OBVIOUS
    <3> QED
      BY <1>0, <1>1, RankNext
  <2> QED
    BY <2>1, <2>2, <2>3
<1>5. /\ \A i \in Int : Rank(E, i) \in Nat
      /\ Rank(E, 0) = 0
      /\ \A i \in 0 .. n - 1 : Rank(E, i + 1) = IF i + 1 \in E THEN Rank(E, i) + 1 ELSE Rank(E, i)
  <2>1. \A i \in Int : Rank(E, i) \in Nat
    BY <1>00, <1>1, RankIs
  <2>2. Rank(E, 0) = 0
    BY <1>00, <1>1, RankIs
  <2>3. \A i \in 0 .. n - 1 : Rank(E, i + 1) = IF i + 1 \in E THEN Rank(E, i) + 1 ELSE Rank(E, i)
    <3> SUFFICES ASSUME NEW i \in 0 .. n - 1
                 PROVE  Rank(E, i + 1) = IF i + 1 \in E THEN Rank(E, i) + 1 ELSE Rank(E, i)
      OBVIOUS
    <3> QED
      BY <1>00, <1>1, RankNext
  <2> QED
    BY <2>1, <2>2, <2>3
<1>6. 0 \in P
  <2>1. ~Inside(l, 0)
    BY DEF Inside
  <2> QED
    BY <1>4, <1>5, <2>1
<1>7. ASSUME NEW i \in 0 .. n - 1, i \in P PROVE i + 1 \in P
  <2>1. i + 1 \in Int /\ i \in Int /\ Rank(A, i) \in Nat /\ Rank(E, i) \in Nat
    BY <1>4, <1>5
  <2>2. Rank(A, i) = Rank(E, i) + (IF Inside(l, i) THEN 1 ELSE 0)
    BY <1>7
  <2>3. /\ Rank(A, i + 1) = IF i + 1 \in A THEN Rank(A, i) + 1 ELSE Rank(A, i)
        /\ Rank(E, i + 1) = IF i + 1 \in E THEN Rank(E, i) + 1 ELSE Rank(E, i)
    BY <1>4, <1>5
  <2>4. Rank(A, i + 1) = Rank(E, i + 1) + (IF Inside(l, i + 1) THEN 1 ELSE 0)
    BY <1>3, <2>1, <2>2, <2>3
  <2> QED
    BY <2>1, <2>4
<1>8. \A i \in 0 .. n : i \in P
  <2> HIDE DEF P
  <2> QED
    BY <1>1, <1>6, <1>7, Induction
<1>9. k \in P
  BY <1>8 DEF n
<1> QED
  BY <1>9 DEF A, E

LEMMA PartOf ==
  ASSUME NEW S, NEW l \in Seq(S), NEW e \in PartEnds(l)
  PROVE  /\ PartStart(l, e) \in PartStarts(l)
         /\ Rank(PartStarts(l), PartStart(l, e)) = Rank(PartEnds(l), e)
         /\ Min({b \in DOMAIN l : IsPart(l, PartStart(l, e), b)}) = e - 1
         /\ SubSeq(l, PartStart(l, e), e - 1) \in Seq(S)
<1> DEFINE a == PartStart(l, e)
           A == PartStarts(l)
<1>1. Len(l) \in Nat /\ DOMAIN l = 1 .. Len(l)
  BY LenProperties
<1>2. e \in 1 .. Len(l) + 1 /\ (e = Len(l) + 1 \/ l[e] = Comma) /\ e > 1 /\ l[e - 1] # Comma
  BY EndsAt
<1>3. /\ a \in 1 .. e
      /\ \A i \in a .. e - 1 : i \in 1 .. Len(l) /\ l[i] # Comma
      /\ a = 1 \/ l[a - 1] = Comma
  BY <1>2, PartStartIs
<1>4. a < e
  BY DEF PartEnds
<1> HIDE DEF a
<1>5. /\ A \in SUBSET (1 .. Len(l))
      /\ \A i \in 1 .. Len(l) : i \in A <=> l[i] # Comma /\ (i = 1 \/ l[i - 1] = Comma)
  BY StartsAt
<1>6. a \in 1 .. Len(l) /\ a \in a .. e - 1 /\ e - 1 \in 1 .. Len(l) /\ e - 1 \in a .. e - 1
  BY <1>1, <1>2, <1>3, <1>4
<1>7. a \in A
  BY <1>3, <1>5, <1>6
<1>8. Rank(A, e) = Rank(A, a)
  <2> HIDE DEF A
  <2>1. ASSUME NEW j \in A PROVE j <= e <=> j <= a
    <3>1. j \in 1 .. Len(l) /\ l[j] # Comma /\ (j = 1 \/ l[j - 1] = Comma)
      BY <1>5
    <3>2. CASE j = e
      BY <1>1, <1>2, <3>1, <3>2
    <3>3. CASE a < j /\ j < e
      <4>1. j - 1 \in a .. e - 1 /\ j # 1
        BY <1>1, <1>2, <1>6, <3>1, <3>3
      <4> QED
        BY <1>3, <3>1, <4>1
    <3> QED
      BY <1>2, <1>4, <1>6, <3>1, <3>2, <3>3
  <2>2. Upto(A, e) = Upto(A, a)
    BY <2>1 DEF Upto
  <2> QED
    BY <2>2 DEF Rank
<1>9. Rank(A, e) = Rank(PartEnds(l), e)
  <2>1. ~Inside(l, e)
    BY <1>1, <1>2 DEF Inside
  <2>2. e \in 0 .. Len(l) + 1
    BY <1>1, <1>2
  <2>3. Rank(A, e) = Rank(PartEnds(l), e) + 0
    BY <2>1, <2>2, RanksAgree
  <2>4. Rank(PartEnds(l), e) \in Nat
    <3>1. PartEnds(l) \in SUBSET (1 .. Len(l) + 1) /\ Len(l) + 1 \in Nat /\ e \in Int
      BY <1>1, <1>2, EndsAt
    <3> QED
      BY <3>1, RankIs
  <2> QED
    BY <2>3, <2>4
<1>10. Min({b \in DOMAIN l : IsPart(l, a, b)}) = e - 1
  <2> DEFINE T == {b \in DOMAIN l : IsPart(l, a, b)}
  <2>1. (e - 1) + 1 = e /\ (e = Len(l) + 1 => e - 1 = Len(l)) /\ a <= e - 1
    BY <1>1, <1>2, <1>6
  <2>2. e - 1 \in T
    BY <1>1, <1>2, <1>3, <1>6, <2>1, IsPartMeans
  <2>3. ASSUME NEW b \in T PROVE e - 1 <= b
    <3>1. b \in 1 .. Len(l) /\ a <= b /\ (b = Len(l) \/ l[b + 1] = Comma)
      BY <1>1, IsPartMeans
    <3>2. CASE b < e - 1
      <4>1. b + 1 \in a .. e - 1 /\ b # Len(l)
        BY <1>1, <1>2, <1>6, <3>1, <3>2
      <4> QED
        BY <1>3, <3>1, <4>1
    <3> QED
      BY <1>6, <3>1, <3>2
  <2>4. T \in SUBSET Int /\ e - 1 \in Int
    BY <1>1, <1>2
  <2> HIDE DEF T
  <2>5. Min(T) = e - 1
    BY <2>2, <2>3, <2>4, SmallestOf
  <2> QED
    BY <2>5 DEF T
<1>11. SubSeq(l, a, e - 1) \in Seq(S)
  BY <1>6, SubSeqProperties
<1> QED
  BY <1>7, <1>8, <1>9, <1>10, <1>11 DEF a

(* expandRecipients cuts a list into the parts it has, in their order.     *)
THEOREM PartsAre ==
  ASSUME NEW S, NEW l \in Seq(S)
  PROVE  /\ Parts(l) = PartsOf(l)
         /\ Parts(l) \in Seq(Seq(S))
<1> DEFINE A == PartStarts(l)
           E == PartEnds(l)
           piece(a) == SubSeq(l, a, Min({b \in DOMAIN l : IsPart(l, a, b)}))
<1>1. Len(l) \in Nat /\ Len(l) + 1 \in Nat
  BY LenProperties
<1>2. A \in SUBSET (1 .. Len(l) + 1) /\ E \in SUBSET (1 .. Len(l) + 1)
  <2>1. A \in SUBSET (1 .. Len(l))
    BY StartsAt
  <2>2. \A i \in 1 .. Len(l) : i \in 1 .. Len(l) + 1
    BY <1>1
  <2> QED
    BY <2>1, <2>2, EndsAt
<1>3. Cardinality(A) = Cardinality(E) /\ Cardinality(E) \in Nat
  <2> HIDE DEF A, E
  <2>1. Rank(A, Len(l) + 1) = Cardinality(A)
    BY <1>1, <1>2, RankIs
  <2>2. Rank(E, Len(l) + 1) = Cardinality(E) /\ Cardinality(E) \in Nat
    BY <1>1, <1>2, RankIs
  <2>3. ~Inside(l, Len(l) + 1) /\ Len(l) + 1 \in 0 .. Len(l) + 1
    BY <1>1 DEF Inside
  <2>4. Rank(A, Len(l) + 1) = Rank(E, Len(l) + 1) + 0
    BY <2>3, RanksAgree DEF A, E
  <2> QED
    BY <2>1, <2>2, <2>4
<1>4. ASSUME NEW k \in 1 .. Cardinality(E)
      PROVE  /\ piece(Nth(A, k)) = SubSeq(l, PartStart(l, Nth(E, k)), Nth(E, k) - 1)
             /\ SubSeq(l, PartStart(l, Nth(E, k)), Nth(E, k) - 1) \in Seq(S)
  <2> DEFINE e == Nth(E, k)
             a == PartStart(l, e)
  <2>1. e \in E /\ Rank(E, e) = k
    BY <1>1, <1>2, NthIn
  <2> HIDE DEF e
  <2>2. /\ a \in A /\ Rank(A, a) = Rank(E, e)
        /\ Min({b \in DOMAIN l : IsPart(l, a, b)}) = e - 1
        /\ SubSeq(l, a, e - 1) \in Seq(S)
    BY <2>1, PartOf
  <2> HIDE DEF a
  <2>3. Nth(A, k) = a
    <3> HIDE DEF A
    <3>1. Nth(A, Rank(A, a)) = a
      BY <1>1, <1>2, <2>2, NthAt
    <3> QED
      BY <2>1, <2>2, <3>1
  <2> QED
    BY <2>2, <2>3 DEF e, a
<1>5. Parts(l) = [k \in 1 .. Cardinality(E) |-> SubSeq(l, PartStart(l, Nth(E, k)), Nth(E, k) - 1)]
  <2>1. InOrder(E) = [k \in 1 .. Cardinality(E) |-> Nth(E, k)]
    BY DEF InOrder
  <2>2. Parts(l) = [k \in DOMAIN InOrder(E) |-> SubSeq(l, PartStart(l, InOrder(E)[k]), InOrder(E)[k] - 1)]
    BY Zenon DEF Parts, PartStart, PartEnds, Comma
  <2> HIDE DEF E
  <2> QED
    BY <2>1, <2>2
<1>6. PartsOf(l) = [k \in 1 .. Cardinality(A) |-> piece(Nth(A, k))]
  <2>1. InOrder(A) = [k \in 1 .. Cardinality(A) |-> Nth(A, k)]
    BY DEF InOrder
  <2>2. PartsOf(l) = [k \in DOMAIN InOrder(A) |-> piece(InOrder(A)[k])]
    BY DEF PartsOf, PartStarts
  <2> HIDE DEF A, piece
  <2> QED
    BY <2>1, <2>2
<1> HIDE DEF A, E, piece
<1>7. Parts(l) = PartsOf(l)
  BY <1>3, <1>4, <1>5, <1>6
<1>8. Parts(l) \in Seq(Seq(S))
  <2>1. Parts(l) \in [1 .. Cardinality(E) -> Seq(S)]
    <3>1. \A k \in 1 .. Cardinality(E) : SubSeq(l, PartStart(l, Nth(E, k)), Nth(E, k) - 1) \in Seq(S)
      BY <1>4
    <3> QED
      BY <1>5, <3>1
  <2> QED
    <3>1. Cardinality(E) \in Nat
      BY <1>3
    <3> QED
      BY <2>1, <3>1, TupleIs
<1> QED
  BY <1>7, <1>8

-----------------------------------------------------------------------------
(* Numbers, as they are written and as the program holds them. *)

AtSign == "@"
ColonSign == ":"
Digits == ToSet(DigitSeq)

LEMMA DigitsAre ==
  /\ AtSign \notin Digits /\ ColonSign \notin Digits /\ AtSign # ColonSign
  /\ DOMAIN DigitSeq = 1 .. 10
  /\ DigitSeq[1] = "0"
  /\ \A d \in Digits : Digit(d) \in 0 .. 9 /\ (Digit(d) = 0 => d = "0")
<1>1. DOMAIN DigitSeq = 1 .. 10 /\ DigitSeq[1] = "0"
  BY DEF DigitSeq
<1>2. \A d \in Digits : d \in {"0", "1", "2", "3", "4", "5", "6", "7", "8", "9"}
  <2>1. \A i \in 1 .. 10 : DigitSeq[i] \in {"0", "1", "2", "3", "4", "5", "6", "7", "8", "9"}
    BY DEF DigitSeq
  <2> QED
    BY <1>1, <2>1 DEF Digits, ToSet
<1>3. AtSign \notin Digits
  <2>1. AtSign \notin {"0", "1", "2", "3", "4", "5", "6", "7", "8", "9"}
    BY Zenon DEF AtSign
  <2> QED
    BY <1>2, <2>1
<1>4. ColonSign \notin Digits
  <2>1. ColonSign \notin {"0", "1", "2", "3", "4", "5", "6", "7", "8", "9"}
    BY Zenon DEF ColonSign
  <2> QED
    BY <1>2, <2>1
<1>5. AtSign # ColonSign
  BY Zenon DEF AtSign, ColonSign
<1>6. ASSUME NEW d \in Digits PROVE Digit(d) \in 0 .. 9 /\ (Digit(d) = 0 => d = "0")
  <2> DEFINE i == CHOOSE j \in DOMAIN DigitSeq : DigitSeq[j] = d
  <2>1. \E j \in DOMAIN DigitSeq : DigitSeq[j] = d
    BY DEF Digits, ToSet
  <2>2. i \in 1 .. 10 /\ DigitSeq[i] = d
    BY <1>1, <2>1
  <2>3. Digit(d) = i - 1
    BY DEF Digit
  <2> HIDE DEF i
  <2>4. i - 1 = 0 => i = 1
    BY <2>2
  <2> QED
    BY <1>1, <2>2, <2>3, <2>4
<1> QED
  BY <1>1, <1>3, <1>4, <1>5, <1>6

LEMMA NumeralMeans ==
  ASSUME NEW S, NEW s \in Seq(S)
  PROVE  IsNumeral(s) <=> \A i \in 1 .. Len(s) : s[i] \in Digits
<1>1. DOMAIN s = 1 .. Len(s)
  BY LenProperties
<1> QED
  BY <1>1 DEF IsNumeral, Digits, ToSet

Numbers == Nat

LEMMA NumbersIteration ==
  ASSUME NEW z \in Numbers, NEW n \in Nat, NEW step \in [1 .. n -> [Numbers -> Numbers]]
  PROVE  \E f \in [0 .. n -> Numbers] : f[0] = z /\ \A i \in 1 .. n : f[i] = step[i][f[i - 1]]
  BY Iteration

LEMMA Counting ==
  ASSUME NEW z, z = 0, NEW n \in Nat, NEW step \in [1 .. n -> [Nat -> Nat]]
  PROVE  \E f \in [0 .. n -> Nat] : f[0] = z /\ \A i \in 1 .. n : f[i] = step[i][f[i - 1]]
<1>1. z \in Numbers
  BY DEF Numbers
<1>2. step \in [1 .. n -> [Numbers -> Numbers]]
  BY DEF Numbers
<1>3. \E f \in [0 .. n -> Numbers] : f[0] = z /\ \A i \in 1 .. n : f[i] = step[i][f[i - 1]]
  BY <1>1, <1>2, NumbersIteration
<1> QED
  BY <1>3 DEF Numbers

LEMMA ValueIs ==
  ASSUME NEW S, NEW s \in Seq(S), IsNumeral(s)
  PROVE  /\ Value(s) \in Nat
         /\ s = <<>> => Value(s) = 0
         /\ s # <<>> /\ Value(s) = 0 => s[1] = "0"
<1> DEFINE n == Len(s)
           Computes(f) == f = [i \in 0 .. Len(s) |-> IF i = 0 THEN 0 ELSE 10 * f[i - 1] + Digit(s[i])]
           step == [i \in 1 .. n |-> [a \in Nat |-> 10 * a + Digit(s[i])]]
           z == 0
           h == CHOOSE f : Computes(f)
<1>1. n \in Nat /\ \A i \in 1 .. n : s[i] \in Digits
  BY NumeralMeans, LenProperties
<1>2. \A i \in 1 .. n : Digit(s[i]) \in Nat /\ (Digit(s[i]) = 0 => s[i] = "0")
  BY <1>1, DigitsAre
<1>3. step \in [1 .. n -> [Nat -> Nat]]
  <2>1. \A i \in 1 .. n : \A a \in Nat : 10 * a + Digit(s[i]) \in Nat
    <3> HIDE DEF n
    <3> QED
      BY <1>2
  <2> QED
    BY <2>1
<1>4. PICK f \in [0 .. n -> Nat] : f[0] = 0 /\ \A i \in 1 .. n : f[i] = 10 * f[i - 1] + Digit(s[i])
  <2>0. z = 0
    OBVIOUS
  <2> HIDE DEF step, n, z
  <2>1. PICK f \in [0 .. n -> Nat] : f[0] = z /\ \A i \in 1 .. n : f[i] = step[i][f[i - 1]]
    BY <1>1, <1>3, <2>0, Counting
  <2>2. ASSUME NEW i \in 1 .. n PROVE f[i] = 10 * f[i - 1] + Digit(s[i])
    <3>1. i - 1 \in 0 .. n
      BY <1>1
    <3>2. f[i - 1] \in Nat
      BY <2>1, <3>1
    <3>3. step[i][f[i - 1]] = 10 * f[i - 1] + Digit(s[i])
      BY <3>2 DEF step
    <3> QED
      BY <2>1, <3>3
  <2> QED
    BY <2>0, <2>1, <2>2
<1>5. Computes(f)
  <2>1. f = [i \in 0 .. n |-> f[i]]
    OBVIOUS
  <2>2. \A i \in 0 .. n : f[i] = IF i = 0 THEN 0 ELSE 10 * f[i - 1] + Digit(s[i])
    <3>1. \A i \in 0 .. n : i = 0 \/ i \in 1 .. n
      BY <1>1
    <3> QED
      BY <1>4, <3>1
  <2> QED
    BY <2>1, <2>2 DEF n
<1>6. Computes(h)
  BY <1>5
<1>7. Value(s) = h[n]
  BY DEF Value
<1> HIDE DEF h
<1>8. \A i \in 0 .. n : h[i] = f[i]
  <2> DEFINE P == {i \in 0 .. n : h[i] = f[i]}
  <2>1. h[0] = 0 /\ \A i \in 1 .. n : h[i] = 10 * h[i - 1] + Digit(s[i])
    <3>1. 0 \in 0 .. n /\ \A i \in 1 .. n : i \in 0 .. n /\ i # 0
      BY <1>1
    <3> QED
      BY <1>6, <3>1
  <2>2. 0 \in P
    BY <1>1, <1>4, <2>1
  <2>3. ASSUME NEW i \in 0 .. n - 1, i \in P PROVE i + 1 \in P
    <3>1. i + 1 \in 1 .. n /\ i + 1 \in 0 .. n /\ (i + 1) - 1 = i
      BY <1>1
    <3> QED
      BY <1>4, <2>1, <2>3, <3>1
  <2>4. \A i \in 0 .. n : i \in P
    <3> HIDE DEF P, n
    <3> QED
      BY <1>1, <2>2, <2>3, Induction
  <2> QED
    BY <2>4
<1>9. Value(s) = f[n] /\ f[n] \in Nat
  <2>1. n \in 0 .. n
    BY <1>1
  <2> QED
    BY <1>4, <1>7, <1>8, <2>1
<1>10. s = <<>> => Value(s) = 0
  <2>1. s = <<>> => n = 0
    OBVIOUS
  <2> QED
    BY <1>4, <1>9, <2>1
<1>11. ASSUME s # <<>>, Value(s) = 0 PROVE s[1] = "0"
  <2> DEFINE P == {i \in 0 .. n - 1 : f[i + 1] >= Digit(s[1])}
  <2>1. n >= 1
    BY <1>11, EmptySeq
  <2>2. 0 \in P
    <3>1. 1 \in 1 .. n /\ 1 - 1 = 0 /\ 0 + 1 = 1 /\ 0 \in 0 .. n - 1
      BY <1>1, <2>1
    <3>2. f[1] = 10 * 0 + Digit(s[1])
      BY <1>4, <3>1
    <3> QED
      BY <1>2, <3>1, <3>2
  <2>3. ASSUME NEW i \in 0 .. (n - 1) - 1, i \in P PROVE i + 1 \in P
    <3>1. i + 2 \in 1 .. n /\ i + 1 \in 0 .. n - 1 /\ (i + 2) - 1 = i + 1 /\ (i + 1) + 1 = i + 2
          /\ 1 \in 1 .. n /\ i + 1 \in 0 .. n
      BY <1>1, <2>1
    <3>2. f[i + 2] = 10 * f[i + 1] + Digit(s[i + 2])
      BY <1>4, <3>1
    <3>3. f[i + 1] \in Nat /\ Digit(s[i + 2]) \in Nat /\ Digit(s[1]) \in Nat /\ f[i + 1] >= Digit(s[1])
      BY <1>2, <1>4, <2>3, <3>1
    <3>4. f[i + 2] >= Digit(s[1])
      BY <3>2, <3>3
    <3> QED
      BY <3>1, <3>4
  <2>4. n - 1 \in P
    <3> HIDE DEF P, n
    <3>1. n - 1 \in Nat /\ n - 1 \in 0 .. n - 1
      BY <1>1, <2>1
    <3>2. \A i \in 0 .. n - 1 : i \in P
      BY <2>2, <2>3, <3>1, Induction
    <3> QED
      BY <3>1, <3>2
  <2>5. f[n] >= Digit(s[1])
    <3>1. (n - 1) + 1 = n
      BY <1>1
    <3> QED
      BY <2>4, <3>1
  <2>6. 1 \in 1 .. n
    BY <1>1, <2>1
  <2>7. Digit(s[1]) = 0
    BY <1>2, <1>9, <1>11, <2>5, <2>6
  <2> QED
    BY <1>2, <2>6, <2>7
<1> QED
  BY <1>9, <1>10, <1>11

LEMMA SmallRemainder ==
  ASSUME NEW s \in Nat \ {0}, NEW x \in 0 .. s - 1
  PROVE  x % s = x
  BY Z3

(* A number the program's integers hold is itself.                         *)
LEMMA WrappedIs ==
  ASSUME NEW n \in Nat, n < IntSize
  PROVE  Wrapped(n) = n
<1> DEFINE s == 2 * IntSize
           x == n + IntSize
<1>1. s \in Nat \ {0} /\ x \in 0 .. s - 1
  BY IntAssumption
<1>2. x % s = x
  <2> HIDE DEF s, x
  <2> QED
    BY <1>1, SmallRemainder
<1>3. x - IntSize = n
  BY IntAssumption
<1> QED
  BY <1>2, <1>3 DEF Wrapped

-----------------------------------------------------------------------------
(* The reading of a part: where its number, its domain and its count begin. *)

LEMMA PieceIs ==
  ASSUME NEW S, NEW s \in Seq(S), NEW a \in 1 .. Len(s) + 1, NEW b \in 0 .. Len(s)
  PROVE  /\ SubSeq(s, a, b) \in Seq(S)
         /\ Len(SubSeq(s, a, b)) = IF a <= b THEN b - a + 1 ELSE 0
         /\ \A i \in 1 .. b - a + 1 : SubSeq(s, a, b)[i] = s[a + i - 1]
<1>1. Len(s) \in Nat
  BY LenProperties
<1>2. \A i \in a .. b : s[i] \in S
  <2>1. \A i \in a .. b : i \in 1 .. Len(s)
    BY <1>1
  <2> QED
    BY <2>1, ElementOfSeq
<1>3. a \in Int /\ b \in Int
  BY <1>1
<1> QED
  BY <1>2, <1>3, SubSeqProperties

LEMMA NumeralPiece ==
  ASSUME NEW S, NEW s \in Seq(S), NEW a \in 1 .. Len(s) + 1, NEW b \in 0 .. Len(s)
  PROVE  IsNumeral(SubSeq(s, a, b)) <=> \A i \in a .. b : s[i] \in Digits
<1> DEFINE t == SubSeq(s, a, b)
<1>1. t \in Seq(S) /\ Len(t) = IF a <= b THEN b - a + 1 ELSE 0
  BY PieceIs
<1>2. \A i \in 1 .. b - a + 1 : t[i] = s[a + i - 1]
  BY PieceIs
<1>3. Len(s) \in Nat
  BY LenProperties
<1> HIDE DEF t
<1>4. IsNumeral(t) <=> \A i \in 1 .. Len(t) : t[i] \in Digits
  BY <1>1, NumeralMeans
<1>5. 1 .. Len(t) = 1 .. b - a + 1
  BY <1>1, <1>3
<1>6. ASSUME \A i \in 1 .. b - a + 1 : t[i] \in Digits, NEW j \in a .. b PROVE s[j] \in Digits
  <2>1. j - a + 1 \in 1 .. b - a + 1 /\ a + (j - a + 1) - 1 = j
    BY <1>3
  <2> QED
    BY <1>2, <1>6, <2>1
<1>7. ASSUME \A j \in a .. b : s[j] \in Digits, NEW i \in 1 .. b - a + 1 PROVE t[i] \in Digits
  <2>1. a + i - 1 \in a .. b
    BY <1>3
  <2> QED
    BY <1>2, <1>7, <2>1
<1> QED
  BY <1>4, <1>5, <1>6, <1>7 DEF t

LEMMA PieceOfPrefix ==
  ASSUME NEW S, NEW s \in Seq(S), NEW m \in 0 .. Len(s), NEW a \in 1 .. m + 1, NEW b \in 0 .. m
  PROVE  SubSeq(SubSeq(s, 1, m), a, b) = SubSeq(s, a, b)
<1> DEFINE t == SubSeq(s, 1, m)
           u == SubSeq(t, a, b)
           v == SubSeq(s, a, b)
<1>1. Len(s) \in Nat
  BY LenProperties
<1>2. t \in Seq(S) /\ Len(t) = m
  BY PrefixIs
<1>3. \A i \in 1 .. m : t[i] = s[i]
  BY PrefixIs
<1> HIDE DEF t
<1>4. a \in 1 .. Len(t) + 1 /\ b \in 0 .. Len(t) /\ a \in 1 .. Len(s) + 1 /\ b \in 0 .. Len(s)
  BY <1>1, <1>2
<1>5. u \in Seq(S) /\ Len(u) = IF a <= b THEN b - a + 1 ELSE 0
  BY <1>2, <1>4, PieceIs
<1>6. \A i \in 1 .. b - a + 1 : u[i] = t[a + i - 1]
  BY <1>2, <1>4, PieceIs
<1>7. v \in Seq(S) /\ Len(v) = IF a <= b THEN b - a + 1 ELSE 0
  BY <1>4, PieceIs
<1>8. \A i \in 1 .. b - a + 1 : v[i] = s[a + i - 1]
  BY <1>4, PieceIs
<1> HIDE DEF u, v
<1>9. Len(u) = Len(v) /\ 1 .. Len(u) = 1 .. b - a + 1
  BY <1>1, <1>5, <1>7
<1>10. \A i \in 1 .. Len(u) : u[i] = v[i]
  <2>1. \A i \in 1 .. b - a + 1 : a + i - 1 \in 1 .. m
    BY <1>1
  <2> QED
    BY <1>3, <1>6, <1>8, <1>9, <2>1
<1>11. u = v
  BY <1>5, <1>7, <1>9, <1>10, SeqEqual
<1> QED
  BY <1>11 DEF t, u, v

LEMMA WholeLength ==
  ASSUME NEW S, NEW a \in Seq(S), NEW b \in Seq(S), NEW c \in Seq(S), NEW d \in Seq(S),
         NEW u \in S, NEW v \in S
  PROVE  Len(a \o b \o <<u>> \o c \o <<v>> \o d) = Len(a) + Len(b) + 1 + Len(c) + 1 + Len(d)
<1> DEFINE x == <<u>>
           y == <<v>>
           ab == a \o b
           abx == ab \o x
           abc == abx \o c
           abcy == abc \o y
<1>1. x \in Seq(S) /\ Len(x) = 1 /\ y \in Seq(S) /\ Len(y) = 1
  OBVIOUS
<1>2. Len(a) \in Nat /\ Len(b) \in Nat /\ Len(c) \in Nat /\ Len(d) \in Nat
  BY LenProperties
<1> HIDE DEF x, y
<1>3. ab \in Seq(S) /\ Len(ab) = Len(a) + Len(b)
  BY ConcatIs
<1> HIDE DEF ab
<1>4. abx \in Seq(S) /\ Len(abx) = Len(ab) + Len(x)
  BY <1>1, <1>3, ConcatIs
<1> HIDE DEF abx
<1>5. abc \in Seq(S) /\ Len(abc) = Len(abx) + Len(c)
  BY <1>4, ConcatIs
<1> HIDE DEF abc
<1>6. abcy \in Seq(S) /\ Len(abcy) = Len(abc) + Len(y)
  BY <1>1, <1>5, ConcatIs
<1> HIDE DEF abcy
<1>7. Len(abcy \o d) = Len(abcy) + Len(d)
  BY <1>6, ConcatIs
<1>8. Len(abcy \o d) = Len(a) + Len(b) + 1 + Len(c) + 1 + Len(d)
  BY <1>1, <1>2, <1>3, <1>4, <1>5, <1>6, <1>7
<1> QED
  BY <1>8 DEF abcy, abc, abx, ab, x, y

LEMMA OneDigit ==
  ASSUME NEW x
  PROVE  IsNumeral(<<x>>) <=> x \in Digits
<1>1. ToSet(<<x>>) = {x}
  BY DEF ToSet
<1> QED
  BY <1>1 DEF IsNumeral, Digits

Pieces(s, p, at, colon) ==
  [prefix |-> SubSeq(s, 1, p), number |-> SubSeq(s, p + 1, at - 1),
   domain |-> SubSeq(s, at + 1, colon - 1), count |-> SubSeq(s, colon + 1, Len(s))]

Whole(r) == r.prefix \o r.number \o <<AtSign>> \o r.domain \o <<ColonSign>> \o r.count

Reads(s, r) ==
  /\ s = Whole(r)
  /\ AtSign \notin ToSet(r.prefix) /\ IsNumeral(r.number)
  /\ r.prefix = <<>> \/ ~IsNumeral(<<Last(r.prefix)>>)
  /\ IsNumeral(r.count) /\ Value(r.count) > 0

(* p, at and colon are the last place before the number, that of the @ and *)
(* that of the colon.                                                      *)
Parsed(s, p, at, colon) ==
  /\ at \in 1 .. Len(s) /\ colon \in 1 .. Len(s) /\ p \in 0 .. at - 1 /\ at < colon
  /\ s[at] = AtSign /\ s[colon] = ColonSign
  /\ \A i \in 1 .. at - 1 : s[i] # AtSign
  /\ \A i \in colon + 1 .. Len(s) : s[i] \in Digits
  /\ \A i \in p + 1 .. at - 1 : s[i] \in Digits
  /\ p = 0 \/ s[p] \notin Digits

LEMMA ReadingMeans ==
  ASSUME NEW s, NEW r
  PROVE  r \in Readings(s) <=>
           /\ \E p \in 0 .. Len(s), at \in Places(s, AtSign), colon \in Places(s, ColonSign) :
                r = Pieces(s, p, at, colon)
           /\ Reads(s, r)
<1> DEFINE P == 0 .. Len(s)
           A == Places(s, AtSign)
           C == Places(s, ColonSign)
<1>1. Readings(s) = {x \in {Cut(s, m) : m \in [prefix : P, at : A, colon : C]} : Reads(s, x)}
  BY Zenon DEF Readings, Marks, Reads, Whole, AtSign, ColonSign
<1> HIDE DEF P, A, C
<1>2. \A p \in P, at \in A, colon \in C :
        /\ [prefix |-> p, at |-> at, colon |-> colon] \in [prefix : P, at : A, colon : C]
        /\ Cut(s, [prefix |-> p, at |-> at, colon |-> colon]) = Pieces(s, p, at, colon)
  BY DEF Cut, Pieces
<1>3. \A m \in [prefix : P, at : A, colon : C] :
        m.prefix \in P /\ m.at \in A /\ m.colon \in C /\ Cut(s, m) = Pieces(s, m.prefix, m.at, m.colon)
  BY DEF Cut, Pieces
<1>4. r \in Readings(s) <=> (\E p \in P, at \in A, colon \in C : r = Pieces(s, p, at, colon)) /\ Reads(s, r)
  <2> DEFINE M == [prefix : P, at : A, colon : C]
  <2>1. r \in Readings(s) <=> (\E m \in M : r = Cut(s, m)) /\ Reads(s, r)
    <3> HIDE DEF M
    <3> QED
      BY Zenon, <1>1 DEF M
  <2>2. ASSUME NEW m \in M, r = Cut(s, m)
        PROVE  \E p \in P, at \in A, colon \in C : r = Pieces(s, p, at, colon)
    <3> HIDE DEF M
    <3>1. m.prefix \in P /\ m.at \in A /\ m.colon \in C /\ r = Pieces(s, m.prefix, m.at, m.colon)
      BY Zenon, <1>3, <2>2 DEF M
    <3> QED
      BY <3>1
  <2>3. ASSUME NEW p \in P, NEW at \in A, NEW colon \in C, r = Pieces(s, p, at, colon)
        PROVE  \E m \in M : r = Cut(s, m)
    <3> DEFINE m == [prefix |-> p, at |-> at, colon |-> colon]
    <3>1. m \in M /\ r = Cut(s, m)
      BY Zenon, <1>2, <2>3
    <3> HIDE DEF M, m
    <3> QED
      BY <3>1
  <2> HIDE DEF M
  <2> QED
    BY <2>1, <2>2, <2>3
<1> QED
  BY <1>4, Zenon DEF P, A, C

(* The pieces of a part, put together again.                               *)
LEMMA WholeIs ==
  ASSUME NEW S, NEW s \in Seq(S), NEW p, NEW at, NEW colon, Parsed(s, p, at, colon)
  PROVE  Whole(Pieces(s, p, at, colon)) = s
<1> DEFINE n == Len(s)
<1>1. n \in Nat /\ at \in 1 .. n /\ colon \in 1 .. n /\ p \in 0 .. at - 1 /\ at < colon
  BY LenProperties DEF Parsed
<1>2. s[at] = AtSign /\ s[colon] = ColonSign
  BY DEF Parsed
<1>3. SubSeq(s, 1, p) \o SubSeq(s, p + 1, at - 1) = SubSeq(s, 1, at - 1)
  <2>1. 1 \in 1 .. Len(s) + 1 /\ p \in 1 - 1 .. Len(s) /\ at - 1 \in p .. Len(s)
    BY <1>1
  <2> QED
    BY <2>1, ConcatAdjacentSubSeq
<1>4. SubSeq(s, 1, at - 1) \o <<AtSign>> = SubSeq(s, 1, at)
  <2>1. 1 \in 1 .. Len(s) /\ at \in 1 .. Len(s)
    BY <1>1
  <2>2. SubSeq(s, 1, at) = SubSeq(s, 1, at - 1) \o <<s[at]>>
    BY <2>1, SubSeqRecursiveSecond
  <2> QED
    BY <1>2, <2>2
<1>5. SubSeq(s, 1, at) \o SubSeq(s, at + 1, colon - 1) = SubSeq(s, 1, colon - 1)
  <2>1. 1 \in 1 .. Len(s) + 1 /\ at \in 1 - 1 .. Len(s) /\ colon - 1 \in at .. Len(s)
    BY <1>1
  <2> QED
    BY <2>1, ConcatAdjacentSubSeq
<1>6. SubSeq(s, 1, colon - 1) \o <<ColonSign>> = SubSeq(s, 1, colon)
  <2>1. 1 \in 1 .. Len(s) /\ colon \in 1 .. Len(s)
    BY <1>1
  <2>2. SubSeq(s, 1, colon) = SubSeq(s, 1, colon - 1) \o <<s[colon]>>
    BY <2>1, SubSeqRecursiveSecond
  <2> QED
    BY <1>2, <2>2
<1>7. SubSeq(s, 1, colon) \o SubSeq(s, colon + 1, n) = SubSeq(s, 1, n)
  <2>1. 1 \in 1 .. Len(s) + 1 /\ colon \in 1 - 1 .. Len(s) /\ n \in colon .. Len(s)
    BY <1>1
  <2> QED
    BY <2>1, ConcatAdjacentSubSeq
<1>8. SubSeq(s, 1, n) = s
  BY SubSeqFull
<1> QED
  BY <1>3, <1>4, <1>5, <1>6, <1>7, <1>8 DEF Whole, Pieces

LEMMA ParsedReads ==
  ASSUME NEW S, NEW s \in Seq(S), NEW p, NEW at, NEW colon, Parsed(s, p, at, colon),
         Value(SubSeq(s, colon + 1, Len(s))) > 0
  PROVE  Pieces(s, p, at, colon) \in Readings(s)
<1> DEFINE n == Len(s)
           r == Pieces(s, p, at, colon)
<1>1. n \in Nat /\ at \in 1 .. n /\ colon \in 1 .. n /\ p \in 0 .. at - 1 /\ at < colon
  BY LenProperties DEF Parsed
<1>2. s = Whole(r)
  BY WholeIs
<1>3. SubSeq(s, 1, p) \in Seq(S) /\ Len(SubSeq(s, 1, p)) = p
      /\ \A i \in 1 .. p : SubSeq(s, 1, p)[i] = s[i]
  <2>1. p \in 0 .. Len(s)
    BY <1>1
  <2> QED
    BY <2>1, PrefixIs
<1>4. AtSign \notin ToSet(SubSeq(s, 1, p))
  <2> DEFINE t == SubSeq(s, 1, p)
  <2>1. DOMAIN t = 1 .. p
    BY <1>3, LenProperties
  <2>2. \A i \in 1 .. p : t[i] = s[i] /\ s[i] # AtSign
    <3>1. \A i \in 1 .. p : i \in 1 .. at - 1
      BY <1>1
    <3> QED
      BY <1>3, <3>1 DEF Parsed
  <2> HIDE DEF t
  <2>3. ASSUME AtSign \in ToSet(t) PROVE FALSE
    <3>1. PICK i \in 1 .. p : t[i] = AtSign
      BY <2>1, <2>3 DEF ToSet
    <3> QED
      BY <2>2, <3>1
  <2> QED
    BY <2>3 DEF t
<1>5. IsNumeral(SubSeq(s, p + 1, at - 1))
  <2>1. p + 1 \in 1 .. Len(s) + 1 /\ at - 1 \in 0 .. Len(s)
    BY <1>1
  <2>2. \A i \in p + 1 .. at - 1 : s[i] \in Digits
    BY DEF Parsed
  <2> QED
    BY <2>1, <2>2, NumeralPiece
<1>6. IsNumeral(SubSeq(s, colon + 1, n))
  <2>1. colon + 1 \in 1 .. Len(s) + 1 /\ n \in 0 .. Len(s)
    BY <1>1
  <2>2. \A i \in colon + 1 .. n : s[i] \in Digits
    BY DEF Parsed
  <2> QED
    BY <2>1, <2>2, NumeralPiece
<1>7. SubSeq(s, 1, p) = <<>> \/ ~IsNumeral(<<Last(SubSeq(s, 1, p))>>)
  <2>1. CASE p = 0
    <3>1. SubSeq(s, 1, p) = <<>>
      BY <1>3, <2>1, EmptySeq
    <3> QED
      BY <3>1
  <2>2. CASE p # 0
    <3>1. p \in 1 .. p
      BY <1>1, <2>2
    <3>2. Last(SubSeq(s, 1, p)) = s[p]
      BY <1>3, <3>1 DEF Last
    <3>3. s[p] \notin Digits
      BY <2>2 DEF Parsed
    <3> QED
      BY <3>2, <3>3, OneDigit
  <2> QED
    BY <2>1, <2>2
<1>8. Reads(s, r)
  <2>1. /\ r.prefix = SubSeq(s, 1, p) /\ r.number = SubSeq(s, p + 1, at - 1)
        /\ r.count = SubSeq(s, colon + 1, n)
    BY DEF Pieces
  <2> HIDE DEF r
  <2> QED
    BY <1>2, <1>4, <1>5, <1>6, <1>7, <2>1 DEF Reads
<1>9. at \in Places(s, AtSign) /\ colon \in Places(s, ColonSign) /\ p \in 0 .. Len(s)
  <2>1. s[at] = AtSign /\ s[colon] = ColonSign
    BY DEF Parsed
  <2>2. p \in 0 .. n
    BY <1>1
  <2> QED
    BY <1>1, <2>1, <2>2, PlacesIs
<1> QED
  BY <1>8, <1>9, ReadingMeans

LEMMA ReadingParsed ==
  ASSUME NEW S, NEW s \in Seq(S), NEW r \in Readings(s)
  PROVE  \E p, at, colon : /\ Parsed(s, p, at, colon) /\ r = Pieces(s, p, at, colon)
                           /\ Value(SubSeq(s, colon + 1, Len(s))) > 0
<1> DEFINE n == Len(s)
<1>1. Reads(s, r)
  BY ReadingMeans
<1>2. PICK p \in 0 .. n, at \in Places(s, AtSign), colon \in Places(s, ColonSign) :
        r = Pieces(s, p, at, colon)
  BY ReadingMeans
<1>3. n \in Nat /\ at \in 1 .. n /\ colon \in 1 .. n
  BY PlacesIs, LenProperties
<1>4. s[at] = AtSign /\ s[colon] = ColonSign
  BY <1>3, PlacesIs
<1> DEFINE a == SubSeq(s, 1, p)
           b == SubSeq(s, p + 1, at - 1)
           c == SubSeq(s, at + 1, colon - 1)
           d == SubSeq(s, colon + 1, n)
<1>5. r.prefix = a /\ r.number = b /\ r.domain = c /\ r.count = d
  BY <1>2 DEF Pieces
<1>6. a \in Seq(S) /\ Len(a) = p /\ \A i \in 1 .. p : a[i] = s[i]
  <2>1. p \in 0 .. Len(s)
    BY <1>3
  <2> QED
    BY <2>1, PrefixIs
<1>7. b \in Seq(S) /\ Len(b) = IF p + 1 <= at - 1 THEN (at - 1) - (p + 1) + 1 ELSE 0
  <2>1. p + 1 \in 1 .. Len(s) + 1 /\ at - 1 \in 0 .. Len(s)
    BY <1>3
  <2> QED
    BY <2>1, PieceIs
<1>8. c \in Seq(S) /\ Len(c) = IF at + 1 <= colon - 1 THEN (colon - 1) - (at + 1) + 1 ELSE 0
  <2>1. at + 1 \in 1 .. Len(s) + 1 /\ colon - 1 \in 0 .. Len(s)
    BY <1>3
  <2> QED
    BY <2>1, PieceIs
<1>9. d \in Seq(S) /\ Len(d) = IF colon + 1 <= n THEN n - (colon + 1) + 1 ELSE 0
  <2>1. colon + 1 \in 1 .. Len(s) + 1 /\ n \in 0 .. Len(s)
    BY <1>3
  <2> QED
    BY <2>1, PieceIs
<1>10. AtSign \in S /\ ColonSign \in S
  <2>1. s[at] \in S /\ s[colon] \in S
    BY <1>3, ElementOfSeq
  <2> QED
    BY <1>4, <2>1
<1>11. n = Len(a) + Len(b) + 1 + Len(c) + 1 + Len(d)
  <2>1. s = a \o b \o <<AtSign>> \o c \o <<ColonSign>> \o d
    BY <1>1, <1>5 DEF Reads, Whole
  <2> HIDE DEF a, b, c, d
  <2>2. Len(a \o b \o <<AtSign>> \o c \o <<ColonSign>> \o d) = Len(a) + Len(b) + 1 + Len(c) + 1 + Len(d)
    <3>1. a \in Seq(S) /\ b \in Seq(S) /\ c \in Seq(S) /\ d \in Seq(S)
      BY <1>6, <1>7, <1>8, <1>9
    <3> QED
      BY <1>10, <3>1, WholeLength
  <2> QED
    BY <2>1, <2>2
<1> HIDE DEF a, b, c, d
<1>12. p <= at - 1 /\ at < colon
  <2>1. at # colon
    BY <1>4, DigitsAre
  <2>2. /\ Len(a) = p
        /\ Len(b) = IF p + 1 <= at - 1 THEN (at - 1) - (p + 1) + 1 ELSE 0
        /\ Len(c) = IF at + 1 <= colon - 1 THEN (colon - 1) - (at + 1) + 1 ELSE 0
        /\ Len(d) = IF colon + 1 <= n THEN n - (colon + 1) + 1 ELSE 0
    BY <1>6, <1>7, <1>8, <1>9
  <2>3. p \in Nat /\ at \in Nat /\ colon \in Nat /\ colon <= n /\ at <= n /\ 1 <= at /\ 1 <= colon
    BY <1>3
  <2> HIDE DEF n
  <2>4. /\ Len(b) >= 0 /\ Len(b) >= (at - 1) - p /\ Len(b) \in Int
        /\ Len(c) >= 0 /\ Len(c) >= (colon - 1) - at /\ Len(c) \in Int
        /\ Len(d) = n - colon
    BY <1>3, <2>2, <2>3
  <2>5. n = p + Len(b) + 1 + Len(c) + 1 + (n - colon)
    BY <1>11, <2>2, <2>4
  <2> QED
    BY <1>3, <2>1, <2>3, <2>4, <2>5
<1>13. p \in 0 .. at - 1
  BY <1>3, <1>12
<1>14. ASSUME NEW i \in p + 1 .. at - 1 PROVE s[i] \in Digits
  <2>1. p + 1 \in 1 .. Len(s) + 1 /\ at - 1 \in 0 .. Len(s)
    BY <1>3, <1>13
  <2>2. IsNumeral(SubSeq(s, p + 1, at - 1))
    BY <1>1, <1>5 DEF Reads, b
  <2> QED
    BY <2>1, <2>2, NumeralPiece
<1>15. ASSUME NEW i \in colon + 1 .. n PROVE s[i] \in Digits
  <2>1. colon + 1 \in 1 .. Len(s) + 1 /\ n \in 0 .. Len(s)
    BY <1>3
  <2>2. IsNumeral(SubSeq(s, colon + 1, n))
    BY <1>1, <1>5 DEF Reads, d
  <2> QED
    BY <2>1, <2>2, NumeralPiece
<1>16. ASSUME NEW i \in 1 .. at - 1 PROVE s[i] # AtSign
  <2>1. CASE i <= p
    <3>1. i \in 1 .. p
      BY <1>3, <1>13, <2>1
    <3>2. DOMAIN a = 1 .. p /\ a[i] = s[i]
      BY <1>6, <3>1, LenProperties
    <3>3. s[i] \in ToSet(a)
      BY <3>1, <3>2 DEF ToSet
    <3> QED
      BY <1>1, <1>5, <3>3 DEF Reads
  <2>2. CASE ~(i <= p)
    <3>1. i \in p + 1 .. at - 1
      BY <1>3, <1>13, <2>2
    <3> QED
      BY <1>14, <3>1, DigitsAre
  <2> QED
    BY <2>1, <2>2
<1>17. p = 0 \/ s[p] \notin Digits
  <2> SUFFICES ASSUME p # 0 PROVE s[p] \notin Digits
    OBVIOUS
  <2>1. p \in 1 .. p
    BY <1>3
  <2>2. Last(a) = s[p]
    BY <1>6, <2>1 DEF Last
  <2>3. a # <<>>
    BY <1>3, <1>6, EmptySeq
  <2>4. ~IsNumeral(<<Last(a)>>)
    BY <1>1, <1>5, <2>3 DEF Reads
  <2> QED
    BY <2>2, <2>4, OneDigit
<1>18. Value(SubSeq(s, colon + 1, Len(s))) > 0
  BY <1>1, <1>5 DEF Reads, d
<1>19. Parsed(s, p, at, colon)
  BY <1>3, <1>4, <1>12, <1>13, <1>14, <1>15, <1>16, <1>17 DEF Parsed
<1> QED
  BY <1>2, <1>18, <1>19

-----------------------------------------------------------------------------
(* What the program makes of a part, by its places. *)

LEMMA ColonMeans ==
  ASSUME NEW s
  PROVE  Colon(s) = Max(Places(s, ColonSign) \cup {0})
  BY Zenon DEF Colon, ColonSign

LEMMA StandsMeans ==
  ASSUME NEW s
  PROVE  /\ Stands(s) <=> Count(s) # 0 /\ Places(Addr(s), AtSign) # {}
         /\ Local(s) = Before(Addr(s), Min(Places(Addr(s), AtSign)))
         /\ Domain(s) = After(Addr(s), Min(Places(Addr(s), AtSign)))
  BY Zenon DEF Stands, Local, Domain, AtSign

(* The last colon of a part, or 0.                                         *)
LEMMA ColonLast ==
  ASSUME NEW S, NEW s \in Seq(S)
  PROVE  /\ Colon(s) \in 0 .. Len(s)
         /\ Colon(s) > 0 => s[Colon(s)] = ColonSign
         /\ \A i \in 1 .. Len(s) : s[i] = ColonSign => i <= Colon(s)
<1> DEFINE T == Places(s, ColonSign) \cup {0}
<1>1. Len(s) \in Nat
  BY LenProperties
<1>2. Places(s, ColonSign) \in SUBSET (1 .. Len(s))
  BY PlacesIs
<1>3. \A i \in T : i = 0 \/ i \in Places(s, ColonSign)
  OBVIOUS
<1>4. T \in SUBSET (0 .. Len(s)) /\ T \in SUBSET Int /\ T # {}
  BY <1>1, <1>2
<1>5. PICK k \in T : \A i \in T : i <= k
  <2> HIDE DEF T
  <2> QED
    BY <1>1, <1>4, LargestNumber
<1>6. Max(T) = k
  <2> HIDE DEF T
  <2> QED
    BY <1>4, <1>5, LargestOf
<1>7. Colon(s) = k
  BY <1>6, ColonMeans
<1>8. k \in 0 .. Len(s)
  BY <1>4
<1>9. k > 0 => s[k] = ColonSign
  <2> SUFFICES ASSUME k > 0 PROVE s[k] = ColonSign
    OBVIOUS
  <2>1. k \in Places(s, ColonSign) /\ k \in 1 .. Len(s)
    BY <1>3, <1>5, <1>8
  <2> QED
    BY <2>1, PlacesIs
<1>10. \A i \in 1 .. Len(s) : s[i] = ColonSign => i <= k
  <2>1. \A i \in 1 .. Len(s) : s[i] = ColonSign => i \in T
    BY PlacesIs
  <2> HIDE DEF T
  <2> QED
    BY <1>5, <2>1
<1> QED
  BY <1>7, <1>8, <1>9, <1>10

LEMMA ColonIs ==
  ASSUME NEW S, NEW s \in Seq(S), NEW colon \in 1 .. Len(s), s[colon] = ColonSign,
         \A i \in colon + 1 .. Len(s) : s[i] \in Digits
  PROVE  Colon(s) = colon
<1> DEFINE k == Colon(s)
<1>1. Len(s) \in Nat /\ k \in 0 .. Len(s) /\ colon <= k
  BY ColonLast, LenProperties
<1>2. k > 0 => s[k] = ColonSign
  BY ColonLast
<1> HIDE DEF k
<1>3. ~(colon < k)
  <2> SUFFICES ASSUME colon < k PROVE FALSE
    OBVIOUS
  <2>1. k \in colon + 1 .. Len(s) /\ k > 0
    BY <1>1
  <2>2. s[k] \in Digits /\ s[k] = ColonSign
    BY <1>2, <2>1
  <2> QED
    BY <2>2, DigitsAre
<1>4. k = colon
  BY <1>1, <1>3
<1> QED
  BY <1>4 DEF k

(* The digits a local part ends in.                                        *)
LEMMA NumberIs ==
  ASSUME NEW S, NEW l \in Seq(S), NEW p \in 0 .. Len(l),
         \A i \in p + 1 .. Len(l) : l[i] \in Digits, p = 0 \/ l[p] \notin Digits
  PROVE  Prefix(l) = SubSeq(l, 1, p) /\ Number(l) = SubSeq(l, p + 1, Len(l))
<1> DEFINE T == {i \in 1 .. Len(l) + 1 : IsNumeral(After(l, i - 1))}
<1>1. Len(l) \in Nat
  BY LenProperties
<1>2. ASSUME NEW i \in 1 .. Len(l) + 1
      PROVE  IsNumeral(After(l, i - 1)) <=> \A j \in i .. Len(l) : l[j] \in Digits
  <2>1. After(l, i - 1) = SubSeq(l, i, Len(l))
    <3>1. (i - 1) + 1 = i
      BY <1>1
    <3> QED
      BY <3>1 DEF After
  <2>2. Len(l) \in 0 .. Len(l)
    BY <1>1
  <2> QED
    BY <2>1, <2>2, NumeralPiece
<1>3. p + 1 \in 1 .. Len(l) + 1 /\ p + 1 \in T
  <2>1. p + 1 \in 1 .. Len(l) + 1
    BY <1>1
  <2> QED
    BY <1>2, <2>1
<1>4. ASSUME NEW i \in T PROVE p + 1 <= i
  <2>1. i \in 1 .. Len(l) + 1 /\ IsNumeral(After(l, i - 1))
    OBVIOUS
  <2>2. CASE i <= p
    <3>1. p \in i .. Len(l) /\ p # 0
      BY <1>1, <2>1, <2>2
    <3>2. l[p] \in Digits
      BY <1>2, <2>1, <3>1
    <3> QED
      BY <3>1, <3>2
  <2> QED
    BY <1>1, <2>1, <2>2
<1>5. T \in SUBSET Int /\ p + 1 \in Int
  BY <1>1
<1>6. Min(T) = p + 1
  <2> HIDE DEF T
  <2> QED
    BY <1>3, <1>4, <1>5, SmallestOf
<1>7. Prefix(l) = SubSeq(l, 1, p)
  <2>1. (p + 1) - 1 = p
    BY <1>1
  <2> QED
    BY <1>6, <2>1 DEF Prefix, Before
<1>8. Len(Prefix(l)) = p
  BY <1>7, PrefixIs
<1> QED
  BY <1>7, <1>8 DEF Number, After

LEMMA NumberStarts ==
  ASSUME NEW S, NEW l \in Seq(S)
  PROVE  \E p \in 0 .. Len(l) : /\ \A i \in p + 1 .. Len(l) : l[i] \in Digits
                                /\ p = 0 \/ l[p] \notin Digits
<1> DEFINE T == {p \in 0 .. Len(l) : \A i \in p + 1 .. Len(l) : l[i] \in Digits}
<1>1. Len(l) \in Nat
  BY LenProperties
<1>2. Len(l) \in T
  <2>1. Len(l) \in 0 .. Len(l) /\ ~\E i \in Len(l) + 1 .. Len(l) : TRUE
    BY <1>1
  <2> QED
    BY <2>1
<1>3. \A p \in T : p \in Nat
  BY <1>1
<1>4. PICK p \in T : \A m \in T : p <= m
  <2>1. T \in SUBSET Nat
    BY <1>3
  <2> HIDE DEF T
  <2> QED
    BY <1>2, <2>1, LeastNumber
<1>5. p \in 0 .. Len(l) /\ \A i \in p + 1 .. Len(l) : l[i] \in Digits
  OBVIOUS
<1>6. p = 0 \/ l[p] \notin Digits
  <2> SUFFICES ASSUME p # 0, l[p] \in Digits PROVE FALSE
    OBVIOUS
  <2>1. p - 1 \in 0 .. Len(l) /\ ~(p <= p - 1)
    BY <1>1, <1>5
  <2>2. \A i \in (p - 1) + 1 .. Len(l) : i = p \/ i \in p + 1 .. Len(l)
    BY <1>1, <1>5
  <2>3. p - 1 \in T
    BY <1>5, <2>1, <2>2
  <2> HIDE DEF T
  <2> QED
    BY <1>4, <2>1, <2>3
<1> QED
  BY <1>5, <1>6

LEMMA AddrIs ==
  ASSUME NEW S, NEW s \in Seq(S), NEW colon \in 1 .. Len(s), Colon(s) = colon
  PROVE  /\ Addr(s) = SubSeq(s, 1, colon - 1)
         /\ Addr(s) \in Seq(S) /\ Len(Addr(s)) = colon - 1
         /\ \A i \in 1 .. colon - 1 : Addr(s)[i] = s[i]
<1>1. colon - 1 \in 0 .. Len(s)
  BY LenProperties
<1>2. Addr(s) = SubSeq(s, 1, colon - 1)
  BY DEF Addr, Before
<1>3. /\ SubSeq(s, 1, colon - 1) \in Seq(S) /\ Len(SubSeq(s, 1, colon - 1)) = colon - 1
      /\ \A i \in 1 .. colon - 1 : SubSeq(s, 1, colon - 1)[i] = s[i]
  BY <1>1, PrefixIs
<1> QED
  BY <1>2, <1>3

(* A part the marks parse is cut by the program where they are.            *)
LEMMA ParsedIs ==
  ASSUME NEW S, NEW s \in Seq(S), NEW p, NEW at, NEW colon, Parsed(s, p, at, colon)
  PROVE  /\ Stands(s) <=> Count(s) # 0
         /\ Prefix(Local(s)) = SubSeq(s, 1, p)
         /\ Number(Local(s)) = SubSeq(s, p + 1, at - 1)
         /\ Domain(s) = SubSeq(s, at + 1, colon - 1)
         /\ IsNumeral(SubSeq(s, p + 1, at - 1))
         /\ IsNumeral(SubSeq(s, colon + 1, Len(s)))
         /\ Count(s) = Wrapped(Value(SubSeq(s, colon + 1, Len(s))))
         /\ SubSeq(s, colon + 1, Len(s)) = After(s, Colon(s))
<1> DEFINE n == Len(s)
           A == Places(Addr(s), AtSign)
<1>1. n \in Nat /\ at \in 1 .. n /\ colon \in 1 .. n /\ p \in 0 .. at - 1 /\ at < colon
  BY LenProperties DEF Parsed
<1>2. Colon(s) = colon
  <2>1. s[colon] = ColonSign /\ colon \in 1 .. Len(s)
    BY DEF Parsed
  <2>2. \A i \in colon + 1 .. Len(s) : s[i] \in Digits
    BY DEF Parsed
  <2> QED
    BY <2>1, <2>2, ColonIs
<1>3. IsNumeral(SubSeq(s, colon + 1, n))
  <2>1. colon + 1 \in 1 .. Len(s) + 1 /\ n \in 0 .. Len(s)
    BY <1>1
  <2>2. \A i \in colon + 1 .. n : s[i] \in Digits
    BY DEF Parsed
  <2> QED
    BY <2>1, <2>2, NumeralPiece
<1>4. Count(s) = Wrapped(Value(SubSeq(s, colon + 1, n)))
  <2>1. After(s, Colon(s)) = SubSeq(s, colon + 1, n) /\ Colon(s) > 0
    BY <1>1, <1>2 DEF After
  <2> QED
    BY <1>3, <2>1 DEF Count
<1>5. /\ Addr(s) = SubSeq(s, 1, colon - 1)
      /\ Addr(s) \in Seq(S) /\ Len(Addr(s)) = colon - 1
      /\ \A i \in 1 .. colon - 1 : Addr(s)[i] = s[i]
  BY <1>1, <1>2, AddrIs
<1>6. /\ A \in SUBSET (1 .. colon - 1)
      /\ \A i \in 1 .. colon - 1 : i \in A <=> s[i] = AtSign
  <2>1. A \in SUBSET (1 .. Len(Addr(s))) /\ \A i \in 1 .. Len(Addr(s)) : i \in A <=> Addr(s)[i] = AtSign
    BY <1>5, PlacesIs
  <2> HIDE DEF A
  <2> QED
    BY <1>5, <2>1
<1> HIDE DEF A
<1>7. at \in A /\ at \in 1 .. colon - 1
  <2>1. at \in 1 .. colon - 1 /\ s[at] = AtSign
    BY <1>1 DEF Parsed
  <2> QED
    BY <1>6, <2>1
<1>8. Min(A) = at
  <2>1. A \in SUBSET Int /\ at \in Int
    BY <1>1, <1>6
  <2>2. ASSUME NEW i \in A PROVE at <= i
    <3>1. i \in 1 .. colon - 1 /\ s[i] = AtSign
      BY <1>6
    <3>2. i \notin 1 .. at - 1
      BY <3>1 DEF Parsed
    <3> QED
      BY <1>1, <3>1, <3>2
  <2> QED
    BY <1>7, <2>1, <2>2, SmallestOf
<1>9. Stands(s) <=> Count(s) # 0
  BY <1>7, StandsMeans DEF A
<1>10. Local(s) = SubSeq(s, 1, at - 1)
  <2>1. Local(s) = SubSeq(SubSeq(s, 1, colon - 1), 1, at - 1)
    BY <1>5, <1>8, StandsMeans DEF A, Before
  <2>2. colon - 1 \in 0 .. Len(s) /\ 1 \in 1 .. (colon - 1) + 1 /\ at - 1 \in 0 .. colon - 1
    BY <1>1
  <2> QED
    BY <2>1, <2>2, PieceOfPrefix
<1>11. Domain(s) = SubSeq(s, at + 1, colon - 1)
  <2>1. Domain(s) = SubSeq(SubSeq(s, 1, colon - 1), at + 1, colon - 1)
    BY <1>5, <1>8, StandsMeans DEF A, After
  <2>2. colon - 1 \in 0 .. Len(s) /\ at + 1 \in 1 .. (colon - 1) + 1 /\ colon - 1 \in 0 .. colon - 1
    BY <1>1
  <2> QED
    BY <2>1, <2>2, PieceOfPrefix
<1> DEFINE l == SubSeq(s, 1, at - 1)
<1>12. at - 1 \in 0 .. Len(s)
  BY <1>1
<1>13. l \in Seq(S) /\ Len(l) = at - 1 /\ \A i \in 1 .. at - 1 : l[i] = s[i]
  BY <1>12, PrefixIs
<1>14. Prefix(l) = SubSeq(l, 1, p) /\ Number(l) = SubSeq(l, p + 1, Len(l))
  <2> HIDE DEF l
  <2>1. p \in 0 .. Len(l)
    BY <1>1, <1>13
  <2>2. ASSUME NEW i \in p + 1 .. Len(l) PROVE l[i] \in Digits
    <3>1. i \in p + 1 .. at - 1 /\ i \in 1 .. at - 1
      BY <1>1, <1>13
    <3> QED
      BY <1>13, <3>1 DEF Parsed
  <2>3. p = 0 \/ l[p] \notin Digits
    <3>1. p = 0 \/ p \in 1 .. at - 1
      BY <1>1
    <3> QED
      BY <1>13, <3>1 DEF Parsed
  <2> QED
    BY <1>13, <2>1, <2>2, <2>3, NumberIs
<1>15. SubSeq(l, 1, p) = SubSeq(s, 1, p) /\ SubSeq(l, p + 1, at - 1) = SubSeq(s, p + 1, at - 1)
  <2>1. /\ at - 1 \in 0 .. Len(s) /\ 1 \in 1 .. (at - 1) + 1 /\ p \in 0 .. at - 1
        /\ p + 1 \in 1 .. (at - 1) + 1 /\ at - 1 \in 0 .. at - 1
    BY <1>1
  <2> QED
    BY <2>1, PieceOfPrefix
<1>16. IsNumeral(SubSeq(s, p + 1, at - 1))
  <2>1. p + 1 \in 1 .. Len(s) + 1 /\ at - 1 \in 0 .. Len(s)
    BY <1>1
  <2>2. \A i \in p + 1 .. at - 1 : s[i] \in Digits
    BY DEF Parsed
  <2> QED
    BY <2>1, <2>2, NumeralPiece
<1> HIDE DEF l
<1>17. Local(s) = l
  BY <1>10 DEF l
<1>18. SubSeq(s, colon + 1, n) = After(s, Colon(s))
  BY <1>2 DEF After
<1> QED
  BY <1>18, <1>3, <1>4, <1>9, <1>11, <1>13, <1>14, <1>15, <1>16, <1>17

(* A part that stands for many has marks.                                  *)
LEMMA StandsParsed ==
  ASSUME NEW S, NEW s \in Seq(S), Stands(s)
  PROVE  \E p, at, colon : Parsed(s, p, at, colon)
<1> DEFINE n == Len(s)
           colon == Colon(s)
           A == Places(Addr(s), AtSign)
<1>1. n \in Nat /\ colon \in 0 .. n /\ (colon > 0 => s[colon] = ColonSign)
  BY ColonLast, LenProperties
<1>2. Count(s) # 0 /\ A # {}
  BY StandsMeans
<1>3. colon > 0 /\ IsNumeral(SubSeq(s, colon + 1, n))
  BY <1>2 DEF Count, After
<1> HIDE DEF colon
<1>4. colon \in 1 .. n /\ s[colon] = ColonSign /\ Colon(s) = colon
  BY <1>1, <1>3 DEF colon
<1>5. \A i \in colon + 1 .. n : s[i] \in Digits
  <2>1. colon + 1 \in 1 .. Len(s) + 1 /\ n \in 0 .. Len(s)
    BY <1>1, <1>4
  <2> QED
    BY <1>3, <2>1, NumeralPiece
<1>6. /\ Addr(s) \in Seq(S) /\ Len(Addr(s)) = colon - 1
      /\ \A i \in 1 .. colon - 1 : Addr(s)[i] = s[i]
  BY <1>4, AddrIs
<1>7. A \in SUBSET (1 .. colon - 1) /\ \A i \in 1 .. colon - 1 : i \in A <=> s[i] = AtSign
  <2>1. A \in SUBSET (1 .. Len(Addr(s))) /\ \A i \in 1 .. Len(Addr(s)) : i \in A <=> Addr(s)[i] = AtSign
    BY <1>6, PlacesIs
  <2> HIDE DEF A
  <2> QED
    BY <1>6, <2>1
<1> HIDE DEF A
<1>8. PICK at \in A : \A i \in A : at <= i
  <2>1. A \in SUBSET Nat
    BY <1>4, <1>7
  <2> QED
    BY <1>2, <2>1, LeastNumber
<1>9. at \in 1 .. colon - 1 /\ s[at] = AtSign
  BY <1>7, <1>8
<1>10. \A i \in 1 .. at - 1 : s[i] # AtSign
  <2>1. \A i \in 1 .. at - 1 : i \in 1 .. colon - 1 /\ ~(at <= i)
    BY <1>1, <1>4, <1>9
  <2> QED
    BY <1>7, <1>8, <2>1
<1> DEFINE l == SubSeq(s, 1, at - 1)
<1>11. l \in Seq(S) /\ Len(l) = at - 1 /\ \A i \in 1 .. at - 1 : l[i] = s[i]
  <2>1. at - 1 \in 0 .. Len(s)
    BY <1>1, <1>4, <1>9
  <2> QED
    BY <2>1, PrefixIs
<1> HIDE DEF l
<1>12. PICK p \in 0 .. Len(l) : (\A i \in p + 1 .. Len(l) : l[i] \in Digits) /\ (p = 0 \/ l[p] \notin Digits)
  BY <1>11, NumberStarts
<1>13. p \in 0 .. at - 1
  BY <1>11, <1>12
<1>14. \A i \in p + 1 .. at - 1 : s[i] \in Digits
  <2>1. \A i \in p + 1 .. at - 1 : i \in 1 .. at - 1 /\ i \in p + 1 .. Len(l)
    BY <1>1, <1>9, <1>11, <1>13
  <2> QED
    BY <1>11, <1>12, <2>1
<1>15. p = 0 \/ s[p] \notin Digits
  <2>1. p = 0 \/ p \in 1 .. at - 1
    BY <1>9, <1>13
  <2> QED
    BY <1>11, <1>12, <2>1
<1>16. at \in 1 .. n /\ at < colon
  BY <1>1, <1>4, <1>9
<1>17. Parsed(s, p, at, colon)
  BY <1>4, <1>5, <1>9, <1>10, <1>13, <1>14, <1>15, <1>16 DEF Parsed
<1> QED
  BY <1>17

-----------------------------------------------------------------------------
(* A part, and a list, are taken as they read. *)

AddressAt(prefix, k, domain) == prefix \o Numeral[k] \o <<AtSign>> \o domain
First(number) == IF number = <<>> THEN 1 ELSE Value(number)
AddressesOf(s) == IF Stands(s) THEN [i \in 1 .. Count(s) |-> Address(s, i - 1)] ELSE <<s>>

(* What the program reads in a part.                                       *)
ReadBy(s) ==
  [prefix |-> Prefix(Local(s)), number |-> Number(Local(s)),
   domain |-> Domain(s), count |-> After(s, Colon(s))]

PartFits(s) == \A r \in Readings(s) : Value(r.number) + Value(r.count) < IntSize

LEMMA AddressMeans ==
  ASSUME NEW s, NEW i
  PROVE  Address(s, i) = AddressAt(Prefix(Local(s)), Wrapped(First(Number(Local(s))) + i), Domain(s))
  BY Zenon DEF Address, AddressAt, First, AtSign

LEMMA NamesMeans ==
  ASSUME NEW s, NEW r, Readings(s) # {}, r = CHOOSE x \in Readings(s) : TRUE
  PROVE  Names(s) = [i \in 1 .. Value(r.count) |-> AddressAt(r.prefix, First(r.number) + i - 1, r.domain)]
  BY Zenon DEF Names, AddressAt, First, AtSign

LEMMA ReadingIs ==
  ASSUME NEW S, NEW s \in Seq(S), NEW r \in Readings(s)
  PROVE  /\ r = ReadBy(s)
         /\ IsNumeral(r.number) /\ r.number \in Seq(S) /\ IsNumeral(r.count) /\ r.count \in Seq(S)
         /\ Value(r.count) > 0
         /\ Count(s) = Wrapped(Value(r.count)) /\ (Stands(s) <=> Count(s) # 0)
<1>1. PICK p, at, colon : /\ Parsed(s, p, at, colon) /\ r = Pieces(s, p, at, colon)
                          /\ Value(SubSeq(s, colon + 1, Len(s))) > 0
  BY ReadingParsed
<1>2. /\ r.prefix = SubSeq(s, 1, p) /\ r.number = SubSeq(s, p + 1, at - 1)
      /\ r.domain = SubSeq(s, at + 1, colon - 1) /\ r.count = SubSeq(s, colon + 1, Len(s))
      /\ r = [prefix |-> SubSeq(s, 1, p), number |-> SubSeq(s, p + 1, at - 1),
              domain |-> SubSeq(s, at + 1, colon - 1), count |-> SubSeq(s, colon + 1, Len(s))]
  BY <1>1 DEF Pieces
<1>3. /\ Stands(s) <=> Count(s) # 0
      /\ Prefix(Local(s)) = SubSeq(s, 1, p)
      /\ Number(Local(s)) = SubSeq(s, p + 1, at - 1)
      /\ Domain(s) = SubSeq(s, at + 1, colon - 1)
      /\ IsNumeral(SubSeq(s, p + 1, at - 1))
      /\ IsNumeral(SubSeq(s, colon + 1, Len(s)))
      /\ Count(s) = Wrapped(Value(SubSeq(s, colon + 1, Len(s))))
      /\ SubSeq(s, colon + 1, Len(s)) = After(s, Colon(s))
  BY <1>1, ParsedIs
<1>4. r = ReadBy(s)
  BY <1>2, <1>3 DEF ReadBy
<1>5. SubSeq(s, p + 1, at - 1) \in Seq(S) /\ SubSeq(s, colon + 1, Len(s)) \in Seq(S)
  <2>1. /\ Len(s) \in Nat /\ at \in 1 .. Len(s) /\ colon \in 1 .. Len(s) /\ p \in 0 .. at - 1
    BY <1>1, LenProperties DEF Parsed
  <2>2. /\ p + 1 \in 1 .. Len(s) + 1 /\ at - 1 \in 0 .. Len(s)
        /\ colon + 1 \in 1 .. Len(s) + 1 /\ Len(s) \in 0 .. Len(s)
    BY <2>1
  <2> QED
    BY <2>2, PieceIs
<1> QED
  BY <1>1, <1>2, <1>3, <1>4, <1>5

(* A part of a list can be read in one way at most, so that the reference  *)
(* chooses nothing: a colon, an @ or a digit elsewhere does not help.      *)
THEOREM OneReading ==
  ASSUME NEW S, NEW s \in Seq(S), NEW r \in Readings(s), NEW q \in Readings(s)
  PROVE  r = q
  BY ReadingIs

LEMMA StandsReads ==
  ASSUME NEW S, NEW s \in Seq(S), Stands(s)
  PROVE  Readings(s) # {}
<1>1. PICK p, at, colon : Parsed(s, p, at, colon)
  BY StandsParsed
<1> DEFINE d == SubSeq(s, colon + 1, Len(s))
<1>2. IsNumeral(d) /\ Count(s) = Wrapped(Value(d)) /\ Count(s) # 0
  BY <1>1, ParsedIs
<1>3. d \in Seq(S)
  <2>1. Len(s) \in Nat /\ colon \in 1 .. Len(s)
    BY <1>1, LenProperties DEF Parsed
  <2>2. colon + 1 \in 1 .. Len(s) + 1 /\ Len(s) \in 0 .. Len(s)
    BY <2>1
  <2> QED
    BY <2>2, PieceIs
<1>4. Value(d) > 0
  <2> HIDE DEF d
  <2>1. Value(d) \in Nat
    BY <1>2, <1>3, ValueIs
  <2>2. Wrapped(0) = 0
    BY WrappedIs, IntAssumption
  <2> QED
    BY <1>2, <2>1, <2>2
<1>5. Pieces(s, p, at, colon) \in Readings(s)
  BY <1>1, <1>4, ParsedReads
<1> QED
  BY <1>5

LEMMA PartAgrees ==
  ASSUME NEW S, NEW s \in Seq(S), PartFits(s)
  PROVE  /\ AddressesOf(s) = Names(s)
         /\ Stands(s) /\ AmbiguousStart(Local(s)) <=> \E r \in Readings(s) : Ambiguous(r)
<1>1. CASE Readings(s) = {}
  <2>1. ~Stands(s)
    BY <1>1, StandsReads
  <2>2. AddressesOf(s) = <<s>> /\ Names(s) = <<s>>
    BY <1>1, <2>1, Zenon DEF AddressesOf, Names
  <2> QED
    BY <1>1, <2>1, <2>2
<1>2. CASE Readings(s) # {}
  <2> DEFINE r == CHOOSE x \in Readings(s) : TRUE
             m == Value(r.number)
             c == Value(r.count)
             f == First(r.number)
  <2>1. r \in Readings(s)
    BY <1>2
  <2>2. \A x \in Readings(s) : x = r
    <3>1. \A x \in Readings(s) : x = ReadBy(s)
      BY ReadingIs
    <3> QED
      BY <2>1, <3>1
  <2>3. Names(s) = [i \in 1 .. Value(r.count) |-> AddressAt(r.prefix, First(r.number) + i - 1, r.domain)]
    BY <1>2, NamesMeans
  <2> HIDE DEF r
  <2>4. /\ r = ReadBy(s)
        /\ IsNumeral(r.number) /\ r.number \in Seq(S) /\ IsNumeral(r.count) /\ r.count \in Seq(S)
        /\ c > 0
        /\ Count(s) = Wrapped(c) /\ (Stands(s) <=> Count(s) # 0)
    BY <2>1, ReadingIs
  <2>5. /\ m \in Nat /\ (r.number = <<>> => m = 0)
        /\ r.number # <<>> /\ m = 0 => r.number[1] = "0"
    BY <2>4, ValueIs
  <2>6. c \in Nat
    BY <2>4, ValueIs
  <2>7. m + c < IntSize
    BY <2>1 DEF PartFits
  <2>8. f = IF r.number = <<>> THEN 1 ELSE m
    BY DEF First
  <2>9. /\ Prefix(Local(s)) = r.prefix /\ Number(Local(s)) = r.number /\ Domain(s) = r.domain
    BY <2>4 DEF ReadBy
  <2> HIDE DEF m, c, f
  <2>10. Count(s) = c /\ Stands(s)
    <3>1. Wrapped(c) = c
      <4>1. c < IntSize
        BY <2>5, <2>6, <2>7, IntAssumption
      <4> QED
        BY <2>6, <4>1, WrappedIs
    <3> QED
      BY <2>4, <2>6, <3>1
  <2>11. ASSUME NEW i \in 1 .. c PROVE Address(s, i - 1) = AddressAt(r.prefix, f + i - 1, r.domain)
    <3>1. f + (i - 1) \in Nat /\ f + (i - 1) < IntSize /\ f + (i - 1) = f + i - 1
      BY <2>5, <2>6, <2>7, <2>8, IntAssumption
    <3>2. Wrapped(f + (i - 1)) = f + i - 1
      BY <3>1, WrappedIs
    <3>3. Address(s, i - 1) = AddressAt(r.prefix, Wrapped(First(r.number) + (i - 1)), r.domain)
      BY <2>9, AddressMeans
    <3> QED
      BY <3>2, <3>3 DEF f
  <2>12. AddressesOf(s) = Names(s)
    <3>1. AddressesOf(s) = [i \in 1 .. c |-> Address(s, i - 1)]
      BY <2>10 DEF AddressesOf
    <3>2. Names(s) = [i \in 1 .. c |-> AddressAt(r.prefix, f + i - 1, r.domain)]
      BY <2>3 DEF c, f
    <3> QED
      BY <2>11, <3>1, <3>2
  <2>13. AmbiguousStart(Local(s)) <=> r.number # <<>> /\ (m >= IntSize \/ m = 0 \/ r.number[1] = "0")
    BY <2>9 DEF AmbiguousStart, m
  <2>14. ~(m >= IntSize)
    BY <2>5, <2>6, <2>7, IntAssumption
  <2>15. AmbiguousStart(Local(s)) <=> Ambiguous(r)
    BY <2>5, <2>13, <2>14 DEF Ambiguous
  <2> QED
    BY <2>1, <2>2, <2>10, <2>12, <2>15
<1> QED
  BY <1>1, <1>2

(* A list whose numbers fit an integer is expanded to the addresses it     *)
(* names, and is refused exactly when a first address reads two ways.      *)
THEOREM ListAgrees ==
  ASSUME NEW S, NEW l \in Seq(S), Fits(l)
  PROVE  /\ Expanded(l) = NamedBy(l)
         /\ Refused(l) <=> AmbiguousList(l)
<1> DEFINE parts == Parts(l)
<1>1. parts = PartsOf(l) /\ parts \in Seq(Seq(S))
  BY PartsAre
<1>2. Expanded(l) = FlattenSeq([k \in DOMAIN parts |-> AddressesOf(parts[k])])
  BY DEF Expanded, AddressesOf
<1>3. NamedBy(l) = FlattenSeq([k \in DOMAIN parts |-> Names(parts[k])])
  BY <1>1 DEF NamedBy
<1>4. Refused(l) <=> \E s \in ToSet(parts) : Stands(s) /\ AmbiguousStart(Local(s))
  BY DEF Refused
<1>5. AmbiguousList(l) <=> \E s \in ToSet(parts) : \E r \in Readings(s) : Ambiguous(r)
  BY <1>1 DEF AmbiguousList
<1>6. \A s \in ToSet(parts) : PartFits(s)
  BY <1>1 DEF Fits, PartFits
<1> HIDE DEF parts
<1>7. \A k \in DOMAIN parts : parts[k] \in ToSet(parts)
  BY DEF ToSet
<1>8. \A s \in ToSet(parts) : s \in Seq(S)
  <2>1. DOMAIN parts = 1 .. Len(parts) /\ \A k \in 1 .. Len(parts) : parts[k] \in Seq(S)
    BY <1>1, LenProperties, ElementOfSeq
  <2> QED
    BY <2>1 DEF ToSet
<1>9. ASSUME NEW s \in ToSet(parts)
      PROVE  /\ AddressesOf(s) = Names(s)
             /\ Stands(s) /\ AmbiguousStart(Local(s)) <=> \E r \in Readings(s) : Ambiguous(r)
  BY <1>6, <1>8, PartAgrees
<1>10. \A k \in DOMAIN parts : AddressesOf(parts[k]) = Names(parts[k])
  BY <1>7, <1>9
<1>11. [k \in DOMAIN parts |-> AddressesOf(parts[k])] = [k \in DOMAIN parts |-> Names(parts[k])]
  BY <1>10
<1> QED
  BY <1>2, <1>3, <1>4, <1>5, <1>9, <1>11

NamedInv ==
  /\ list \in Seq(Characters)
  /\ reading \in {"unread", "named", "refused"}
  /\ reading = "refused" => Refused(list) \/ Expanded(list) = <<>>
  /\ reading = "named" => ~Refused(list) /\ Expanded(list) # <<>> /\ rcpts = Expanded(list)

LEMMA InitNamed == Init => NamedInv
<1> SUFFICES ASSUME Init PROVE NamedInv
  OBVIOUS
<1>1. reading = "unread"
  BY DEF Init
<1>2. list \in Seq(Characters)
  <2>1. "u" \in Characters
    BY Zenon DEF Characters
  <2>2. <<"u">> \in Seq(Characters)
    <3>1. \A c \in Characters : <<c>> \in Seq(Characters)
      OBVIOUS
    <3> QED
      BY <2>1, <3>1
  <2>3. BoundedSeq(Characters, MaxList) \subseteq Seq(Characters)
    BY ListAssumption DEF BoundedSeq, SeqOf, Seq
  <2> QED
    BY <2>2, <2>3 DEF Init
<1> QED
  BY <1>1, <1>2 DEF NamedInv

LEMMA StepNamed == NamedInv /\ [Next]_launchVars => NamedInv'
<1> SUFFICES ASSUME NamedInv, [Next]_launchVars PROVE NamedInv'
  OBVIOUS
<1>1. ASSUME UNCHANGED <<list, reading, rcpts>> PROVE NamedInv'
  BY <1>1 DEF NamedInv
<1>2. CASE Read
  <2>1. list' = list
    BY <1>2 DEF Read
  <2>2. \/ (Refused(list) \/ Expanded(list) = <<>>) /\ reading' = "refused"
        \/ ~Refused(list) /\ Expanded(list) # <<>> /\ reading' = "named" /\ rcpts' = Expanded(list)
    BY <1>2 DEF Read
  <2> QED
    BY <2>1, <2>2 DEF NamedInv
<1>3. CASE LoadFile
  BY <1>1, <1>3 DEF LoadFile
<1>4. CASE DeliverNext
  BY <1>1, <1>4 DEF DeliverNext
<1>5. CASE Done \/ UNCHANGED launchVars
  BY <1>1, <1>5 DEF Done, launchVars
<1> QED
  BY <1>2, <1>3, <1>4, <1>5 DEF Next

(* Whatever the list, a run goes to the addresses it names, in its order,  *)
(* and a list that reads two ways, or names nobody, is refused: as long as *)
(* its numbers fit the program's integers.                                 *)
THEOREM ExpandsWhatIsNamed == Spec => []ExpandsAsNamed
<1>1. NamedInv => ExpandsAsNamed
  <2> SUFFICES ASSUME NamedInv, Fits(list), reading # "unread"
               PROVE  /\ reading = "refused" <=> AmbiguousList(list) \/ NamedBy(list) = <<>>
                      /\ reading = "named" => rcpts = NamedBy(list)
    BY DEF ExpandsAsNamed
  <2>1. list \in Seq(Characters) /\ reading \in {"named", "refused"}
    BY DEF NamedInv
  <2>2. Expanded(list) = NamedBy(list) /\ (Refused(list) <=> AmbiguousList(list))
    BY <2>1, ListAgrees
  <2> QED
    BY <2>1, <2>2 DEF NamedInv
<1>2. NamedInv /\ [Next]_launchVars => NamedInv'
  BY StepNamed
<1> QED
  BY <1>1, <1>2, InitNamed, PTL DEF Spec
=============================================================================

----------------------------- MODULE Recipients -----------------------------
(***************************************************************************)
(* The addresses a run is given: a list of addresses, some of which stand  *)
(* for many, as u51@d:100 does for u51@d to u150@d.                        *)
(*                                                                         *)
(* A list is a sequence of characters, without the white space that is     *)
(* trimmed from it and from each of its parts.  An integer is in           *)
(* -IntSize .. IntSize - 1, and wraps around.                              *)
(***************************************************************************)
EXTENDS Order, Sequences, SequencesExt

CONSTANT IntSize

ASSUME IntAssumption == IntSize \in Nat \ {0}

DigitSeq == <<"0", "1", "2", "3", "4", "5", "6", "7", "8", "9">>
IsNumeral(s) == ToSet(s) \subseteq ToSet(DigitSeq)
Digit(d) == (CHOOSE i \in DOMAIN DigitSeq : DigitSeq[i] = d) - 1
Value(s) ==
  LET upTo[i \in 0 .. Len(s)] == IF i = 0 THEN 0 ELSE 10 * upTo[i - 1] + Digit(s[i])
  IN  upTo[Len(s)]

Wrapped(n) == ((n + IntSize) % (2 * IntSize)) - IntSize

(* Sprintf's %d.                                                           *)
Numeral[n \in Int] ==
  IF n < 0 THEN <<"-">> \o Numeral[-n]
  ELSE IF n < 10 THEN <<DigitSeq[n + 1]>>
  ELSE Append(Numeral[n \div 10], DigitSeq[(n % 10) + 1])

Places(s, c) == {i \in DOMAIN s : s[i] = c}
Before(s, i) == SubSeq(s, 1, i - 1)
After(s, i) == SubSeq(s, i + 1, Len(s))

(* The parts of a list, the empty ones skipped; there is nothing to trim.  *)
Parts(list) ==
  LET commas == Places(list, ",")
      from(e) == Max({0} \cup {c \in commas : c < e}) + 1
      ends == InOrder({e \in commas \cup {Len(list) + 1} : from(e) < e})
  IN  [k \in DOMAIN ends |-> SubSeq(list, from(ends[k]), ends[k] - 1)]

(* splitCount: none, or how many addresses a part stands for.              *)
Colon(part) == Max(Places(part, ":") \cup {0})
Count(part) ==
  LET digits == After(part, Colon(part))
  IN  IF Colon(part) > 0 /\ IsNumeral(digits) THEN Wrapped(Value(digits)) ELSE 0

Addr(part) == Before(part, Colon(part))
Stands(part) == Count(part) # 0 /\ Places(Addr(part), "@") # {}
Local(part) == Before(Addr(part), Min(Places(Addr(part), "@")))
Domain(part) == After(Addr(part), Min(Places(Addr(part), "@")))

(* splitTrailingNumber.                                                    *)
Prefix(local) == Before(local, Min({i \in 1 .. Len(local) + 1 : IsNumeral(After(local, i - 1))}))
Number(local) == After(local, Len(Prefix(local)))

(* Zero and padded numbers taken as they are. *)
UnreadableOnly(local) == Value(Number(local)) >= IntSize

AmbiguousStart(local) ==
  /\ Number(local) # <<>>
  /\ \/ Value(Number(local)) >= IntSize
     \/ Value(Number(local)) = 0
     \/ Number(local)[1] = "0"

(* A run that starts at one behind whatever its local part ends in. *)
AddressBehind(part, i) == Local(part) \o Numeral[Wrapped(1 + i)] \o <<"@">> \o Domain(part)

(* The address i after the first of a part.                                *)
Address(part, i) ==
  LET local == Local(part)
      first == IF Number(local) = <<>> THEN 1 ELSE Value(Number(local))
  IN  Prefix(local) \o Numeral[Wrapped(first + i)] \o <<"@">> \o Domain(part)

(* expandRecipients.                                                       *)
Refused(list) == \E part \in ToSet(Parts(list)) : Stands(part) /\ AmbiguousStart(Local(part))

Expanded(list) ==
  LET parts == Parts(list)
      addresses(p) == IF Stands(p) THEN [i \in 1 .. Count(p) |-> Address(p, i - 1)] ELSE <<p>>
  IN  FlattenSeq([k \in DOMAIN parts |-> addresses(parts[k])])

-----------------------------------------------------------------------------
(* What a list says: the reference.                                        *)

IsPart(list, a, b) ==
  /\ a <= b /\ \A i \in a .. b : list[i] # ","
  /\ a = 1 \/ list[a - 1] = ","
  /\ b = Len(list) \/ list[b + 1] = ","

(* Where a part may be cut: behind its prefix, at its @ and at its colon.  *)
Marks(part) == [prefix : 0 .. Len(part), at : Places(part, "@"), colon : Places(part, ":")]
Cut(part, m) ==
  [prefix |-> SubSeq(part, 1, m.prefix), number |-> SubSeq(part, m.prefix + 1, m.at - 1),
   domain |-> SubSeq(part, m.at + 1, m.colon - 1), count |-> SubSeq(part, m.colon + 1, Len(part))]

(* The readings of a part: prefix, first number as it is written, domain   *)
(* and count.  No part has two.                                            *)
Readings(part) ==
  {r \in {Cut(part, m) : m \in Marks(part)} :
     /\ part = r.prefix \o r.number \o <<"@">> \o r.domain \o <<":">> \o r.count
     /\ "@" \notin ToSet(r.prefix) /\ IsNumeral(r.number)
     /\ r.prefix = <<>> \/ ~IsNumeral(<<Last(r.prefix)>>)
     /\ IsNumeral(r.count) /\ Value(r.count) > 0}

Ambiguous(r) == r.number # <<>> /\ r.number[1] = "0"

Names(part) ==
  IF Readings(part) = {} THEN <<part>>
  ELSE LET r == CHOOSE r \in Readings(part) : TRUE
           first == IF r.number = <<>> THEN 1 ELSE Value(r.number)
       IN  [i \in 1 .. Value(r.count) |->
              r.prefix \o Numeral[first + i - 1] \o <<"@">> \o r.domain]

PartsOf(list) ==
  LET starts == {a \in DOMAIN list : \E b \in DOMAIN list : IsPart(list, a, b)}
      part(a) == SubSeq(list, a, Min({b \in DOMAIN list : IsPart(list, a, b)}))
      order == InOrder(starts)
  IN  [k \in DOMAIN order |-> part(order[k])]

(* Every number in it is one the program's integers hold.                  *)
Fits(list) == \A part \in ToSet(PartsOf(list)) : \A r \in Readings(part) :
  Value(r.number) + Value(r.count) < IntSize

NamedBy(list) == FlattenSeq([k \in DOMAIN PartsOf(list) |-> Names(PartsOf(list)[k])])
AmbiguousList(list) == \E part \in ToSet(PartsOf(list)) : \E r \in Readings(part) : Ambiguous(r)
=============================================================================

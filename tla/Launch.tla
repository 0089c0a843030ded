------------------------------- MODULE Launch -------------------------------
(***************************************************************************)
(* main on its way to an LMTP run that replays a file: it loads the file,  *)
(* then reads the list of recipients, and exits if either is refused; the  *)
(* run then delivers the file's messages and begins it again.              *)
(*                                                                         *)
(* One of the two inputs varies at a time, for neither is read by the      *)
(* other's reader.                                                         *)
(***************************************************************************)
EXTENDS Replay, Recipients

CONSTANT MaxList   \* bound: the length of -recipients

ASSUME ListAssumption == MaxList \in Nat

VARIABLES
  list,     \* -recipients
  reading,  \* "unread", then "named" or "refused"
  rcpts     \* the recipients of the run

launchVars == <<vars, list, reading, rcpts>>

Characters == {"u", "0", "1", "@", ":", ","}

Init ==
  /\ \/ file \in BoundedSeq(Octets, MaxFile) /\ list = <<"u">>
     \/ file = <<"x">> /\ list \in BoundedSeq(Characters, MaxList)
  /\ ReplayInit
  /\ reading = "unread"
  /\ rcpts = <<>>

LoadFile == Load /\ UNCHANGED <<list, reading, rcpts>>

Read ==
  /\ phase = "loaded" /\ reading = "unread"
  /\ \/ /\ Refused(list) \/ Expanded(list) = <<>>
        /\ reading' = "refused"
        /\ UNCHANGED rcpts
     \/ /\ ~Refused(list) /\ Expanded(list) # <<>>
        /\ reading' = "named"
        /\ rcpts' = Expanded(list)
  /\ UNCHANGED <<vars, list>>

DeliverNext ==
  /\ reading = "named"
  /\ Deliver
  /\ UNCHANGED <<list, reading, rcpts>>

(* The program has exited, or the bound on deliveries is reached.          *)
Done ==
  /\ phase = "refused" \/ reading = "refused" \/ (phase = "loaded" /\ Replayed)
  /\ UNCHANGED launchVars

Next == LoadFile \/ Read \/ DeliverNext \/ Done

Spec == Init /\ [][Next]_launchVars

-----------------------------------------------------------------------------
(* Properties. *)

LaunchTypeOK ==
  /\ TypeOK
  /\ list \in Seq(Characters)
  /\ reading \in {"unread", "named", "refused"}
  /\ rcpts \in Seq(Seq(Characters \cup ToSet(DigitSeq) \cup {"-"}))

(* A run goes to the addresses its list names, each as often and in the    *)
(* order it names them; a list with a part whose first address could be    *)
(* read two ways is refused, and so is one that names nobody.              *)
ExpandsAsNamed == Fits(list) /\ reading # "unread" =>
  /\ reading = "refused" <=> AmbiguousList(list) \/ NamedBy(list) = <<>>
  /\ reading = "named" => rcpts = NamedBy(list)

(* The same of any list: no number is too large for it.                    *)
ExpandsAnyNumber == reading = "named" => rcpts = NamedBy(list)
=============================================================================

------------------------------ MODULE JmapProofs ------------------------------
(***************************************************************************)
(* Proofs about Jmap, for every set of users, every number of clients and  *)
(* every place a server may have its API.                                  *)
(*                                                                         *)
(* What a chain returns depends on an answer, which the client looks at    *)
(* one step after the server gave it: the invariant says what an answer    *)
(* not looked at may be, and what a request in flight carries.             *)
(***************************************************************************)
EXTENDS Jmap, SequenceTheorems, TLAPS

(* Only a worker that waits has a request in flight or an answer, and not  *)
(* both.                                                                   *)
TrafficOK == \A w \in Ids :
  /\ request[w] # None => pc[w] = "wait" /\ response[w] = None
  /\ response[w] # None => pc[w] = "wait"

(* An answer is to the request the worker is at.                           *)
AnswerOK == \A w \in Ids : response[w] # None =>
  \/ response[w] \in [status : {"fault"}]
  \/ step[w] = "session" /\ response[w] \in SessionReplies
  \/ step[w] # "session" /\ response[w] \in MethodReplies

(* The accounts a worker's requests may be for.                            *)
Rightful(w) == IF server.primary THEN {PrimaryOf(UserOf(w))} ELSE AccountsOf(UserOf(w))

(* A session resource names no endpoint and no account but the right ones. *)
HonestOK == \A w \in Ids : response[w] \in SessionReplies =>
  /\ response[w].apiUrl \in {Names, None}
  /\ Candidates(response[w]) \subseteq Rightful(w)

(* A client knows nothing, or what the session said and an account of its  *)
(* user.                                                                   *)
LearntOK == \A w \in Ids : sess[w] # None =>
  sess[w].url = Names /\ sess[w].account \in Rightful(w)

(* Past discovery, a request in flight is for where the API is, and for    *)
(* the account its client knows.                                           *)
CarriesOK == \A w \in Ids : pc[w] = "wait" /\ step[w] # "session" =>
  /\ sess[w] # None
  /\ request[w] # None => request[w].url = server.api /\ request[w].account = sess[w].account

(* A method that failed in the chain under way is in the answer that waits *)
(* to be looked at, where the check of methods finds it.                   *)
FailedOK == \A w \in Ids : pc[w] \in {"wait", "ok"} /\ failed[w] =>
  /\ pc[w] = "wait" /\ response[w] # None /\ step[w] # "session"
  /\ response[w] \in MethodReplies
  /\ ~MethodsSucceeded(response[w].entries)

Inv ==
  /\ TypeOK /\ TrafficOK /\ AnswerOK /\ HonestOK /\ LearntOK /\ CarriesOK
  /\ FailureIsObserved

-----------------------------------------------------------------------------
LEMMA UserType == \A w \in Ids : UserOf(w) \in Range(Users)
<1> SUFFICES ASSUME NEW w \in Ids PROVE UserOf(w) \in Range(Users)
  OBVIOUS
<1>1. Len(Users) \in Nat /\ Len(Users) > 0 /\ DOMAIN Users = 1 .. Len(Users)
  BY UsersAssumption
<1>2. (w % Len(Users)) + 1 \in 1 .. Len(Users)
  BY <1>1, ServerAssumption DEF Ids
<1> QED
  BY <1>1, <1>2 DEF UserOf, Range

LEMMA AccountTypes ==
  ASSUME NEW w \in Ids
  PROVE  /\ AccountsOf(UserOf(w)) \subseteq Accounts
         /\ PrimaryOf(UserOf(w)) \in AccountsOf(UserOf(w)) \cup {None}
         /\ server.primary => PrimaryOf(UserOf(w)) # None
  BY UserType, NoneAssumption DEF Accounts, AccountsOf, PrimaryOf

(* What the session says leads to the API, whichever way it says it.       *)
LEMMA Resolved ==
  ASSUME server \in Servers
  PROVE  Names \in Endpoints \cup Paths /\ ApiUrl(Names) = server.api /\ server.api \in Endpoints
<1>1. /\ server.api \in Endpoints /\ server.relative \in BOOLEAN
      /\ server.relative => server.api.host = Base
  BY DEF Servers
<1>2. CASE server.relative
  <2>1. server.api = [host |-> Base, path |-> server.api.path] /\ server.api.path \in Paths
    BY <1>1, <1>2 DEF Endpoints
  <2> QED
    BY <1>1, <1>2, <2>1 DEF Names, ApiUrl
<1>3. CASE ~server.relative
  BY <1>1, <1>3, ServerAssumption DEF Names, ApiUrl
<1> QED
  BY <1>1, <1>2, <1>3

LEMMA MethodsType ==
  ASSUME NEW r \in Steps
  PROVE  Methods(r) \in Seq({"Mailbox/get", "Email/query", "Email/get", "Thread/get"})
<1> DEFINE All == {"Mailbox/get", "Email/query", "Email/get", "Thread/get"}
<1>1. /\ <<>> \in Seq(All) /\ <<"Mailbox/get">> \in Seq(All)
      /\ <<"Email/query", "Email/get">> \in Seq(All) /\ <<"Thread/get">> \in Seq(All)
  OBVIOUS
<1>2. \A s, t \in Seq(All) : s \o t \in Seq(All)
  BY ConcatProperties
<1>3. CASE r = "session"
  BY <1>1, <1>3 DEF Methods
<1>4. CASE r = "Mailbox/get"
  BY <1>1, <1>4 DEF Methods
<1>5. CASE r = "Email/query+get"
  <2> DEFINE more == IF opts.threads THEN <<"Thread/get">> ELSE <<>>
  <2>1. more \in Seq(All)
    BY <1>1
  <2>2. Methods(r) = <<"Email/query", "Email/get">> \o more
    BY <1>5 DEF Methods
  <2> QED
    BY <1>1, <1>2, <2>1, <2>2
<1> QED
  BY <1>3, <1>4, <1>5 DEF Steps

LEMMA NoneIsNothing ==
  /\ \A k \in Known : k # None
  /\ \A q \in Requests : q # None
  /\ \A r \in Responses : r # None
  /\ \A a \in Accounts : a # None
  BY NoneAssumption

LEMMA InitInv == Init => Inv /\ FailedOK
<1> SUFFICES ASSUME Init PROVE Inv /\ FailedOK
  OBVIOUS
<1>1. TypeOK
  BY DEF Init, TypeOK, Steps
<1>2. HonestOK
  BY NoneIsNothing DEF Init, HonestOK, Responses
<1> QED
  BY <1>1, <1>2 DEF Init, Inv, FailedOK, TrafficOK, AnswerOK, LearntOK, CarriesOK,
    FailureIsObserved

-----------------------------------------------------------------------------
(* The server's steps. *)

LEMMA FaultStep ==
  ASSUME Inv, NEW w \in Ids, Fault(w)
  PROVE  Inv' /\ (FailedOK => FailedOK')
<1> DEFINE r == [status |-> "fault"]
<1>1. /\ request[w] # None
      /\ request' = [request EXCEPT ![w] = None] /\ response' = [response EXCEPT ![w] = r]
      /\ UNCHANGED <<opts, server, repaired, sess, pc, step, counted, failed, missing, completed>>
  BY DEF Fault, Respond, Set, books
<1>2. r \in [status : {"fault"}] /\ r \in Responses /\ r \notin SessionReplies
  BY DEF Responses, SessionReplies
<1>3. TypeOK'
  BY <1>1, <1>2 DEF Inv, TypeOK
<1>4. TrafficOK' /\ AnswerOK' /\ HonestOK'
  BY <1>1, <1>2 DEF Inv, TypeOK, TrafficOK, AnswerOK, HonestOK, Candidates, Names, Rightful, PrimaryOf
<1>5. LearntOK' /\ CarriesOK' /\ FailureIsObserved'
  BY <1>1 DEF Inv, TypeOK, LearntOK, CarriesOK, Names, Rightful, PrimaryOf, FailureIsObserved
<1>6. FailedOK => FailedOK'
  BY <1>1 DEF Inv, TypeOK, TrafficOK, FailedOK
<1> QED
  BY <1>3, <1>4, <1>5, <1>6 DEF Inv

LEMMA ServeSessionStep ==
  ASSUME Inv, NEW w \in Ids, ServeSession(w)
  PROVE  Inv' /\ (FailedOK => FailedOK')
<1>1. PICK json \in BOOLEAN, hasUrl \in BOOLEAN, hasAccounts \in BOOLEAN :
        response' = [response EXCEPT ![w] =
          [status |-> "200", json |-> json,
           apiUrl |-> IF hasUrl THEN Names ELSE None,
           primary |-> IF hasAccounts THEN PrimaryOf(UserOf(w)) ELSE None,
           accounts |-> IF hasAccounts THEN AccountsOf(UserOf(w)) ELSE {}]]
  BY DEF ServeSession, Respond, Set, Inv, TypeOK
<1> DEFINE r == [status |-> "200", json |-> json,
                 apiUrl |-> IF hasUrl THEN Names ELSE None,
                 primary |-> IF hasAccounts THEN PrimaryOf(UserOf(w)) ELSE None,
                 accounts |-> IF hasAccounts THEN AccountsOf(UserOf(w)) ELSE {}]
<1>2. /\ request[w] # None /\ step[w] = "session"
      /\ request' = [request EXCEPT ![w] = None]
      /\ UNCHANGED <<opts, server, repaired, sess, pc, step, counted, failed, missing, completed>>
  BY DEF ServeSession, Respond, Set, books
<1>3. r \in SessionReplies
  BY AccountTypes, Resolved DEF SessionReplies, Inv, TypeOK
<1>4. r.apiUrl \in {Names, None} /\ Candidates(r) \subseteq Rightful(w)
  BY AccountTypes DEF Candidates, Rightful, PrimaryOf
<1> HIDE DEF r
<1>5. TypeOK'
  BY <1>1, <1>2, <1>3 DEF Inv, TypeOK, Responses, r
<1>6. TrafficOK' /\ AnswerOK'
  BY <1>1, <1>2, <1>3 DEF Inv, TypeOK, TrafficOK, AnswerOK, r
<1>7. HonestOK'
  <2>1. (\A v \in Ids : Rightful(v)' = Rightful(v)) /\ Names' = Names
    BY <1>2 DEF Names, Rightful, PrimaryOf
  <2>2. response'[w] = r /\ \A v \in Ids \ {w} : response'[v] = response[v]
    BY <1>1 DEF Inv, TypeOK, r
  <2> QED
    BY <1>2, <1>4, <2>1, <2>2 DEF Inv, HonestOK, Candidates
<1>8. LearntOK' /\ CarriesOK' /\ FailureIsObserved'
  BY <1>2 DEF Inv, TypeOK, LearntOK, CarriesOK, Names, Rightful, PrimaryOf, FailureIsObserved
<1>9. FailedOK => FailedOK'
  BY <1>1, <1>2 DEF Inv, TypeOK, TrafficOK, FailedOK
<1> QED
  BY <1>5, <1>6, <1>7, <1>8, <1>9 DEF Inv

(* However the methods of a batch end, the answer to it is a method reply, *)
(* and tells of a failure if nothing was left out of it.                   *)
LEMMA MethodsOutcome ==
  ASSUME NEW k \in Nat, NEW known, NEW entries \in Outcomes(k, known),
         NEW malformed \in BOOLEAN, NEW kept \in 0 .. k
  PROVE  LET all == IF malformed THEN Set(entries, 1, "malformed") ELSE entries
             shown == SubSeq(all, 1, kept)
         IN  /\ Len(entries) = k
             /\ shown \in Seq(Entries)
             /\ kept = k /\ "error" \in Range(entries) => ~MethodsSucceeded(shown)
<1> DEFINE all == IF malformed THEN Set(entries, 1, "malformed") ELSE entries
           shown == SubSeq(all, 1, kept)
<1>1. PICK first : entries = [i \in 1 .. k |-> IF i < first THEN "ok" ELSE "error"]
  BY DEF Outcomes
<1>2. entries \in [1 .. k -> Entries] /\ all \in [1 .. k -> Entries]
  BY <1>1 DEF Set, Entries
<1>3. entries \in Seq(Entries) /\ Len(entries) = k /\ all \in Seq(Entries) /\ Len(all) = k
  BY <1>2
<1>4. /\ shown \in Seq(Entries) /\ Len(shown) = kept
      /\ \A i \in 1 .. kept : shown[i] = all[i]
  BY <1>3, SubSeqProperties
<1>5. ASSUME kept = k, "error" \in Range(entries)
      PROVE  ~MethodsSucceeded(shown)
  <2>1. PICK i \in 1 .. k : entries[i] = "error"
    BY <1>2, <1>5 DEF Range
  <2>2. all[i] # "ok"
    BY <1>2, <2>1 DEF Set
  <2>3. i \in DOMAIN shown /\ shown[i] # "ok"
    BY <1>4, <1>5, <2>1, <2>2
  <2> QED
    BY <2>3 DEF MethodsSucceeded
<1> QED
  BY <1>3, <1>4, <1>5

LEMMA ServeMethodsStep ==
  ASSUME Inv, NEW w \in Ids, ServeMethods(w)
  PROVE  Inv' /\ (~Shortens /\ FailedOK => FailedOK')
<1>1. /\ request[w] # None /\ step[w] # "session"
      /\ request' = [request EXCEPT ![w] = None]
      /\ UNCHANGED <<opts, server, repaired, sess, pc, step, counted, completed>>
  BY DEF ServeMethods, Respond, Set
<1> DEFINE k == Len(request[w].methods)
<1>2. request[w] \in Requests /\ k \in Nat
  BY <1>1 DEF Inv, TypeOK, Requests
<1>3. PICK entries \in Outcomes(k, Knows(w)), kept \in (IF Shortens THEN 0 ELSE k) .. k,
           malformed \in {FALSE, ~repaired} :
        /\ Respond(w, [status |-> "200",
             entries |-> SubSeq(IF malformed THEN Set(entries, 1, "malformed") ELSE entries, 1, kept)])
        /\ failed' = Set(failed, w, failed[w] \/ "error" \in Range(entries))
        /\ missing' = Set(missing, w, missing[w] \/ kept < Len(entries))
  BY DEF ServeMethods
<1> DEFINE shown == SubSeq(IF malformed THEN Set(entries, 1, "malformed") ELSE entries, 1, kept)
           r == [status |-> "200", entries |-> shown]
<1>4. kept \in 0 .. k /\ malformed \in BOOLEAN /\ (~Shortens => kept = k)
  <2>1. kept \in 0 .. k /\ (~Shortens => kept = k)
    BY <1>2
  <2>2. malformed \in BOOLEAN
    BY DEF Inv, TypeOK
  <2> QED
    BY <2>1, <2>2
<1>5. /\ shown \in Seq(Entries)
      /\ kept = k /\ "error" \in Range(entries) => ~MethodsSucceeded(shown)
  BY <1>2, <1>4, MethodsOutcome
<1>6. response' = [response EXCEPT ![w] = r]
  BY <1>3 DEF Respond, Set
<1>7. r \in MethodReplies /\ r \in Responses /\ r \notin SessionReplies /\ r # None
  BY <1>5, NoneIsNothing DEF MethodReplies, Responses, SessionReplies
<1>8. /\ failed' = [failed EXCEPT ![w] = failed[w] \/ "error" \in Range(entries)]
      /\ missing' = [missing EXCEPT ![w] = missing[w] \/ kept < Len(entries)]
  BY <1>3 DEF Set
<1>9. r.entries = shown
  OBVIOUS
<1> HIDE DEF r, k, shown
<1>10. TypeOK'
  <2>1. request' \in [Ids -> Requests \cup {None}]
    BY <1>1 DEF Inv, TypeOK
  <2>2. response' \in [Ids -> Responses \cup {None}]
    BY <1>6, <1>7 DEF Inv, TypeOK
  <2>3. failed' \in [Ids -> BOOLEAN] /\ missing' \in [Ids -> BOOLEAN]
    BY <1>8 DEF Inv, TypeOK
  <2> QED
    BY <1>1, <2>1, <2>2, <2>3 DEF Inv, TypeOK
<1>11. TrafficOK'
  BY <1>1, <1>6, <1>7 DEF Inv, TypeOK, TrafficOK
<1>12. AnswerOK'
  BY <1>1, <1>6, <1>7 DEF Inv, TypeOK, AnswerOK
<1>13. HonestOK'
  <2>1. (\A v \in Ids : Rightful(v)' = Rightful(v)) /\ Names' = Names
    BY <1>1 DEF Names, Rightful, PrimaryOf
  <2> QED
    BY <1>1, <1>6, <1>7, <2>1 DEF Inv, TypeOK, HonestOK, Candidates
<1>14. LearntOK' /\ CarriesOK' /\ FailureIsObserved'
  BY <1>1 DEF Inv, TypeOK, LearntOK, CarriesOK, Names, Rightful, PrimaryOf, FailureIsObserved
<1>15. ASSUME ~Shortens, FailedOK PROVE FailedOK'
  <2>1. SUFFICES ASSUME NEW v \in Ids, pc'[v] \in {"wait", "ok"}, failed'[v]
                 PROVE  /\ pc'[v] = "wait" /\ response'[v] # None /\ step'[v] # "session"
                        /\ response'[v] \in MethodReplies
                        /\ ~MethodsSucceeded(response'[v].entries)
    BY DEF FailedOK
  <2>2. CASE v # w
    BY <1>1, <1>6, <1>8, <1>15, <2>1, <2>2 DEF Inv, TypeOK, FailedOK
  <2>3. CASE v = w
    <3>1. response[w] = None /\ pc[w] = "wait"
      BY <1>1 DEF Inv, TrafficOK
    <3>2. ~failed[w]
      BY <1>15, <3>1 DEF FailedOK
    <3>3. failed[w] \/ "error" \in Range(entries)
      BY <1>8, <2>1, <2>3 DEF Inv, TypeOK
    <3>4. ~MethodsSucceeded(shown)
      BY <1>4, <1>5, <1>15, <3>2, <3>3
    <3>5. response'[w] = r
      BY <1>6 DEF Inv, TypeOK
    <3> QED
      BY <1>1, <1>7, <1>9, <2>3, <3>1, <3>4, <3>5
  <2> QED
    BY <2>2, <2>3
<1> QED
  BY <1>10, <1>11, <1>12, <1>13, <1>14, <1>15 DEF Inv

-----------------------------------------------------------------------------
(* The client's steps. *)

(* A worker that sends: what its request carries, and where it waits.      *)
LEMMA SendStep ==
  ASSUME Inv, NEW w \in Ids, NEW r \in Steps, NEW s \in Known \cup {None},
         sess' = [sess EXCEPT ![w] = s], Send(w, r),
         r # "session" => s # None,
         s # None => s.url = Names /\ s.account \in Rightful(w),
         \/ request[w] = None /\ response[w] = None /\ UNCHANGED response
         \/ request[w] = None /\ response' = [response EXCEPT ![w] = None],
         counted' \in [Ids -> BOOLEAN], failed' \in [Ids -> BOOLEAN],
         missing' \in [Ids -> BOOLEAN], \A v \in Ids \ {w} : counted'[v] = counted[v],
         UNCHANGED <<opts, server, repaired, completed>>
  PROVE  Inv'
<1> DEFINE q == IF r = "session"
                THEN [methods |-> Methods(r), url |-> None, account |-> None]
                ELSE [methods |-> Methods(r), url |-> ApiUrl(s.url), account |-> s.account]
<1>1. /\ step' = [step EXCEPT ![w] = r] /\ pc' = [pc EXCEPT ![w] = "wait"]
      /\ request' = [request EXCEPT ![w] = q]
      /\ sess'[w] = s
  BY DEF Send, Set, Inv, TypeOK
<1>2. q \in Requests /\ (r # "session" => q.url = server.api /\ q.account = s.account)
  <2>1. CASE r = "session"
    BY <2>1, MethodsType DEF Requests
  <2>2. CASE r # "session"
    <3>1. ApiUrl(s.url) = server.api /\ server.api \in Endpoints /\ s.account \in Accounts
      BY <2>2, Resolved DEF Known, Inv, TypeOK
    <3> QED
      BY <2>2, <3>1, MethodsType DEF Requests
  <2> QED
    BY <2>1, <2>2
<1> HIDE DEF q
<1>3. response' = [response EXCEPT ![w] = None]
  BY DEF Inv, TypeOK
<1>4. TypeOK'
  BY <1>1, <1>2, <1>3 DEF Inv, TypeOK
<1>5. TrafficOK'
  BY <1>1, <1>3 DEF Inv, TypeOK, TrafficOK
<1>6. AnswerOK'
  BY <1>1, <1>3 DEF Inv, TypeOK, AnswerOK
<1>7. (\A v \in Ids : Rightful(v)' = Rightful(v)) /\ Names' = Names
  BY DEF Names, Rightful, PrimaryOf
<1>8. HonestOK'
  BY <1>3, <1>7, NoneIsNothing DEF Inv, TypeOK, HonestOK, Candidates, Responses
<1>9. LearntOK'
  BY <1>7 DEF Inv, TypeOK, LearntOK
<1>10. CarriesOK'
  BY <1>1, <1>2 DEF Inv, TypeOK, CarriesOK
<1>11. FailureIsObserved'
  BY <1>1 DEF Inv, TypeOK, FailureIsObserved
<1> QED
  BY <1>4, <1>5, <1>6, <1>8, <1>9, <1>10, <1>11 DEF Inv

(* A worker that leaves its request behind, for a place where nothing is   *)
(* awaited.                                                                *)
LEMMA LeaveStep ==
  ASSUME Inv, NEW w \in Ids, NEW place \in {"idle", "ok", "error", "panic"},
         pc' = [pc EXCEPT ![w] = place],
         request[w] = None,
         \/ response[w] = None /\ UNCHANGED response
         \/ response' = [response EXCEPT ![w] = None],
         counted' \in [Ids -> BOOLEAN], failed' \in [Ids -> BOOLEAN],
         missing' \in [Ids -> BOOLEAN], \A v \in Ids \ {w} : counted'[v] = counted[v],
         place = "error" /\ step[w] # "session" => counted'[w],
         completed' \subseteq Ids,
         UNCHANGED <<opts, server, repaired, sess, step, request>>
  PROVE  Inv'
<1>1. response' = [response EXCEPT ![w] = None]
  BY DEF Inv, TypeOK
<1>2. TypeOK'
  BY <1>1 DEF Inv, TypeOK
<1>3. TrafficOK' /\ AnswerOK'
  BY <1>1 DEF Inv, TypeOK, TrafficOK, AnswerOK
<1>4. (\A v \in Ids : Rightful(v)' = Rightful(v)) /\ Names' = Names
  BY DEF Names, Rightful, PrimaryOf
<1>5. HonestOK'
  BY <1>1, <1>4, NoneIsNothing DEF Inv, TypeOK, HonestOK, Candidates, Responses
<1>6. LearntOK' /\ CarriesOK' /\ FailureIsObserved'
  BY <1>4 DEF Inv, TypeOK, LearntOK, CarriesOK, FailureIsObserved
<1> QED
  BY <1>2, <1>3, <1>5, <1>6 DEF Inv

LEMMA BeginStep ==
  ASSUME Inv, NEW w \in Ids, Begin(w)
  PROVE  Inv' /\ (FailedOK => FailedOK')
<1> DEFINE first == IF sess[w] = None THEN "session" ELSE "Mailbox/get"
<1>1. /\ pc[w] = "idle"
      /\ counted' = [counted EXCEPT ![w] = FALSE]
      /\ failed' = [failed EXCEPT ![w] = FALSE]
      /\ missing' = [missing EXCEPT ![w] = FALSE]
      /\ UNCHANGED <<sess, opts, server, repaired, response, completed>>
      /\ pc' \in {[pc EXCEPT ![w] = "panic"], [pc EXCEPT ![w] = "wait"]}
  BY DEF Begin, BeginFrom, Send, Set
<1>2. request[w] = None /\ response[w] = None
  BY <1>1 DEF Inv, TrafficOK
<1>3. /\ counted' \in [Ids -> BOOLEAN] /\ failed' \in [Ids -> BOOLEAN]
      /\ missing' \in [Ids -> BOOLEAN] /\ completed' \subseteq Ids
  BY <1>1 DEF Inv, TypeOK
<1>4. \A v \in Ids \ {w} : counted'[v] = counted[v]
  BY <1>1 DEF Inv, TypeOK
<1>5. ASSUME UNCHANGED <<step, request>>, pc' = [pc EXCEPT ![w] = "panic"]
      PROVE  Inv'
  BY <1>1, <1>2, <1>3, <1>4, <1>5, LeaveStep
<1>6. ASSUME Send(w, first) PROVE Inv'
  <2>1. first \in Steps /\ (first # "session" => sess[w] # None)
    BY DEF Steps
  <2>2. sess' = [sess EXCEPT ![w] = sess[w]] /\ sess[w] \in Known \cup {None}
    BY <1>1 DEF Inv, TypeOK
  <2>3. sess[w] # None => sess[w].url = Names /\ sess[w].account \in Rightful(w)
    BY DEF Inv, LearntOK
  <2> HIDE DEF first
  <2> QED
    BY <1>1, <1>2, <1>3, <1>4, <1>6, <2>1, <2>2, <2>3, SendStep
<1>7. Inv'
  BY <1>5, <1>6 DEF Begin, BeginFrom, Set
<1>8. FailedOK => FailedOK'
  <2>1. \A v \in Ids \ {w} : pc'[v] = pc[v] /\ step'[v] = step[v] /\ failed'[v] = failed[v]
    BY <1>1 DEF Begin, BeginFrom, Send, Set, Inv, TypeOK
  <2>2. ~failed'[w]
    BY <1>1 DEF Inv, TypeOK
  <2> QED
    BY <1>1, <2>1, <2>2 DEF FailedOK
<1> QED
  BY <1>7, <1>8

(* What every step that looks at an answer has in common.                  *)
LEMMA LookingStep ==
  ASSUME Inv, NEW w \in Ids, Looking(w), NEW e \in BOOLEAN, Count(w, e)
  PROVE  /\ pc[w] = "wait" /\ response[w] # None /\ response[w] \in Responses
         /\ request[w] = None
         /\ response' = [response EXCEPT ![w] = None]
         /\ counted' \in [Ids -> BOOLEAN] /\ failed' \in [Ids -> BOOLEAN]
         /\ missing' \in [Ids -> BOOLEAN] /\ completed' \subseteq Ids
         /\ \A v \in Ids \ {w} : counted'[v] = counted[v]
         /\ e => counted'[w]
         /\ UNCHANGED <<opts, server, repaired, failed, missing, completed>>
  BY DEF Looking, Count, Set, Inv, TypeOK, TrafficOK

LEMMA DiscoverStep ==
  ASSUME Inv, NEW w \in Ids, Discover(w)
  PROVE  Inv' /\ (FailedOK => FailedOK')
<1> DEFINE r == response[w]
           usable == r.status = "200" /\ r.json /\ r.apiUrl # None /\ Candidates(r) # {}
           bad == response[w].status # "200"
<1>1. Looking(w) /\ step[w] = "session" /\ Count(w, bad) /\ bad \in BOOLEAN
  BY DEF Discover
<1>2. /\ pc[w] = "wait" /\ r # None /\ request[w] = None
      /\ response' = [response EXCEPT ![w] = None]
      /\ counted' \in [Ids -> BOOLEAN] /\ failed' \in [Ids -> BOOLEAN]
      /\ missing' \in [Ids -> BOOLEAN] /\ completed' \subseteq Ids
      /\ \A v \in Ids \ {w} : counted'[v] = counted[v]
      /\ UNCHANGED <<opts, server, repaired, failed, missing, completed>>
  BY <1>1, LookingStep
<1>3. CASE ~usable
  <2>1. Return(w, "error") /\ UNCHANGED sess
    BY <1>3 DEF Discover
  <2>2. pc' = [pc EXCEPT ![w] = "error"] /\ UNCHANGED <<step, request, sess>>
    BY <2>1 DEF Return, Set
  <2>3. Inv'
    BY <1>1, <1>2, <2>2, LeaveStep
  <2>4. FailedOK => FailedOK'
    BY <1>2, <2>2 DEF FailedOK, Inv, TypeOK
  <2> QED
    BY <2>3, <2>4
<1>4. CASE usable
  <2>1. PICK a \in Candidates(r) :
          /\ sess' = Set(sess, w, [url |-> r.apiUrl, account |-> a])
          /\ Send(w, "Mailbox/get")
    BY <1>4 DEF Discover
  <2>2. r \in SessionReplies
    BY <1>1, <1>2, <1>4 DEF Inv, AnswerOK
  <2>3. r.apiUrl = Names /\ a \in Rightful(w)
    BY <1>4, <2>1, <2>2 DEF Inv, HonestOK
  <2>4. a \in Accounts
    BY <2>2 DEF Candidates, SessionReplies
  <2> DEFINE s == [url |-> r.apiUrl, account |-> a]
  <2>5. s \in Known /\ s # None /\ s.url = Names /\ s.account \in Rightful(w)
    BY <2>3, <2>4, Resolved, NoneIsNothing DEF Known, Inv, TypeOK
  <2>6. sess' = [sess EXCEPT ![w] = s] /\ "Mailbox/get" \in Steps
    BY <2>1 DEF Set, Steps
  <2>7. Inv'
    <3> HIDE DEF s
    <3> QED
      BY <1>2, <2>1, <2>5, <2>6, SendStep
  <2>8. FailedOK => FailedOK'
    <3>1. FailedOK => ~failed[w]
      BY <1>1, <1>2 DEF FailedOK
    <3>2. \A v \in Ids \ {w} : pc'[v] = pc[v] /\ step'[v] = step[v] /\ response'[v] = response[v]
      BY <1>2, <2>1 DEF Send, Set, Inv, TypeOK
    <3> QED
      BY <1>2, <3>1, <3>2 DEF FailedOK
  <2> QED
    BY <2>7, <2>8
<1> QED
  BY <1>3, <1>4

LEMMA AnsweredStep ==
  ASSUME Inv, NEW w \in Ids, Answered(w)
  PROVE  Inv' /\ (FailedOK => FailedOK')
<1> DEFINE fine == Succeeded(w)
<1>1. /\ Looking(w) /\ step[w] # "session" /\ Count(w, ~fine) /\ UNCHANGED sess
      /\ (~fine) \in BOOLEAN
  BY DEF Answered, AnsweredCounting
<1>2. /\ pc[w] = "wait" /\ response[w] # None /\ request[w] = None
      /\ response' = [response EXCEPT ![w] = None]
      /\ counted' \in [Ids -> BOOLEAN] /\ failed' \in [Ids -> BOOLEAN]
      /\ missing' \in [Ids -> BOOLEAN] /\ completed' \subseteq Ids
      /\ \A v \in Ids \ {w} : counted'[v] = counted[v]
      /\ ~fine => counted'[w]
      /\ UNCHANGED <<opts, server, repaired, failed, missing, completed>>
  BY <1>1, LookingStep
<1>3. FailedOK /\ fine => ~failed[w]
  BY <1>2 DEF FailedOK, Succeeded, StatusOK
<1>4. ASSUME NEW place \in {"ok", "error"}, Return(w, place), place = "ok" => fine,
             place = "error" => ~fine
      PROVE  Inv' /\ (FailedOK => FailedOK')
  <2>1. pc' = [pc EXCEPT ![w] = place] /\ UNCHANGED <<step, request>>
    BY <1>4 DEF Return, Set
  <2>2. Inv'
    BY <1>1, <1>2, <1>4, <2>1, LeaveStep
  <2>3. FailedOK => FailedOK'
    BY <1>2, <1>3, <1>4, <2>1 DEF FailedOK, Inv, TypeOK
  <2> QED
    BY <2>2, <2>3
<1>5. CASE fine /\ Send(w, "Email/query+get")
  <2>1. /\ sess' = [sess EXCEPT ![w] = sess[w]] /\ sess[w] \in Known /\ sess[w] # None
        /\ "Email/query+get" \in Steps
    BY <1>1, <1>2 DEF Inv, TypeOK, CarriesOK, Steps
  <2>2. sess[w].url = Names /\ sess[w].account \in Rightful(w)
    BY <2>1 DEF Inv, LearntOK
  <2>3. Inv'
    BY <1>2, <1>5, <2>1, <2>2, SendStep
  <2>4. \A v \in Ids \ {w} : pc'[v] = pc[v] /\ step'[v] = step[v] /\ response'[v] = response[v]
    BY <1>2, <1>5 DEF Send, Set, Inv, TypeOK
  <2>5. FailedOK => FailedOK'
    BY <1>2, <1>3, <1>5, <2>4 DEF FailedOK
  <2> QED
    BY <2>3, <2>5
<1> QED
  BY <1>4, <1>5 DEF Answered, AnsweredCounting

LEMMA AgainStep ==
  ASSUME Inv, NEW w \in Ids, Again(w)
  PROVE  Inv' /\ (FailedOK => FailedOK')
<1>1. /\ pc[w] \in {"ok", "error"} /\ pc' = [pc EXCEPT ![w] = "idle"]
      /\ completed' \subseteq completed \cup {w}
      /\ UNCHANGED <<opts, server, repaired, sess, step, request, response, counted, failed, missing>>
  BY DEF Again, Set, books
<1>2. request[w] = None /\ response[w] = None
  BY <1>1 DEF Inv, TrafficOK
<1>3. Inv'
  <2>1. /\ counted' \in [Ids -> BOOLEAN] /\ failed' \in [Ids -> BOOLEAN]
        /\ missing' \in [Ids -> BOOLEAN] /\ completed' \subseteq Ids
    BY <1>1 DEF Inv, TypeOK
  <2> QED
    BY <1>1, <1>2, <2>1, LeaveStep
<1>4. FailedOK => FailedOK'
  BY <1>1 DEF FailedOK, Inv, TypeOK
<1> QED
  BY <1>3, <1>4

LEMMA NextStep ==
  ASSUME Inv, [Next]_vars
  PROVE  Inv' /\ (~Shortens /\ FailedOK => FailedOK')
<1>1. CASE Repair
  <2>1. /\ repaired' = TRUE
        /\ UNCHANGED <<opts, server, sess, pc, step, request, response, counted, failed, missing,
                      completed>>
    BY <1>1 DEF Repair, books
  <2>2. (\A v \in Ids : Rightful(v)' = Rightful(v)) /\ Names' = Names
    BY <2>1 DEF Names, Rightful, PrimaryOf
  <2>3. TypeOK' /\ TrafficOK' /\ AnswerOK'
    BY <2>1 DEF Inv, TypeOK, TrafficOK, AnswerOK
  <2>4. HonestOK' /\ LearntOK' /\ CarriesOK' /\ FailureIsObserved'
    BY <2>1, <2>2 DEF Inv, HonestOK, LearntOK, CarriesOK, FailureIsObserved, Candidates
  <2>5. FailedOK => FailedOK'
    BY <2>1 DEF FailedOK
  <2> QED
    BY <2>3, <2>4, <2>5 DEF Inv
<1>2. ASSUME NEW w \in Ids, ServerStep(w) \/ ClientStep(w)
      PROVE  Inv' /\ (~Shortens /\ FailedOK => FailedOK')
  <2>1. CASE Fault(w)
    BY <2>1, FaultStep
  <2>2. CASE ServeSession(w)
    BY <2>2, ServeSessionStep
  <2>3. CASE ServeMethods(w)
    BY <2>3, ServeMethodsStep
  <2>4. CASE Begin(w)
    BY <2>4, BeginStep
  <2>5. CASE Discover(w)
    BY <2>5, DiscoverStep
  <2>6. CASE Answered(w)
    BY <2>6, AnsweredStep
  <2>7. CASE Again(w)
    BY <2>7, AgainStep
  <2> QED
    BY <1>2, <2>1, <2>2, <2>3, <2>4, <2>5, <2>6, <2>7 DEF ServerStep, ClientStep
<1>3. CASE UNCHANGED vars
  <2>1. (\A v \in Ids : Rightful(v)' = Rightful(v)) /\ Names' = Names
    BY <1>3 DEF Names, Rightful, PrimaryOf, vars
  <2>2. TypeOK' /\ TrafficOK' /\ AnswerOK'
    BY <1>3 DEF Inv, TypeOK, TrafficOK, AnswerOK, vars, books
  <2>3. HonestOK' /\ LearntOK' /\ CarriesOK' /\ FailureIsObserved'
    BY <1>3, <2>1 DEF Inv, HonestOK, LearntOK, CarriesOK, FailureIsObserved, Candidates, vars, books
  <2>4. FailedOK => FailedOK'
    BY <1>3 DEF FailedOK, vars, books
  <2> QED
    BY <2>2, <2>3, <2>4 DEF Inv
<1> QED
  BY <1>1, <1>2, <1>3 DEF Next, Panicked

LEMMA Invariance == Spec => []Inv
<1>1. Init => Inv
  BY InitInv
<1>2. Inv /\ [Next]_vars => Inv'
  BY NextStep
<1> QED
  BY <1>1, <1>2, PTL DEF Spec

-----------------------------------------------------------------------------
(* The theorems. *)

(* Every variable keeps its type.                                          *)
THEOREM TypeCorrect == Spec => []TypeOK
<1>1. Inv => TypeOK
  BY DEF Inv
<1> QED
  BY <1>1, Invariance, PTL

(* With a server that answers every method of a batch, a chain returns nil *)
(* only if none of its methods failed, however many its batches hold.      *)
THEOREM FailuresFail ==
  ASSUME ~Shortens
  PROVE  Spec => []MethodFailureIsError
<1>1. Init => FailedOK
  BY InitInv
<1>2. Inv /\ FailedOK /\ [Next]_vars => FailedOK'
  BY NextStep
<1>3. FailedOK => MethodFailureIsError
  BY DEF FailedOK, MethodFailureIsError
<1> QED
  BY <1>1, <1>2, <1>3, Invariance, PTL DEF Spec

(* A chain that fails past discovery leaves a failed request in the        *)
(* collector, even with a server that leaves answers out.                  *)
THEOREM FailuresCounted == Spec => []FailureIsObserved
<1>1. Inv => FailureIsObserved
  BY DEF Inv
<1> QED
  BY <1>1, Invariance, PTL

(* A method goes to where the server has its API, for an account of the    *)
(* client's own user, whichever way each discovery before it ended and     *)
(* whether the session named a place or a path.                            *)
THEOREM RightAccount == Spec => []RequestsAsDiscovered
<1>1. Inv => RequestsAsDiscovered
  <2> SUFFICES ASSUME Inv, NEW w \in Ids, request[w] # None, step[w] # "session"
               PROVE  request[w].url = server.api /\ request[w].account \in Rightful(w)
    BY DEF RequestsAsDiscovered, Rightful
  <2>1. /\ request[w].url = server.api /\ sess[w] # None
        /\ request[w].account = sess[w].account
    BY DEF Inv, TrafficOK, CarriesOK
  <2> QED
    BY <2>1 DEF Inv, LearntOK
<1> QED
  BY <1>1, Invariance, PTL

(* A worker at the session has not learnt it, and one that has learnt it   *)
(* neither forgets it nor goes back.                                       *)
Asked == \A w \in Ids : step[w] = "session" => sess[w] = None
Keeps(w) == sess[w] # None =>
  /\ sess'[w] = sess[w]
  /\ step'[w] = "session" => step[w] = "session" /\ request'[w] = None

LEMMA KeepStep ==
  ASSUME Inv, Asked, [Next]_vars
  PROVE  Asked' /\ \A w \in Ids : Keeps(w)
<1>1. CASE UNCHANGED <<sess, step>>
  BY <1>1 DEF Asked, Keeps
<1>2. ASSUME NEW w \in Ids, Begin(w) PROVE Asked' /\ \A v \in Ids : Keeps(v)
  <2>1. /\ UNCHANGED sess
        /\ \/ UNCHANGED step
           \/ step' = [step EXCEPT ![w] = IF sess[w] = None THEN "session" ELSE "Mailbox/get"]
    BY <1>2 DEF Begin, BeginFrom, Send, Set
  <2> QED
    BY <2>1 DEF Asked, Keeps, Inv, TypeOK
<1>3. ASSUME NEW w \in Ids, Discover(w) PROVE Asked' /\ \A v \in Ids : Keeps(v)
  <2>1. step[w] = "session" /\ sess[w] = None
    BY <1>3 DEF Discover, Asked
  <2>2. \/ UNCHANGED <<sess, step>>
        \/ /\ \E s : sess' = [sess EXCEPT ![w] = s]
           /\ step' = [step EXCEPT ![w] = "Mailbox/get"]
    BY <1>3 DEF Discover, Return, Send, Set
  <2> QED
    BY <2>1, <2>2 DEF Asked, Keeps, Inv, TypeOK
<1>4. ASSUME NEW w \in Ids, Answered(w) PROVE Asked' /\ \A v \in Ids : Keeps(v)
  <2>1. /\ step[w] # "session" /\ UNCHANGED sess
        /\ \/ UNCHANGED step
           \/ step' = [step EXCEPT ![w] = "Email/query+get"]
    BY <1>4 DEF Answered, AnsweredCounting, Return, Send, Set
  <2> QED
    BY <2>1 DEF Asked, Keeps, Inv, TypeOK
<1>5. ASSUME NEW w \in Ids, ServerStep(w) \/ Again(w) PROVE UNCHANGED <<sess, step>>
  BY <1>5 DEF ServerStep, Fault, ServeSession, ServeMethods, Again
<1> QED
  BY <1>1, <1>2, <1>3, <1>4, <1>5 DEF Next, Repair, ClientStep, Panicked, vars

(* A client that has learnt its session keeps it and does not ask again.   *)
THEOREM NoSecondDiscovery == Spec => DiscoveredOnce
<1>1. Init => Asked
  BY DEF Init, Asked
<1>2. Inv /\ Asked /\ [Next]_vars => Asked'
  BY KeepStep
<1>3. Inv /\ Asked /\ [Next]_vars => [\A w \in Ids : Keeps(w)]_vars
  BY KeepStep
<1>4. Spec => [][\A w \in Ids : Keeps(w)]_vars
  BY <1>1, <1>2, <1>3, Invariance, PTL DEF Spec
<1>5. (\A w \in Ids : Keeps(w)) <=> \A w \in Ids : sess[w] # None =>
        /\ sess'[w] = sess[w]
        /\ step'[w] = "session" => step[w] = "session" /\ request'[w] = None
  BY DEF Keeps
<1> QED
  BY <1>4, <1>5, PTL DEF DiscoveredOnce
=============================================================================

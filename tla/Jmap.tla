-------------------------------- MODULE Jmap --------------------------------
(***************************************************************************)
(* The JMAP driver: workers that each run chains of requests with a client *)
(* of their own, which learns its account and where to send requests once  *)
(* and keeps both.                                                         *)
(*                                                                         *)
(* The run has no -iterations here: a worker begins a chain whenever it    *)
(* can.  The server is external.  It may lose a request, answer it with a  *)
(* status, or carry out its methods in order, each of which succeeds or    *)
(* fails, as does any whose back-reference is to one that failed; and its  *)
(* session resource may be unusable, until it is repaired.  It names the   *)
(* place of its API in full, or by a path to be looked for where the       *)
(* session was.                                                            *)
(***************************************************************************)
EXTENDS Naturals, Sequences, SequencesExt

CONSTANTS
  Users,         \* the users of the run, a sequence
  MaxClients,    \* bound: the largest -concurrency considered; 0 is one of them
  Threads,       \* the values of -threads considered
  Hosts, Paths,  \* where a server may have its API
  Base,          \* -url: the host that has the session resource
  Shortens,      \* BOOLEAN: the server may leave out answers to methods
  None           \* no session, no account, no request

(* A session resource names the accounts of its user, two of them here, of *)
(* which one may be primary.                                               *)
AccountsOf(u) == {<<u, "mail">>, <<u, "shared">>}
Accounts == UNION {AccountsOf(u) : u \in Range(Users)}

Endpoints == [host : Hosts, path : Paths]

(* What a client learns.                                                   *)
Known == [url : Endpoints \cup Paths, account : Accounts]

Steps == {"session", "Mailbox/get", "Email/query+get"}
Requests == [methods : Seq({"Mailbox/get", "Email/query", "Email/get", "Thread/get"}),
             url : Endpoints \cup {None}, account : Accounts \cup {None}]

Entries == {"ok", "error", "malformed"}
SessionReplies == [status : {"200"}, json : BOOLEAN, apiUrl : Endpoints \cup Paths \cup {None},
                   primary : Accounts \cup {None}, accounts : SUBSET Accounts]
MethodReplies == [status : {"200"}, entries : Seq(Entries)]
Responses == [status : {"fault"}] \cup SessionReplies \cup MethodReplies

ASSUME UsersAssumption == Users # <<>> /\ Users \in Seq(Range(Users))
ASSUME ServerAssumption ==
  /\ MaxClients \in Nat \ {0}
  /\ Base \in Hosts /\ Paths \cap Endpoints = {}
  /\ Threads \subseteq BOOLEAN /\ Shortens \in BOOLEAN
ASSUME NoneAssumption ==
  None \notin Endpoints \cup Paths \cup Accounts \cup Known \cup Requests \cup Responses

VARIABLES
  opts,      \* the run's flags
  server,    \* where it has its API, and whether its sessions say so by a
             \*   path alone and name a primary mail account; fixed for the run
  repaired,  \* the server answers everything from now on
  sess,      \* what each client knows: c.sess and c.account, or None
  pc,        \* where each worker is in its chain
  step,      \* the request it is at
  request,   \* its request in flight, or None
  response,  \* the answer it has not looked at, or None
  counted,   \* a request of this chain was observed as an error
  failed,    \* history: a method of this chain failed
  missing,   \* history: a method of this chain was never answered
  completed  \* history: workers that finished a chain begun after the repair

books == <<counted, failed, missing>>
vars == <<opts, server, repaired, sess, pc, step, request, response, books, completed>>

Ids == 0 .. MaxClients - 1

(* driver.Run raises -concurrency to one; main's list of clients keeps it. *)
Runs(w) == w < opts.concurrency \/ w = 0

(* NewClient deals the users round-robin. *)
UserOf(w) == Users[(w % Len(Users)) + 1]

PrimaryOf(u) == IF server.primary THEN <<u, "mail">> ELSE None

Methods(r) ==
  CASE r = "session" -> <<>>
    [] r = "Mailbox/get" -> <<"Mailbox/get">>
    [] r = "Email/query+get" ->
         <<"Email/query", "Email/get">> \o IF opts.threads THEN <<"Thread/get">> ELSE <<>>

(* A path alone means one where the session is.                            *)
Servers == {s \in [api : Endpoints, relative : BOOLEAN, primary : BOOLEAN] :
              s.relative => s.api.host = Base}

(* What a session gives as its apiUrl. *)
Names == IF server.relative THEN server.api.path ELSE server.api

(* apiURL: a URL as it is, a path after the base. *)
ApiUrl(url) == IF url \in Paths THEN [host |-> Base, path |-> url] ELSE url

Init ==
  /\ opts \in [concurrency : 0 .. MaxClients, threads : Threads]
  /\ server \in Servers
  /\ repaired = FALSE
  /\ sess = [w \in Ids |-> None]
  /\ pc = [w \in Ids |-> IF Runs(w) THEN "idle" ELSE "absent"]
  /\ step = [w \in Ids |-> "session"]
  /\ request = [w \in Ids |-> None]
  /\ response = [w \in Ids |-> None]
  /\ counted = [w \in Ids |-> FALSE]
  /\ failed = [w \in Ids |-> FALSE]
  /\ missing = [w \in Ids |-> FALSE]
  /\ completed = {}

Set(f, w, v) == [f EXCEPT ![w] = v]

-----------------------------------------------------------------------------
(* The server. *)

Repair ==
  /\ ~repaired
  /\ repaired' = TRUE
  /\ UNCHANGED <<opts, server, sess, pc, step, request, response, books, completed>>

Respond(w, r) == request' = Set(request, w, None) /\ response' = Set(response, w, r)

(* The request fails as a whole, in transport or with its status. *)
Fault(w) ==
  /\ request[w] # None /\ ~repaired
  /\ Respond(w, [status |-> "fault"])
  /\ UNCHANGED <<opts, server, repaired, sess, pc, step, books, completed>>

(* The session resource, which need not be JSON, need not hold an apiUrl   *)
(* and need not name an account.                                           *)
ServeSession(w) ==
  /\ request[w] # None /\ step[w] = "session"
  /\ \E json, hasUrl, hasAccounts \in {TRUE, repaired} :
       Respond(w, [status |-> "200", json |-> json,
                   apiUrl |-> IF hasUrl THEN Names ELSE None,
                   primary |-> IF hasAccounts THEN PrimaryOf(UserOf(w)) ELSE None,
                   accounts |-> IF hasAccounts THEN AccountsOf(UserOf(w)) ELSE {}])
  /\ UNCHANGED <<opts, server, repaired, sess, pc, step, books, completed>>

(* It knows the accounts of the user, and them alone, where it has its API.*)
Knows(w) ==
  /\ request[w].url = server.api
  /\ request[w].account \in AccountsOf(UserOf(w))

(* Which of a batch's methods may fail: all of those after one that did,   *)
(* for each refers back to the one before it.                              *)
Outcomes(k, known) ==
  {[i \in 1 .. k |-> IF i < first THEN "ok" ELSE "error"] :
     first \in CASE ~known -> {1} [] known /\ repaired -> {k + 1} [] OTHER -> 1 .. k + 1}

ServeMethods(w) ==
  /\ request[w] # None /\ step[w] # "session"
  /\ \E entries \in Outcomes(Len(request[w].methods), Knows(w)),
        kept \in (IF Shortens THEN 0 ELSE Len(request[w].methods)) .. Len(request[w].methods),
        malformed \in {FALSE, ~repaired} :
       /\ Respond(w, [status |-> "200",
            entries |-> SubSeq(IF malformed THEN Set(entries, 1, "malformed") ELSE entries, 1, kept)])
       /\ failed' = Set(failed, w, failed[w] \/ "error" \in Range(entries))
       /\ missing' = Set(missing, w, missing[w] \/ kept < Len(entries))
  /\ UNCHANGED <<opts, server, repaired, sess, pc, step, counted, completed>>

-----------------------------------------------------------------------------
(* One chain. *)

(* A request carries c.account to c.apiURL(), if it is not for the session.*)
Send(w, r) ==
  /\ step' = Set(step, w, r)
  /\ request' = Set(request, w,
       IF r = "session"
       THEN [methods |-> Methods(r), url |-> None, account |-> None]
       ELSE [methods |-> Methods(r), url |-> ApiUrl(sess'[w].url), account |-> sess'[w].account])
  /\ pc' = Set(pc, w, "wait")

(* Iterate is called; with no clients, main's index panics. *)
BeginFrom(w, first) ==
  /\ pc[w] = "idle"
  /\ counted' = Set(counted, w, FALSE)
  /\ failed' = Set(failed, w, FALSE)
  /\ missing' = Set(missing, w, FALSE)
  /\ UNCHANGED sess
  /\ \/ /\ opts.concurrency = 0
        /\ pc' = Set(pc, w, "panic")
        /\ UNCHANGED <<step, request>>
     \/ opts.concurrency > 0 /\ Send(w, first)
  /\ UNCHANGED <<opts, server, repaired, response, completed>>

(* Discovery as part of every chain. *)
BeginDiscovering(w) == BeginFrom(w, "session")

Begin(w) == BeginFrom(w, IF sess[w] = None THEN "session" ELSE "Mailbox/get")

Return(w, place) ==
  /\ pc' = Set(pc, w, place)
  /\ UNCHANGED <<step, request>>

Looking(w) ==
  /\ pc[w] = "wait" /\ response[w] # None
  /\ response' = Set(response, w, None)
  /\ UNCHANGED <<opts, server, repaired, failed, missing, completed>>

Count(w, isError) == counted' = Set(counted, w, counted[w] \/ isError)

(* accountID: the primary account, or any: a Go map has no first key. *)
Candidates(r) == IF r.primary # None THEN {r.primary} ELSE r.accounts

(* discover keeping what it has read before it has looked for an account. *)
DiscoverEagerly(w) ==
  /\ Looking(w) /\ step[w] = "session"
  /\ Count(w, response[w].status # "200")
  /\ IF response[w].status # "200"
     THEN Return(w, "error") /\ UNCHANGED sess
     ELSE \E a \in Candidates(response[w]) \cup {None} :
            /\ a = None <=> Candidates(response[w]) = {}
            /\ sess' = Set(sess, w, [url |-> response[w].apiUrl, account |-> a])
            /\ IF a = None THEN Return(w, "error") ELSE Send(w, "Mailbox/get")

(* discover: the request is observed before its body is looked at, and the *)
(* client learns everything or nothing.                                    *)
Discover(w) ==
  /\ Looking(w) /\ step[w] = "session"
  /\ Count(w, response[w].status # "200")
  /\ LET r == response[w]
         usable == r.status = "200" /\ r.json /\ r.apiUrl # None /\ Candidates(r) # {}
     IN  IF usable
         THEN \E a \in Candidates(r) :
                /\ sess' = Set(sess, w, [url |-> r.apiUrl, account |-> a])
                /\ Send(w, "Mailbox/get")
         ELSE Return(w, "error") /\ UNCHANGED sess

(* The check of methods confined to the first. *)
FirstMethodSucceeded(entries) == entries # <<>> /\ entries[1] = "ok"

(* checkMethodErrors: every entry there is must be well formed and not an  *)
(* error, and there must be one.                                           *)
MethodsSucceeded(entries) == entries # <<>> /\ \A i \in DOMAIN entries : entries[i] = "ok"

AnsweredCounting(w, succeeded, observed) ==
  /\ Looking(w) /\ step[w] # "session"
  /\ Count(w, ~observed)
  /\ UNCHANGED sess
  /\ \/ ~succeeded /\ Return(w, "error")
     \/ succeeded /\ step[w] = "Mailbox/get" /\ Send(w, "Email/query+get")
     \/ succeeded /\ step[w] = "Email/query+get" /\ Return(w, "ok")

StatusOK(w) == response[w].status = "200"

Succeeded(w) == StatusOK(w) /\ MethodsSucceeded(response[w].entries)

(* The request observed before its methods are looked at, as discover does. *)
AnsweredObservedEarly(w) == AnsweredCounting(w, Succeeded(w), StatusOK(w))

(* call, after do. *)
Answered(w) == AnsweredCounting(w, Succeeded(w), Succeeded(w))

(* Iterate returns to driver.Run, which calls it again. *)
Again(w) ==
  /\ pc[w] \in {"ok", "error"}
  /\ pc' = Set(pc, w, "idle")
  /\ completed' = IF repaired /\ pc[w] = "ok" THEN completed \cup {w} ELSE completed
  /\ UNCHANGED <<opts, server, repaired, sess, step, request, response, books>>

ServerStep(w) == Fault(w) \/ ServeSession(w) \/ ServeMethods(w)
ClientStep(w) == Begin(w) \/ Discover(w) \/ Answered(w) \/ Again(w)

Panicked == (\E w \in Ids : pc[w] = "panic") /\ UNCHANGED vars

Next == Repair \/ (\E w \in Ids : ServerStep(w) \/ ClientStep(w)) \/ Panicked

(***************************************************************************)
(* Every request has a time limit, so it is answered or fails; workers are *)
(* scheduled.  Nothing obliges the server to be repaired.                  *)
(***************************************************************************)
Fairness == \A w \in Ids : WF_vars(ServerStep(w)) /\ WF_vars(ClientStep(w))

Spec == Init /\ [][Next]_vars /\ Fairness

-----------------------------------------------------------------------------
(* Properties. *)

TypeOK ==
  /\ opts \in [concurrency : 0 .. MaxClients, threads : Threads]
  /\ server \in Servers
  /\ repaired \in BOOLEAN
  /\ sess \in [Ids -> Known \cup {None}]
  /\ pc \in [Ids -> {"absent", "idle", "wait", "ok", "error", "panic"}]
  /\ step \in [Ids -> Steps]
  /\ request \in [Ids -> Requests \cup {None}]
  /\ response \in [Ids -> Responses \cup {None}]
  /\ {counted, failed, missing} \subseteq [Ids -> BOOLEAN]
  /\ completed \subseteq Ids

(* A method that failed under a 200 fails the iteration, wherever it       *)
(* stands in its batch: a chain returns nil only if none did.              *)
MethodFailureIsError == \A w \in Ids : pc[w] = "ok" => ~failed[w]

(* A chain that fails after discovery has a request in the collector that  *)
(* failed, whether in transport, by its status or by one of its methods.   *)
FailureIsObserved == \A w \in Ids : pc[w] = "error" /\ step[w] # "session" => counted[w]

(* However often discovery failed before it succeeded, no method is sent   *)
(* but to where the server has its API, whichever way it named it, for an  *)
(* account it named to this client's user, the primary one if there is one.*)
RequestsAsDiscovered == \A w \in Ids :
  request[w] # None /\ step[w] # "session" =>
    /\ request[w].url = server.api
    /\ request[w].account \in
         IF server.primary THEN {PrimaryOf(UserOf(w))} ELSE AccountsOf(UserOf(w))

(* The session is fetched until it is learnt, and never again: a client    *)
(* that has one keeps it, whatever fails afterwards.                       *)
DiscoveredOnce == [][\A w \in Ids : sess[w] # None =>
  /\ sess'[w] = sess[w]
  /\ step'[w] = "session" => step[w] = "session" /\ request'[w] = None]_vars

(* A client whose discovery failed is not lost: once the server is well,   *)
(* every worker completes a chain.                                         *)
Recovers == \A w \in Ids :
  (repaired /\ opts.concurrency > 0 /\ Runs(w)) ~> w \in completed

(* A chain returns nil only if each of its methods was answered.           *)
EveryMethodAnswered == \A w \in Ids : pc[w] = "ok" => ~missing[w]

(* No value of -concurrency crashes the run.                               *)
NeverPanics == \A w \in Ids : pc[w] # "panic"
=============================================================================

------------------------------- MODULE Gateway -------------------------------
(***************************************************************************)
(* The HTTP gateway (api): the life of its process in main.go, its         *)
(* handlers with their middlewares and gRPC clients, and of the update     *)
(* service what a caller sees through its gRPC server: one run at a time,  *)
(* the counts Stats reads one after the other, Drop.                       *)
(*                                                                         *)
(* GET /api/search passes the ConcurrencyLimiter, an instance of that      *)
(* module which main stops when the process ends.  The rate limiter of     *)
(* GET /api/isearch lets everyone through in time, also when it is stopped *)
(* (RateLimiter: RequestsAnswered, StopReturns), so it is one step here.   *)
(***************************************************************************)
EXTENDS Integers, Sequences

CONSTANTS
    Requests,   \* HTTP requests that may be open at the same time
    Asks,       \* the endpoints each of them may ask for
    Limit,      \* SEARCH_CONCURRENCY
    Main,       \* the goroutine that runs main
    Nobody,     \* no update is running
    Orphan,     \* an update whose HTTP request is gone
    MaxID       \* bound on the number of comics upstream ever has

Endpoints == {"words", "ping", "update", "drop", "stats", "status", "search", "isearch", "login"}

ASSUME AsksAssumption  == Asks \in [Requests -> SUBSET Endpoints]
ASSUME LimitAssumption == Limit \in Nat \ {0}
ASSUME OwnerAssumption == Nobody \notin Requests /\ Orphan \notin Requests \cup {Nobody}
ASSUME MaxIDAssumption == MaxID \in Nat

VARIABLES
    server,   \* main: serving, or the deferred call it is in
    pc,       \* where each request is in its handler
    endpoint, \* what it asked for
    status,   \* the HTTP status its handler has written, 0 for none
    outcome,  \* what the update service decided about a call
    reads,    \* the numbers Stats has read for a call: comics, words, unique words, last id
    calm,     \* history: no Drop since the call's first read
    owner,    \* the request whose update runs, Orphan or Nobody
    rows,     \* how many comics the table has, each with a word of its own
    newest,   \* the newest comic upstream has
    stopped, semaphore, parked, req, task, drain, taken, owed   \* ConcurrencyLimiter

limiter  == <<stopped, semaphore, parked, req, task, drain, taken, owed>>
call     == <<outcome, reads, calm>>
world    == <<owner, rows, newest>>
vars     == <<server, pc, endpoint, status, call, world, limiter>>

Limiter == INSTANCE ConcurrencyLimiter WITH Drainers <- {Main}

TypeOK ==
    /\ server \in {"down", "serving", "stopRate", "stopSearch", "closing"}
    /\ pc \in [Requests -> {"idle", "enter", "limited", "check", "call", "run", "back", "done"}]
    /\ endpoint \in [Requests -> Endpoints]
    /\ status \in [Requests -> {0, 200, 202, 400, 401, 500, 503}]
    /\ outcome \in [Requests -> {"none", "refused", "ok", "error"}]
    /\ \A r \in Requests : reads[r] \in Seq(-1 .. MaxID) /\ Len(reads[r]) <= 4
    /\ calm \in [Requests -> BOOLEAN]
    /\ owner \in Requests \cup {Nobody, Orphan}
    /\ newest \in 0 .. MaxID
    /\ rows \in 0 .. newest
    /\ Limiter!TypeOK
    /\ \A r \in Requests : pc[r] = "idle" => status[r] = 0 /\ reads[r] = <<>>

NoRequests ==
    /\ pc = [r \in Requests |-> "idle"]
    /\ endpoint = [r \in Requests |-> "ping"]
    /\ status = [r \in Requests |-> 0]
    /\ outcome = [r \in Requests |-> "none"]
    /\ reads = [r \in Requests |-> <<>>]
    /\ calm = [r \in Requests |-> FALSE]

Init ==
    /\ server = "down"
    /\ NoRequests
    /\ owner = Nobody
    /\ rows = 0
    /\ newest = 0
    /\ Limiter!Init

(***************************************************************************)
(* The process: main of api/main.go                                        *)
(***************************************************************************)
Enter(from, to) == server = from /\ server' = to

(* Clients, auth and limiters are made and started, then the server listens; *)
(* any of them failing ends a process that has not served anyone.            *)
Boot ==
    /\ Enter("down", "serving")
    /\ UNCHANGED <<pc, endpoint, status, call, world, limiter>>

(* An interrupt: Shutdown closes the listener in a goroutine of its own, and *)
(* ListenAndServe returns without waiting for it, as after an accept error.  *)
ListenReturns ==
    /\ Enter("serving", "stopRate")
    /\ UNCHANGED <<pc, endpoint, status, call, world, limiter>>

(* deferred rateLimiter.Stop has returned, concurrencyLimiter.Stop begins *)
StopSearch ==
    /\ Enter("stopRate", "stopSearch")
    /\ Limiter!Stop(Main)
    /\ UNCHANGED <<pc, endpoint, status, call, world>>

Draining ==
    /\ Limiter!DrainStep(Main)
    /\ UNCHANGED <<server, pc, endpoint, status, call, world>>

(* mutant: Stop does not wait *)
StopSearchReturnsAtOnce ==
    /\ Enter("stopSearch", "closing")
    /\ UNCHANGED <<pc, endpoint, status, call, world, limiter>>

StopSearchReturns ==
    /\ Enter("stopSearch", "closing")
    /\ drain[Main] = "idle"
    /\ UNCHANGED <<pc, endpoint, status, call, world, limiter>>

(* The process ends and every request still open with it; an update that     *)
(* runs for one goes on in the update service.  The container is restarted.  *)
Dies ==
    /\ server' = "down"
    /\ pc' = [r \in Requests |-> "idle"]
    /\ endpoint' = [r \in Requests |-> "ping"]
    /\ status' = [r \in Requests |-> 0]
    /\ outcome' = [r \in Requests |-> "none"]
    /\ reads' = [r \in Requests |-> <<>>]
    /\ calm' = [r \in Requests |-> FALSE]
    /\ owner' = IF owner \in Requests THEN Orphan ELSE owner
    /\ stopped' = FALSE
    /\ semaphore' = 0
    /\ parked' = <<>>
    /\ req' = [r \in Requests |-> "idle"]
    /\ task' = [r \in Requests |-> "none"]
    /\ drain' = [d \in {Main} |-> "idle"]
    /\ taken' = [d \in {Main} |-> 0]
    /\ owed' = [d \in {Main} |-> {}]
    /\ UNCHANGED <<rows, newest>>

(* wordsClient.Close, and main returns, whoever is still in a handler *)
Exit == server = "closing" /\ Dies

Crash == server # "down" /\ Dies

(***************************************************************************)
(* Requests: routing, middlewares and validation                           *)
(***************************************************************************)
Goto(r, from, to) == pc[r] = from /\ pc' = [pc EXCEPT ![r] = to]

(* the handler of r returns with an HTTP status *)
Respond(r, from, code) ==
    /\ Goto(r, from, "done")
    /\ status' = [status EXCEPT ![r] = code]

First(e) ==
    CASE e \in {"update", "drop", "search", "isearch"} -> "enter"
      [] e \in {"words", "login"}                      -> "check"
      [] OTHER                                         -> "call"

Send(r) ==
    /\ server = "serving"
    /\ \E e \in Asks[r] :
        /\ Goto(r, "idle", First(e))
        /\ endpoint' = [endpoint EXCEPT ![r] = e]
    /\ UNCHANGED <<server, status, call, world, limiter>>

(* What the adapters tell the handlers: Norm turns ResourceExhausted into    *)
(* ErrBadArguments, Verify and Login turn what is wrong into ErrUnauthorized. *)
Norm   == {"ok", "badArguments", "error"}
Login  == {"ok", "unauthorized", "error"}
Verify == {"ok", "unauthorized"}
Search == {"ok", "error"}
Status == {"ok", "error"}

(* mutant: the error is compared by identity, which a gRPC call does not keep *)
CodeOfByIdentity(o) ==
    CASE o = "ok" -> 200 [] o = "badArguments" -> 400 [] o = "unauthorized" -> 401 [] OTHER -> 500

(* What the handlers make of it.  The client of Update turns the gRPC status *)
(* back into its text, which the handler compares with ErrAlreadyExists.     *)
CodeOf(o) ==
    CASE o = "ok"           -> 200
      [] o = "refused"      -> 202
      [] o = "badArguments" -> 400
      [] o = "unauthorized" -> 401
      [] OTHER              -> 500

(* Auth: the header, its prefix, and Verify of the token in it.  The secret  *)
(* is a constant, so a token stays valid until its end, restarts or not.     *)
Auth(r) ==
    /\ endpoint[r] \in {"update", "drop"}
    /\ \E o \in Verify :
        \/ o = "ok" /\ Goto(r, "enter", "call") /\ UNCHANGED status
        \/ o # "ok" /\ Respond(r, "enter", CodeOf(o))
    /\ UNCHANGED <<server, endpoint, call, world, limiter>>

(* Rate: a token comes, or the limiter is stopped *)
Rate(r) ==
    /\ endpoint[r] = "isearch"
    /\ Goto(r, "enter", "check")
    /\ UNCHANGED <<server, endpoint, status, call, world, limiter>>

(* Concurrency: Submit of the limiter, in its two steps *)
Concurrency(r) ==
    /\ endpoint[r] = "search"
    /\ Limiter!Arrive(r)
    /\ \/ ~stopped /\ Goto(r, "enter", "limited") /\ UNCHANGED status
       \/ stopped /\ Respond(r, "enter", 503)
    /\ UNCHANGED <<server, endpoint, call, world>>

TakePlace(r) ==
    /\ Limiter!Submit(r)
    /\ \/ task'[r] = "serving" /\ Goto(r, "limited", "check") /\ UNCHANGED status
       \/ task'[r] = "none" /\ Respond(r, "limited", 503)
    /\ UNCHANGED <<server, endpoint, call, world>>

(* Phrase and limit, or name and password, are looked at: inside the         *)
(* middlewares, and before any other service is asked.                       *)
CheckQuery(r) ==
    /\ endpoint[r] \in {"words", "search", "isearch", "login"}
    /\ \/ Goto(r, "check", "call") /\ UNCHANGED status
       \/ Respond(r, "check", IF endpoint[r] = "login" THEN 401 ELSE 400)
    /\ UNCHANGED <<server, endpoint, call, world, limiter>>

(***************************************************************************)
(* Requests: the calls of the other services                               *)
(***************************************************************************)
(* one call, and an answer made of its outcome *)
Handle(r, endpoints, outcomes) ==
    /\ endpoint[r] \in endpoints
    /\ \E o \in outcomes : Respond(r, "call", CodeOf(o))
    /\ UNCHANGED <<server, endpoint, call, world, limiter>>

(* which services answered is said in the body *)
PingHandler(r)   == Handle(r, {"ping"}, {"ok"})
WordsHandler(r)  == Handle(r, {"words"}, Norm)
StatusHandler(r) == Handle(r, {"status"}, Status)
SearchHandler(r) == Handle(r, {"search", "isearch"}, Search)
LoginHandler(r)  == Handle(r, {"login"}, Login)

(* mutant: LastID is asked before the table *)
ReadStatsLastIDFirst(r) ==
    /\ endpoint[r] = "stats"
    /\ \/ /\ reads[r] = <<>>
          /\ \E n \in {newest, -1} : reads' = [reads EXCEPT ![r] = <<n>>]
       \/ /\ reads[r] # <<>>
          /\ LET last == Len(reads[r])
             IN  reads' = [reads EXCEPT ![r] = Append(SubSeq(@, 1, last - 1), rows) \o <<@[last]>>]
    /\ \/ Len(reads[r]) < 3 /\ pc[r] = "call" /\ UNCHANGED <<pc, status>>
       \/ Len(reads[r]) = 3 /\ Respond(r, "call", 200)
    /\ UNCHANGED <<server, endpoint, outcome, calm, world, limiter>>

(* Stats of the update service: three counts of the table, then LastID, which *)
(* says -1 when upstream answers with an error                                *)
ReadStats(r) ==
    /\ endpoint[r] = "stats"
    /\ \E n \in IF Len(reads[r]) < 3 THEN {rows} ELSE {newest, -1} :
        reads' = [reads EXCEPT ![r] = Append(@, n)]
    /\ calm' = [calm EXCEPT ![r] = calm[r] \/ reads[r] = <<>>]
    /\ \/ Len(reads[r]) < 3 /\ pc[r] = "call" /\ UNCHANGED <<pc, status>>
       \/ Len(reads[r]) = 3 /\ Respond(r, "call", 200)
    /\ UNCHANGED <<server, endpoint, outcome, world, limiter>>

StatsFail(r) ==
    /\ endpoint[r] = "stats"
    /\ Respond(r, "call", 500)
    /\ reads' = [reads EXCEPT ![r] = <<>>]
    /\ UNCHANGED <<server, endpoint, outcome, calm, world, limiter>>

(* the update service decides about the call of r *)
Decide(r, o) ==
    /\ pc' = [pc EXCEPT ![r] = "back"]
    /\ outcome' = [outcome EXCEPT ![r] = o]

(* Update of the update service: TryLock, or the call never reaches it *)
CallUpdate(r) ==
    /\ endpoint[r] = "update"
    /\ pc[r] = "call"
    /\ \/ /\ owner = Nobody
          /\ owner' = r
          /\ pc' = [pc EXCEPT ![r] = "run"]
          /\ UNCHANGED outcome
       \/ owner # Nobody /\ Decide(r, "refused") /\ UNCHANGED owner
       \/ Decide(r, "error") /\ UNCHANGED owner
    /\ UNCHANGED <<server, endpoint, status, reads, calm, rows, newest, limiter>>

(* mutant: a comic is stored again after a conflict *)
StoreComicAgain ==
    /\ owner # Nobody
    /\ rows' = rows + 1
    /\ UNCHANGED <<server, pc, endpoint, status, call, owner, newest, limiter>>

(* a worker of the run stores a comic *)
StoreComic ==
    /\ owner # Nobody
    /\ rows < newest
    /\ rows' = rows + 1
    /\ UNCHANGED <<server, pc, endpoint, status, call, owner, newest, limiter>>

(* the run ends, or the update service dies and is restarted *)
RunEnds ==
    /\ owner # Nobody
    /\ owner' = Nobody
    /\ \/ owner = Orphan /\ UNCHANGED <<pc, outcome>>
       \/ owner # Orphan /\ \E o \in {"ok", "error"} : Decide(owner, o)
    /\ UNCHANGED <<server, endpoint, status, reads, calm, rows, newest, limiter>>

(* The HTTP client goes away or the connection of the services breaks before *)
(* the answer is read: the call ends in an error, its context is cancelled,   *)
(* and the run ends when it can.                                              *)
CallCancelled(r) ==
    /\ pc[r] \in {"run", "back"}
    /\ Decide(r, "error")
    /\ owner' = IF owner = r THEN Orphan ELSE owner
    /\ UNCHANGED <<server, endpoint, status, reads, calm, rows, newest, limiter>>

(* DELETE FROM comics, or an error of which the caller cannot tell whether   *)
(* it came before or after                                                   *)
CallDrop(r) ==
    /\ endpoint[r] = "drop"
    /\ pc[r] = "call"
    /\ \/ /\ \E o \in {"ok", "error"} : Decide(r, o)
          /\ rows' = 0
          /\ calm' = [q \in Requests |-> FALSE]
       \/ Decide(r, "error") /\ UNCHANGED <<rows, calm>>
    /\ UNCHANGED <<server, endpoint, status, reads, owner, newest, limiter>>

(* the answer of the update service reaches the handler *)
AnswerArrives(r) ==
    /\ Respond(r, "back", CodeOf(outcome[r]))
    /\ UNCHANGED <<server, endpoint, call, world, limiter>>

(***************************************************************************)
(* The end of a request                                                    *)
(***************************************************************************)
(* the task of a search has run the handler and offers `done` *)
HandlerRan(r) ==
    /\ pc[r] = "done"
    /\ Limiter!Serve(r)
    /\ UNCHANGED <<server, pc, endpoint, status, call, world>>

(* mutant: the task does not give its place back *)
TaskKeepsPlace(r) ==
    /\ Limiter!Hand(r)
    /\ UNCHANGED <<server, pc, endpoint, status, call, world>>

TaskStep(r) ==
    /\ Limiter!Hand(r) \/ Limiter!Release(r)
    /\ UNCHANGED <<server, pc, endpoint, status, call, world>>

Finish(r) ==
    /\ Goto(r, "done", "idle")
    /\ endpoint' = [endpoint EXCEPT ![r] = "ping"]
    /\ status' = [status EXCEPT ![r] = 0]
    /\ outcome' = [outcome EXCEPT ![r] = "none"]
    /\ reads' = [reads EXCEPT ![r] = <<>>]
    /\ calm' = [calm EXCEPT ![r] = FALSE]
    /\ \/ endpoint[r] = "search" /\ Limiter!Answer(r)
       \/ endpoint[r] # "search" /\ UNCHANGED limiter
    /\ UNCHANGED <<server, world>>

NewComic ==
    /\ newest < MaxID
    /\ newest' = newest + 1
    /\ UNCHANGED <<server, pc, endpoint, status, call, owner, rows, limiter>>

HandlerStep(r) ==
    \/ Auth(r) \/ Rate(r) \/ Concurrency(r) \/ TakePlace(r) \/ CheckQuery(r)
    \/ PingHandler(r) \/ WordsHandler(r) \/ StatusHandler(r) \/ SearchHandler(r) \/ LoginHandler(r)
    \/ ReadStats(r) \/ StatsFail(r) \/ CallUpdate(r) \/ CallDrop(r)
    \/ AnswerArrives(r) \/ HandlerRan(r) \/ Finish(r)

MainStep == StopSearch \/ Draining \/ StopSearchReturns \/ Exit

Next ==
    \/ Boot \/ ListenReturns \/ Crash \/ MainStep
    \/ \E r \in Requests : Send(r) \/ HandlerStep(r) \/ TaskStep(r) \/ CallCancelled(r)
    \/ StoreComic \/ RunEnds \/ NewComic

(* Goroutines run, calls of the other services end (UpdateReturns, CallsEnd) *)
(* and a run ends; nobody has to send, to interrupt or to restart.           *)
Fairness ==
    /\ \A r \in Requests : WF_vars(HandlerStep(r)) /\ WF_vars(TaskStep(r))
    /\ WF_vars(MainStep)
    /\ WF_vars(RunEnds)

Spec == Init /\ [][Next]_vars /\ Fairness

(***************************************************************************)
(* Properties                                                              *)
(***************************************************************************)
(* Shutdown does not wait for handlers (107-121), but the deferred Stop of   *)
(* the limiter does: when main goes on to exit, every search accepted before *)
(* Stop has ended, whatever was admitted in the same moment.                 *)
SearchesOutliveStop ==
    server = "closing" => owed[Main] = {} /\ drain[Main] = "idle"

(* The status tells an update's outcome (70-92), although the refusal comes  *)
(* as a gRPC error of which only the text survives: 202 exactly if a run in   *)
(* progress made the service refuse it, 200 exactly if its own run ended      *)
(* well; and nobody waits for a run that is not there any more.               *)
UpdateOutcomeTold ==
    \A r \in Requests : endpoint[r] = "update" =>
        /\ pc[r] = "run" <=> owner = r
        /\ pc[r] = "done" => /\ status[r] = 200 <=> outcome[r] = "ok"
                             /\ status[r] = 202 <=> outcome[r] = "refused"
                             /\ status[r] = 401 <=> outcome[r] = "none"

(* Stats mixes four moments (update/adapters/db/storage.go:49-83, update     *)
(* core 181-201), in an order that keeps comics_fetched from ever exceeding  *)
(* comics_total unless upstream failed, and, without a Drop meanwhile, each  *)
(* count from being older than the one before.                               *)
StatsInOrder ==
    \A r \in Requests :
        /\ Len(reads[r]) = 4 => reads[r][1] <= reads[r][4] \/ reads[r][4] = -1
        /\ calm[r] => \A i, j \in 1 .. Len(reads[r]) :
                         i < j /\ j < 4 => reads[r][i] <= reads[r][j]

(* An interrupt ends the process, however many searches still hold or take a *)
(* place: the deferred calls cannot block each other for ever.               *)
ShutdownEnds == server = "stopRate" ~> server = "down"
=============================================================================

------------------------ MODULE ConcurrencyLimiter ------------------------
(***************************************************************************)
(* The limiter of GET /api/search: ConcurrencyHandler                      *)
(* (api/core/concurrency_service.go), used by the Concurrency middleware   *)
(* (api/adapters/rest/middleware/concurrency.go).                          *)
(*                                                                         *)
(* A buffered channel of Limit places is a counting semaphore.  Submit     *)
(* never waits for a place; a task gives its place back after it has run;  *)
(* Wait and Stop fill the whole channel to know that no task is left.  The *)
(* middleware runs the handler as a task and waits for its `done`.         *)
(*                                                                         *)
(* A request is one run of the middleware with the goroutine Submit starts *)
(* for it.  Go's channel hands a place that becomes free to the sender     *)
(* that has been parked longest, so parked senders are kept in order.      *)
(***************************************************************************)
EXTENDS Integers, Sequences, FiniteSets

CONSTANTS
    Requests,   \* HTTP requests that may be open at the same time
    Drainers,   \* goroutines that call Stop or Wait; main is the only one in the program
    Limit       \* ch.limit, at least 1 after NewConcurrencyHandler

ASSUME LimitAssumption == Limit \in Nat \ {0}

VARIABLES
    stopped,    \* ch.stopped
    semaphore,  \* how many places of ch.semaphore are taken
    parked,     \* drainers blocked in a send on the full channel, oldest first
    req,        \* the middleware of each request
    task,       \* the goroutine of each request
    drain,      \* each drainer in Wait
    taken,      \* how many sends of its loop a drainer has done and not undone
    owed        \* history: tasks started before the drainer's call and not ended

vars == <<stopped, semaphore, parked, req, task, drain, taken, owed>>

TypeOK ==
    /\ stopped \in BOOLEAN
    /\ semaphore \in 0 .. Limit
    /\ parked \in Seq(Drainers)
    /\ req \in [Requests -> {"idle", "admit", "await", "served", "refused"}]
    /\ task \in [Requests -> {"none", "serving", "handing", "releasing"}]
    /\ drain \in [Drainers -> {"idle", "acquire", "parked", "release"}]
    /\ taken \in [Drainers -> 0 .. Limit]
    /\ owed \in [Drainers -> SUBSET Requests]

Init ==
    /\ stopped = FALSE
    /\ semaphore = 0
    /\ parked = <<>>
    /\ req = [r \in Requests |-> "idle"]
    /\ task = [r \in Requests |-> "none"]
    /\ drain = [d \in Drainers |-> "idle"]
    /\ taken = [d \in Drainers |-> 0]
    /\ owed = [d \in Drainers |-> {}]

(* the tasks that hold a place *)
Running == {r \in Requests : task[r] # "none"}

(* A receive from the channel: the place is free, or goes to the sender that *)
(* is parked longest.  Another drainer's count rises with it.                *)
Receive ==
    \/ /\ parked = <<>>
       /\ semaphore' = semaphore - 1
       /\ UNCHANGED <<parked, drain, taken>>
    \/ /\ parked # <<>>
       /\ parked' = Tail(parked)
       /\ drain' = [drain EXCEPT ![Head(parked)] = "acquire"]
       /\ taken' = [taken EXCEPT ![Head(parked)] = @ + 1]
       /\ UNCHANGED semaphore

(***************************************************************************)
(* The middleware and Submit                                               *)
(***************************************************************************)
(* a request arrives and Submit looks at stopped *)
Arrive(r) ==
    /\ req[r] = "idle"
    /\ task[r] = "none"
    /\ req' = [req EXCEPT ![r] = IF stopped THEN "refused" ELSE "admit"]
    /\ UNCHANGED <<stopped, semaphore, parked, task, drain, taken, owed>>

(* mutant: one task more than there are places *)
SubmitOneMore(r) ==
    /\ req[r] = "admit"
    /\ task' = [task EXCEPT ![r] = "serving"]
    /\ req' = [req EXCEPT ![r] = "await"]
    /\ semaphore' = IF semaphore < Limit THEN semaphore + 1 ELSE semaphore
    /\ UNCHANGED <<stopped, parked, drain, taken, owed>>

(* the select with a default: a place at once or none *)
Submit(r) ==
    /\ req[r] = "admit"
    /\ \/ /\ semaphore < Limit
          /\ semaphore' = semaphore + 1
          /\ task' = [task EXCEPT ![r] = "serving"]
          /\ req' = [req EXCEPT ![r] = "await"]
       \/ /\ semaphore = Limit
          /\ req' = [req EXCEPT ![r] = "refused"]
          /\ UNCHANGED <<semaphore, task>>
    /\ UNCHANGED <<stopped, parked, drain, taken, owed>>

(* mutant: the task forgets `done` *)
ServeWithoutDone(r) ==
    /\ task[r] = "serving"
    /\ task' = [task EXCEPT ![r] = "releasing"]
    /\ UNCHANGED <<stopped, semaphore, parked, req, drain, taken, owed>>

(* the handler has run; the task then offers `done` *)
Serve(r) ==
    /\ task[r] = "serving"
    /\ task' = [task EXCEPT ![r] = "handing"]
    /\ UNCHANGED <<stopped, semaphore, parked, req, drain, taken, owed>>

(* `done` is unbuffered: the task and the middleware meet on it *)
Hand(r) ==
    /\ task[r] = "handing"
    /\ req[r] = "await"
    /\ task' = [task EXCEPT ![r] = "releasing"]
    /\ req' = [req EXCEPT ![r] = "served"]
    /\ UNCHANGED <<stopped, semaphore, parked, drain, taken, owed>>

(* mutant: the task ends without its receive *)
ReleaseForgotten(r) ==
    /\ task[r] = "releasing"
    /\ task' = [task EXCEPT ![r] = "none"]
    /\ owed' = [d \in Drainers |-> owed[d] \ {r}]
    /\ UNCHANGED <<stopped, semaphore, parked, req, drain, taken>>

(* only now does the task give its place back *)
Release(r) ==
    /\ task[r] = "releasing"
    /\ task' = [task EXCEPT ![r] = "none"]
    /\ owed' = [d \in Drainers |-> owed[d] \ {r}]
    /\ Receive
    /\ UNCHANGED <<stopped, req>>

(* the middleware returns and net/http answers: 200 or 503 *)
Answer(r) ==
    /\ req[r] \in {"served", "refused"}
    /\ req' = [req EXCEPT ![r] = "idle"]
    /\ UNCHANGED <<stopped, semaphore, parked, task, drain, taken, owed>>

(***************************************************************************)
(* Start, Stop and Wait                                                    *)
(***************************************************************************)
Start ==
    /\ stopped' = FALSE
    /\ UNCHANGED <<semaphore, parked, req, task, drain, taken, owed>>

(* Stop refuses new tasks and then waits; Wait only waits *)
BeginWait(d) ==
    /\ drain[d] = "idle"
    /\ drain' = [drain EXCEPT ![d] = "acquire"]
    /\ owed' = [owed EXCEPT ![d] = Running]
    /\ UNCHANGED <<semaphore, parked, req, task, taken>>

Stop(d) == BeginWait(d) /\ stopped' = TRUE
Wait(d) == BeginWait(d) /\ UNCHANGED stopped

(* mutant: the loop starts at 1 *)
AcquireOneLess(d) ==
    /\ drain[d] = "acquire"
    /\ IF taken[d] >= Limit - 1
       THEN drain' = [drain EXCEPT ![d] = "release"] /\ UNCHANGED <<semaphore, taken>>
       ELSE /\ semaphore < Limit
            /\ semaphore' = semaphore + 1
            /\ taken' = [taken EXCEPT ![d] = @ + 1]
            /\ UNCHANGED drain
    /\ UNCHANGED <<stopped, parked, req, task, owed>>

(* first loop of Wait: Limit sends, each waits for a place *)
Acquire(d) ==
    /\ drain[d] = "acquire"
    /\ \/ /\ taken[d] < Limit
          /\ semaphore < Limit
          /\ semaphore' = semaphore + 1
          /\ taken' = [taken EXCEPT ![d] = @ + 1]
          /\ UNCHANGED <<parked, drain>>
       \/ /\ taken[d] < Limit
          /\ semaphore = Limit
          /\ parked' = Append(parked, d)
          /\ drain' = [drain EXCEPT ![d] = "parked"]
          /\ UNCHANGED <<semaphore, taken>>
       \/ /\ taken[d] = Limit
          /\ drain' = [drain EXCEPT ![d] = "release"]
          /\ UNCHANGED <<semaphore, parked, taken>>
    /\ UNCHANGED <<stopped, req, task, owed>>

(* mutant: one receive too many *)
FreeOneMore(d) ==
    /\ drain[d] = "release"
    /\ semaphore' = semaphore - 1
    /\ taken' = [taken EXCEPT ![d] = @ - 1]
    /\ drain' = [drain EXCEPT ![d] = IF taken[d] = 0 THEN "idle" ELSE "release"]
    /\ UNCHANGED <<stopped, parked, req, task, owed>>

(* second loop of Wait: Limit receives, then it returns *)
Free(d) ==
    /\ drain[d] = "release"
    /\ \/ /\ taken[d] > 0
          /\ \/ /\ parked = <<>>
                /\ semaphore' = semaphore - 1
                /\ taken' = [taken EXCEPT ![d] = @ - 1]
                /\ UNCHANGED <<parked, drain>>
             \/ /\ parked # <<>>
                /\ parked' = Tail(parked)
                /\ drain' = [drain EXCEPT ![Head(parked)] = "acquire"]
                /\ taken' = [taken EXCEPT ![d] = @ - 1, ![Head(parked)] = @ + 1]
                /\ UNCHANGED semaphore
       \/ /\ taken[d] = 0
          /\ drain' = [drain EXCEPT ![d] = "idle"]
          /\ UNCHANGED <<semaphore, parked, taken>>
    /\ UNCHANGED <<stopped, req, task, owed>>

RequestStep(r) == Submit(r) \/ Serve(r) \/ Hand(r) \/ Answer(r)
DrainStep(d)   == Acquire(d) \/ Free(d)

Next ==
    \/ \E r \in Requests : Arrive(r) \/ RequestStep(r) \/ Release(r)
    \/ \E d \in Drainers : Stop(d) \/ Wait(d) \/ DrainStep(d)
    \/ Start

(* Goroutines run and handlers return (the search client's call ends with its *)
(* connection or its request); nobody has to send requests or to stop.        *)
Fairness ==
    /\ \A r \in Requests : WF_vars(RequestStep(r)) /\ WF_vars(Release(r))
    /\ \A d \in Drainers : WF_vars(DrainStep(d))

Spec == Init /\ [][Next]_vars /\ Fairness

(***************************************************************************)
(* Properties                                                              *)
(***************************************************************************)
(* who holds a place: a task one, a drainer one for each send of its loop *)
Sends   == {send \in Drainers \X (1 .. Limit) : send[2] <= taken[send[1]]}
Holders == (Running \X {0}) \cup Sends

(* No place leaks and none is given twice: the channel is as full as there   *)
(* are tasks and unreturned sends of drainers, over any mix of Submit, Stop, *)
(* Wait and Start; and a sender waits only while it is full.                 *)
PlacesAccounted ==
    /\ semaphore = Cardinality(Holders)
    /\ parked # <<>> => semaphore = Limit

(* At most Limit handlers of /api/search run at the same time, also while    *)
(* Stop or Wait competes with requests for the places.                       *)
NeverOverLimit == Cardinality(Running) <= Limit

(* What Stop and Wait promise (TestConcurrencyHandler_Stop): once the whole  *)
(* channel is theirs, every task accepted before the call has ended.         *)
DrainCoversEarlier ==
    \A d \in Drainers : drain[d] = "release" => owed[d] = {}

(* Every request that reaches Submit is answered. *)
RequestsAnswered == \A r \in Requests : req[r] = "admit" ~> req[r] = "idle"

(* Stop and Wait return, however busy the search is: a parked sender is      *)
(* served before any later Submit can take the place.  Only main drains; two *)
(* drainers that stay could each hold a part of the places for ever.         *)
DrainReturns ==
    \A d \in Drainers :
        <>[](\A other \in Drainers \ {d} : drain[other] = "idle") =>
            (drain[d] # "idle" ~> drain[d] = "idle")

(* docs/swagger.yaml:116,165: 503 is for the limit of concurrent requests    *)
(* being reached, so a refused request meets Limit unanswered ones.          *)
RefusedOnlyAtLimit ==
    [][\A r \in Requests : req[r] = "admit" /\ req'[r] = "refused" =>
          Cardinality({q \in Requests : req[q] \in {"await", "served"}}) >= Limit]_vars
=============================================================================

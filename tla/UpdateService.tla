--------------------------- MODULE UpdateService ---------------------------
(***************************************************************************)
(* The update service (update/core/service.go) with the adapters it calls: *)
(* concurrent gRPC calls of Update race for one mutex; the winner lists    *)
(* what is missing, feeds a buffered channel to a pool of worker           *)
(* goroutines that fetch, normalise and store comics, waits for them and   *)
(* publishes one event.  Drop empties the table without the mutex, the     *)
(* caller may cancel its context, the process may die at any step and is   *)
(* restarted (compose.yaml, restart: unless-stopped).                      *)
(*                                                                         *)
(* One step is one call of an adapter, or one operation on a variable that *)
(* two goroutines share.  A comic is its number; its title, text and words *)
(* are abstracted.                                                         *)
(***************************************************************************)
EXTENDS Integers, Sequences

CONSTANTS
    Callers,     \* concurrent Update calls the gRPC server may be running
    NoCaller,    \* the mutex is free
    Workers,     \* goroutines of one call's pool: 1..s.concurrency
    MaxID,       \* bound on the number of comics upstream ever has
    NotFoundID   \* the comic that is never fetched: 404 in the code

ASSUME NoCallerAssumption == NoCaller \notin Callers
ASSUME WorkersAssumption  == Workers # {}       \* NewService rejects concurrency < 1
ASSUME MaxIDAssumption    == MaxID \in Nat

ComicIDs == 1 .. MaxID

VARIABLES
    mu,               \* s.mu: the call that holds it, or NoCaller
    updateProcessing, \* s.updateProcessing
    pc,               \* where each call is in Update
    result,           \* what the last call of each caller got back
    cancelled,        \* calls whose context is done
    lastId, existingIDs, next, shouldSendEvent,   \* locals of Update
    jobs,             \* the channel of each call, oldest job first
    stage, job,       \* each worker goroutine: where it is, on which comic
    rows,             \* table comics: the ids stored
    newest,           \* the newest comic upstream has published
    stored, failed,   \* history: jobs of the call that ended with a row / an error
    unannounced,      \* history: ids added since the last event was published
    lostEvent         \* history: an event for unannounced rows was never sent

mutex   == <<mu, updateProcessing>>
locals  == <<lastId, existingIDs, next, shouldSendEvent>>
pool    == <<jobs, stage, job>>
world   == <<rows, newest>>
journal == <<stored, failed>>
events  == <<unannounced, lostEvent>>
vars    == <<mutex, pc, result, cancelled, locals, pool, world, journal, events>>

Slots     == Callers \X Workers
Positions == {"idle", "locked", "lastid", "ids", "spawn", "feed", "wait",
              "publish", "clear", "unlock"}
Stages    == {"off", "receive", "get", "norm", "add"}
Busy      == {"get", "norm", "add"}      \* the stages at which a worker holds a job
Results   == {"none", "ok", "already", "error"}

CallsTyped ==
    /\ mu \in Callers \cup {NoCaller}
    /\ updateProcessing \in BOOLEAN
    /\ pc \in [Callers -> Positions]
    /\ result \in [Callers -> Results]
    /\ cancelled \subseteq Callers

LocalsTyped ==
    /\ lastId \in [Callers -> -1 .. MaxID]
    /\ existingIDs \in [Callers -> SUBSET ComicIDs]
    /\ next \in [Callers -> 1 .. MaxID + 1]
    /\ shouldSendEvent \in [Callers -> BOOLEAN]

PoolTyped ==
    /\ jobs \in [Callers -> Seq(ComicIDs)]
    /\ stage \in [Slots -> Stages]
    /\ job \in [Slots -> 0 .. MaxID]
    /\ \A s \in Slots : job[s] # 0 <=> stage[s] \in Busy

TableTyped ==
    /\ rows \subseteq ComicIDs
    /\ newest \in 0 .. MaxID
    /\ stored \in [Callers -> SUBSET ComicIDs]
    /\ failed \in [Callers -> SUBSET ComicIDs]
    /\ unannounced \subseteq ComicIDs
    /\ lostEvent \in BOOLEAN

TypeOK == CallsTyped /\ LocalsTyped /\ PoolTyped /\ TableTyped

Init ==
    /\ mu = NoCaller
    /\ updateProcessing = FALSE
    /\ pc = [c \in Callers |-> "idle"]
    /\ result = [c \in Callers |-> "none"]
    /\ cancelled = {}
    /\ lastId = [c \in Callers |-> 0]
    /\ existingIDs = [c \in Callers |-> {}]
    /\ next = [c \in Callers |-> 1]
    /\ shouldSendEvent = [c \in Callers |-> FALSE]
    /\ jobs = [c \in Callers |-> <<>>]
    /\ stage = [s \in Slots |-> "off"]
    /\ job = [s \in Slots |-> 0]
    /\ rows = {}
    /\ newest \in 0 .. MaxID
    /\ stored = [c \in Callers |-> {}]
    /\ failed = [c \in Callers |-> {}]
    /\ unannounced = {}
    /\ lostEvent = FALSE

(***************************************************************************)
(* Helpers                                                                 *)
(***************************************************************************)
Goto(c, from, to) == pc[c] = from /\ pc' = [pc EXCEPT ![c] = to]

(* return r: the deferred calls still have to run *)
ReturnFrom(c, from, r) ==
    /\ Goto(c, from, "clear")
    /\ result' = [result EXCEPT ![c] = r]

(* wg.Done has been called by every worker of the call *)
WorkersDone(c) == \A w \in Workers : stage[<<c, w>>] = "off"

(* The process ends and is restarted: goroutines, channels, mutex, flag are *)
(* gone, every call still open fails on the wire; the table stays.          *)
ProcessRestarts ==
    /\ mu' = NoCaller
    /\ updateProcessing' = FALSE
    /\ pc' = [c \in Callers |-> "idle"]
    /\ result' = [c \in Callers |-> IF pc[c] = "idle" THEN result[c] ELSE "error"]
    /\ cancelled' = {}
    /\ lastId' = [c \in Callers |-> 0]
    /\ existingIDs' = [c \in Callers |-> {}]
    /\ next' = [c \in Callers |-> 1]
    /\ shouldSendEvent' = [c \in Callers |-> FALSE]
    /\ jobs' = [c \in Callers |-> <<>>]
    /\ stage' = [s \in Slots |-> "off"]
    /\ job' = [s \in Slots |-> 0]
    /\ stored' = [c \in Callers |-> {}]
    /\ failed' = [c \in Callers |-> {}]
    /\ lostEvent' = (lostEvent \/ unannounced # {})
    /\ UNCHANGED <<unannounced, world>>

(***************************************************************************)
(* Update: the calling goroutine                                           *)
(***************************************************************************)
TryLock(c) ==
    /\ pc[c] = "idle"
    /\ \/ /\ mu = NoCaller
          /\ mu' = c
          /\ pc' = [pc EXCEPT ![c] = "locked"]
          /\ result' = [result EXCEPT ![c] = "none"]
       \/ /\ mu # NoCaller
          /\ result' = [result EXCEPT ![c] = "already"]
          /\ UNCHANGED <<mu, pc>>
    /\ UNCHANGED <<updateProcessing, cancelled, locals, pool, world, journal, events>>

StoreRunning(c) ==
    /\ Goto(c, "locked", "lastid")
    /\ updateProcessing' = TRUE
    /\ UNCHANGED <<mu, result, cancelled, locals, pool, world, journal, events>>

(* What the xkcd client's LastID may return without an error: the newest     *)
(* number, or -1 when the status is not 200, for the err returned there is   *)
(* the nil one of the request.                                               *)
LastIDAnswers == {newest, -1}

LastID(c) ==
    /\ \/ /\ Goto(c, "lastid", "ids")
          /\ \E id \in LastIDAnswers : lastId' = [lastId EXCEPT ![c] = id]
          /\ UNCHANGED result
       \/ /\ ReturnFrom(c, "lastid", "error")
          /\ UNCHANGED lastId
    /\ UNCHANGED <<mutex, cancelled, existingIDs, next, shouldSendEvent, pool, world,
                   journal, events>>

(* mutant: every comic counts as missing *)
ListedNothing(c, ids) == existingIDs' = [existingIDs EXCEPT ![c] = {}]

(* mutant: everything up to the highest stored id counts as present *)
ListedUpToHighest(c, ids) ==
    existingIDs' = [existingIDs EXCEPT ![c] = {id \in ComicIDs : \E high \in ids : id <= high}]

(* what a listing holds, as the ids of a call *)
Listed(c, ids) == existingIDs' = [existingIDs EXCEPT ![c] = ids]

ListIDs(c) ==
    /\ \/ /\ Goto(c, "ids", "spawn")
          /\ c \notin cancelled
          /\ Listed(c, rows)
          /\ UNCHANGED result
       \/ /\ ReturnFrom(c, "ids", "error")
          /\ UNCHANGED existingIDs
    /\ UNCHANGED <<mutex, cancelled, lastId, next, shouldSendEvent, pool, world,
                   journal, events>>

SpawnWorkers(c) ==
    /\ Goto(c, "spawn", "feed")
    /\ lastId[c] >= 0
    /\ stage' = [s \in Slots |-> IF s[1] = c THEN "receive" ELSE stage[s]]
    /\ job' = [s \in Slots |-> IF s[1] = c THEN 0 ELSE job[s]]
    /\ UNCHANGED <<mutex, result, cancelled, locals, jobs, world, journal, events>>

(* make(chan int, -1) panics and nothing recovers it *)
MakeChanPanics(c) ==
    /\ pc[c] = "spawn"
    /\ lastId[c] < 0
    /\ ProcessRestarts

(* mutant: the loop runs once more *)
FeedOneMore(c) ==
    /\ pc[c] = "feed"
    /\ next[c] <= lastId[c] + 1
    /\ next' = [next EXCEPT ![c] = @ + 1]
    /\ jobs' = [jobs EXCEPT ![c] = Append(@, next[c])]
    /\ shouldSendEvent' = [shouldSendEvent EXCEPT ![c] = TRUE]
    /\ UNCHANGED <<mutex, pc, result, cancelled, lastId, existingIDs, stage, job, world,
                   journal, events>>

(* mutant: the last number alone decides whether an event is due *)
FeedLastDecides(c) ==
    /\ pc[c] = "feed"
    /\ next[c] <= lastId[c]
    /\ next' = [next EXCEPT ![c] = @ + 1]
    /\ shouldSendEvent' = [shouldSendEvent EXCEPT ![c] = next[c] \notin existingIDs[c]]
    /\ jobs' = IF next[c] \in existingIDs[c] THEN jobs
               ELSE [jobs EXCEPT ![c] = Append(@, next[c])]
    /\ UNCHANGED <<mutex, pc, result, cancelled, lastId, existingIDs, stage, job, world,
                   journal, events>>

(* one turn of the loop; a send on the channel waits for a free place *)
Feed(c) ==
    /\ pc[c] = "feed"
    /\ next[c] <= lastId[c]
    /\ next' = [next EXCEPT ![c] = @ + 1]
    /\ \/ /\ next[c] \in existingIDs[c]
          /\ UNCHANGED <<jobs, shouldSendEvent>>
       \/ /\ next[c] \notin existingIDs[c]
          /\ Len(jobs[c]) < lastId[c]
          /\ jobs' = [jobs EXCEPT ![c] = Append(@, next[c])]
          /\ shouldSendEvent' = [shouldSendEvent EXCEPT ![c] = TRUE]
    /\ UNCHANGED <<mutex, pc, result, cancelled, lastId, existingIDs, stage, job, world,
                   journal, events>>

(* mutant: the event is sent without waiting for the workers *)
CloseJobsWithoutWait(c) ==
    /\ Goto(c, "feed", "publish")
    /\ next[c] > lastId[c]
    /\ UNCHANGED <<mutex, result, cancelled, locals, pool, world, journal, events>>

CloseJobs(c) ==
    /\ Goto(c, "feed", "wait")
    /\ next[c] > lastId[c]
    /\ UNCHANGED <<mutex, result, cancelled, locals, pool, world, journal, events>>

(* mutant: the first worker to finish ends the wait *)
WaitAnyWorker(c) ==
    /\ Goto(c, "wait", "publish")
    /\ \E w \in Workers : stage[<<c, w>>] = "off"
    /\ UNCHANGED <<mutex, result, cancelled, locals, pool, world, journal, events>>

WaitWorkers(c) ==
    /\ Goto(c, "wait", "publish")
    /\ WorkersDone(c)
    /\ UNCHANGED <<mutex, result, cancelled, locals, pool, world, journal, events>>

(* the publisher: one event for all rows so far, or an error and none *)
SendDBChangedEvent ==
    \/ unannounced' = {} /\ lostEvent' = FALSE
    \/ lostEvent' = (lostEvent \/ unannounced # {}) /\ UNCHANGED unannounced

(* the error of the publisher is logged, the call still returns nil *)
Publish(c) ==
    /\ ReturnFrom(c, "publish", "ok")
    /\ \/ shouldSendEvent[c] /\ SendDBChangedEvent
       \/ ~shouldSendEvent[c] /\ UNCHANGED events
    /\ UNCHANGED <<mutex, cancelled, locals, pool, world, journal>>

(* mutant: the defers registered in the other order, mutex released first *)
DeferredUnlockFirst(c) ==
    \/ /\ Goto(c, "clear", "unlock")
       /\ mu' = NoCaller
       /\ UNCHANGED <<updateProcessing, cancelled, result, locals, pool, world, journal, events>>
    \/ /\ Goto(c, "unlock", "idle")
       /\ updateProcessing' = FALSE
       /\ UNCHANGED <<mu, cancelled, result, locals, pool, world, journal, events>>

(* The deferred calls, last registered first: the flag is cleared, then the *)
(* mutex released, and the locals are gone.                                 *)
Deferred(c) ==
    \/ /\ Goto(c, "clear", "unlock")
       /\ updateProcessing' = FALSE
       /\ UNCHANGED <<mu, cancelled, result, locals, pool, world, journal, events>>
    \/ /\ Goto(c, "unlock", "idle")
       /\ mu' = NoCaller
       /\ cancelled' = cancelled \ {c}
       /\ lastId' = [lastId EXCEPT ![c] = 0]
       /\ existingIDs' = [existingIDs EXCEPT ![c] = {}]
       /\ next' = [next EXCEPT ![c] = 1]
       /\ shouldSendEvent' = [shouldSendEvent EXCEPT ![c] = FALSE]
       /\ stored' = [stored EXCEPT ![c] = {}]
       /\ failed' = [failed EXCEPT ![c] = {}]
       /\ UNCHANGED <<updateProcessing, result, pool, world, events>>

(***************************************************************************)
(* worker: one goroutine of the pool                                       *)
(***************************************************************************)
Working(c, w, from, to) ==
    /\ stage[<<c, w>>] = from
    /\ stage' = [stage EXCEPT ![<<c, w>>] = to]

(* mutant: a worker returns at its first error *)
GiveUpForGood(c, w, from) ==
    /\ Working(c, w, from, "off")
    /\ job' = [job EXCEPT ![<<c, w>>] = 0]
    /\ failed' = [failed EXCEPT ![c] = @ \cup {job[<<c, w>>]}]
    /\ UNCHANGED stored

(* mutant: a worker retries its job until it succeeds *)
GiveUpNever(c, w, from) ==
    /\ Working(c, w, from, from)
    /\ UNCHANGED <<job, journal>>

(* the job ends with an error, which is only logged: continue *)
GiveUp(c, w, from) ==
    /\ Working(c, w, from, "receive")
    /\ job' = [job EXCEPT ![<<c, w>>] = 0]
    /\ failed' = [failed EXCEPT ![c] = @ \cup {job[<<c, w>>]}]
    /\ UNCHANGED stored

(* receive a job; comic 404 is made up instead of fetched *)
TakeJob(c, w) ==
    /\ jobs[c] # <<>>
    /\ Working(c, w, "receive", IF Head(jobs[c]) = NotFoundID THEN "norm" ELSE "get")
    /\ job' = [job EXCEPT ![<<c, w>>] = Head(jobs[c])]
    /\ jobs' = [jobs EXCEPT ![c] = Tail(@)]
    /\ UNCHANGED <<mutex, pc, result, cancelled, locals, world, journal, events>>

(* the channel is closed and empty: wg.Done *)
LeavePool(c, w) ==
    /\ jobs[c] = <<>>
    /\ pc[c] = "wait"
    /\ Working(c, w, "receive", "off")
    /\ UNCHANGED <<mutex, pc, result, cancelled, locals, jobs, job, world, journal, events>>

(* xkcd.Get takes the call's context: it cannot succeed once that is done *)
GetComic(c, w) ==
    /\ \/ /\ c \notin cancelled
          /\ Working(c, w, "get", "norm")
          /\ UNCHANGED <<job, journal>>
       \/ GiveUp(c, w, "get")
    /\ UNCHANGED <<mutex, pc, result, cancelled, locals, jobs, world, events>>

(* words.Norm of every chunk, with the same context: one error ends the job *)
NormComic(c, w) ==
    /\ \/ /\ c \notin cancelled
          /\ Working(c, w, "norm", "add")
          /\ UNCHANGED <<job, journal>>
       \/ GiveUp(c, w, "norm")
    /\ UNCHANGED <<mutex, pc, result, cancelled, locals, jobs, world, events>>

(* the table's upsert, which ignores the context *)
Upsert(id) ==
    /\ rows' = rows \cup {id}
    /\ unannounced' = unannounced \cup {id}

AddComic(c, w) ==
    /\ \/ /\ Working(c, w, "add", "receive")
          /\ Upsert(job[<<c, w>>])
          /\ stored' = [stored EXCEPT ![c] = @ \cup {job[<<c, w>>]}]
          /\ job' = [job EXCEPT ![<<c, w>>] = 0]
          /\ UNCHANGED failed
       \/ /\ GiveUp(c, w, "add")
          /\ UNCHANGED <<rows, unannounced>>
    /\ UNCHANGED <<mutex, pc, result, cancelled, locals, jobs, newest, lostEvent>>

(***************************************************************************)
(* The rest of the service and its environment                             *)
(***************************************************************************)
(* Drop takes no lock and publishes nothing; when the DELETE fails nothing changes *)
Drop ==
    /\ rows' = {}
    /\ UNCHANGED <<mutex, pc, result, cancelled, locals, pool, newest, journal, events>>

CancelContext(c) ==
    /\ pc[c] # "idle"
    /\ cancelled' = cancelled \cup {c}
    /\ UNCHANGED <<mutex, pc, result, locals, pool, world, journal, events>>

NewComic ==
    /\ newest < MaxID
    /\ newest' = newest + 1
    /\ UNCHANGED <<mutex, pc, result, cancelled, locals, pool, rows, journal, events>>

Crash == ProcessRestarts

CallStep(c) ==
    \/ StoreRunning(c) \/ LastID(c) \/ ListIDs(c) \/ SpawnWorkers(c)
    \/ MakeChanPanics(c) \/ Feed(c) \/ CloseJobs(c) \/ WaitWorkers(c)
    \/ Publish(c) \/ Deferred(c)

WorkerStep(c, w) ==
    \/ TakeJob(c, w) \/ LeavePool(c, w)
    \/ GetComic(c, w) \/ NormComic(c, w) \/ AddComic(c, w)

Next ==
    \/ \E c \in Callers : TryLock(c) \/ CallStep(c) \/ CancelContext(c)
    \/ \E c \in Callers, w \in Workers : WorkerStep(c, w)
    \/ Drop \/ NewComic \/ Crash

(* The Go scheduler runs every goroutine that can run, and every adapter call *)
(* returns: the http client has a timeout, the others fail with their         *)
(* connection.  Nothing obliges a caller, upstream or the process's death.    *)
Fairness ==
    \A c \in Callers :
        /\ WF_vars(CallStep(c))
        /\ \A w \in Workers : WF_vars(WorkerStep(c, w))

Spec == Init /\ [][Next]_vars /\ Fairness

(***************************************************************************)
(* Properties                                                              *)
(***************************************************************************)
(* What Status answers tracks the work: the flag is up all the while a call  *)
(* may be fetching or storing, whichever call cleared it last, and it is     *)
(* never left up once the mutex is free (order of the defers, 48-51).        *)
StatusTracksWork ==
    /\ \A c \in Callers : pc[c] \in Positions \ {"idle", "locked", "unlock"} => updateProcessing
    /\ updateProcessing => mu # NoCaller

(* A single flight: past TryLock only the holder of the mutex is, and a pool *)
(* is alive only between its spawn and the return of its call's wg.Wait.     *)
SingleFlight ==
    /\ \A c \in Callers : pc[c] # "idle" => mu = c
    /\ \A c \in Callers, w \in Workers : stage[<<c, w>>] # "off" => pc[c] \in {"feed", "wait"}

(* the comics the call's workers hold *)
InWork(c) == {job[<<c, w>>] : w \in {v \in Workers : stage[<<c, v>>] \in Busy}}
Queued(c) == {jobs[c][k] : k \in DOMAIN jobs[c]}

(* No work is lost and none is done twice: every number handed out so far    *)
(* was in the listing or is, exactly once, waiting in the channel, with one  *)
(* worker, stored or logged as failed (80-90, 104-116).                      *)
WorkConserved ==
    \A c \in Callers :
        /\ pc[c] \in {"feed", "wait", "publish"} =>
            (1 .. next[c] - 1) \ existingIDs[c]
                = Queued(c) \cup InWork(c) \cup stored[c] \cup failed[c]
        /\ pc[c] = "publish" => (1 .. lastId[c]) \ existingIDs[c] = stored[c] \cup failed[c]
        /\ \A k, l \in DOMAIN jobs[c] : k # l => jobs[c][k] # jobs[c][l]
        /\ \A v, w \in Workers : v # w /\ job[<<c, v>>] # 0 => job[<<c, v>>] # job[<<c, w>>]
        /\ Queued(c) \cap (InWork(c) \cup stored[c] \cup failed[c]) = {}
        /\ InWork(c) \cap (stored[c] \cup failed[c]) = {}
        /\ stored[c] \cap failed[c] = {}

(* A comic that is queued or in work is not in the table: no concurrent call *)
(* stores it meanwhile, so Add never has to resolve a conflict.              *)
NoRefetch ==
    \A c \in Callers : (Queued(c) \cup InWork(c)) \cap rows = {}

(* Rows and events: once no update runs, rows added since the last event     *)
(* can only be unannounced because a publish failed or the process died;     *)
(* in particular no row is stored after the event of its own update.         *)
EventCoversRows ==
    mu = NoCaller => unannounced = {} \/ lostEvent

(* Every Update call returns, whatever upstream, the words service, the      *)
(* database and the broker answer, and the mutex is then free for the next.  *)
UpdateReturns == \A c \in Callers : pc[c] # "idle" ~> pc[c] = "idle"

(* update/core/service_test.go:189-210: a failure of upstream to say its     *)
(* last id is an error of Update, so no call gets to size its channel by -1. *)
UpstreamFailureIsReported ==
    \A c \in Callers : pc[c] = "spawn" => lastId[c] >= 0

(* tests/update_test.go:56-63: after an Update that answered OK, as many     *)
(* comics are fetched as upstream has; here, all of those it listed.         *)
OkMeansComplete ==
    \A c \in Callers :
        pc[c] \in {"clear", "unlock"} /\ result[c] = "ok" =>
            1 .. lastId[c] \subseteq existingIDs[c] \cup stored[c]

(* From some point on nothing fails: no adapter call, no process, no Drop,   *)
(* while updates are still being run.                                        *)
NothingFails ==
    /\ \A c \in Callers :
        /\ failed'[c] \subseteq failed[c]
        /\ lastId'[c] # -1
        /\ result'[c] = "error" => result[c] = "error"
    /\ rows \subseteq rows'
    /\ lostEvent' => lostEvent

CalmAtLast == <>[][NothingFails]_vars /\ []<>(mu # NoCaller)

(* What failed is retried: once failures stop, the updates that still run    *)
(* bring the table level with upstream, whatever crash, Drop or partial      *)
(* failure came before, since each lists what is missing anew (59-86).       *)
MissingIsRetried == CalmAtLast => <>[](rows = 1 .. newest)

(* README.md:99-100: on an update of the database the service publishes an   *)
(* event; here, once failures stop, rows do not stay unannounced for ever.   *)
RowsGetAnnounced == CalmAtLast => (unannounced # {} ~> unannounced = {})

(***************************************************************************)
(* What the service promises (UpdateContract), read off this state         *)
(***************************************************************************)
Phase ==
    IF mu = NoCaller THEN "free"
    ELSE CASE pc[mu] = "locked" -> "starting"
           [] pc[mu] = "clear"  -> "settled"
           [] pc[mu] = "unlock" -> "leaving"
           [] OTHER -> "filling"

Contract == INSTANCE UpdateContract WITH
    owner <- mu, phase <- Phase, reported <- updateProcessing,
    pending <- unannounced, lost <- lostEvent

(* Every behaviour of the service is one the contract allows. *)
ImplementsContract == Contract!Spec
=============================================================================

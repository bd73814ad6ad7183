# TLA+ specifications of the comics search system

Specifications of the services under `search-services/`: what runs concurrently
in them, what may fail, and what is promised all the same. TLC checks the models
on small instances; TLAPS proves the invariants for every value of the
constants. Paths below are relative to `search-services/` unless they start
with `src/`.

1. [Inventory](#inventory)
2. [Modules](#modules)
3. [How the models correspond to the code](#how-the-models-correspond-to-the-code)
4. [Runs, bounds and results](#runs-bounds-and-results)
5. [Fairness](#fairness)
6. [Proofs](#proofs)
7. [Findings](#findings)
8. [Not modelled, and why](#not-modelled-and-why)
9. [Plan](#plan)

To run: `tlc -config MCUpdateService.cfg MCUpdateService`, and so on for each
configuration; `tlapm UpdateServiceProofs.tla`, and so on for each module of
proofs, checks the proofs.

## Inventory

Clients talk HTTP to `api`; `api` talks gRPC to `update`, `search` and `words`;
`update` and `search` share one PostgreSQL database and call `words` for
normalisation; `update` tells `search` through NATS that the table changed.

| Component | State | Operations | Interacts with |
|---|---|---|---|
| update core (`update/core/service.go`) | mutex `mu`, atomic flag `updateProcessing`, per call a channel `jobs` and a pool of `worker` goroutines | `Update`, `Stats`, `Status`, `Drop` | database, xkcd client, words service, publisher, by calls |
| update database adapter (`update/adapters/db`) | table `comics` | `Add`, `IDs`, `Stats`, `Drop` | PostgreSQL |
| xkcd client (`update/adapters/xkcd`) | none | `Get`, `LastID` | xkcd.com, with a timeout |
| publisher (`update/adapters/nats`) | connection | `SendDBChangedEvent` | NATS |
| concurrency limiter (`api/core/concurrency_service.go`, `middleware/concurrency.go`) | `stopped`, a buffered channel as semaphore | `Submit`, `Start`, `Stop`, `Wait` | one goroutine per search request |
| rate limiter (`api/core/rate_limiter_service.go`, `middleware/rate.go`) | `stopped`, token channel, `stopCh`, a generator goroutine | `Wait`, `Submit`, `Start`, `Stop` | requests of indexed search |
| search core (`search/core/service.go`) | the index: word to set of comic ids, not locked | `Search`, `SearchIndex`, `UpdateIndex` | database, words service |
| search database adapter (`search/adapters/db`) | none (reads `comics`) | `Find`, `FindAll`, `GetById` | PostgreSQL |
| index initiator (`search/adapters/iniziator`) | subscription | `Start`, `Stop` | NATS callback calls `UpdateIndex` |
| words service (`words`) | none | `Norm`, `Ping` | stemmer library |
| REST handlers (`api/adapters/rest/api.go`), gRPC clients and servers | none | one per endpoint | map results to statuses |
| authentication (`api/adapters/aaa`, `middleware/auth.go`) | secret, token lifetime | `Login`, `Verify` | JWT library |
| process wiring (`*/main.go`) | lifetimes | start, signal, shutdown | all |

Behaviours that are hard here, with the line where each bites, are listed as
`hazards` in `PROJECT.json`. In short:

- *Racing updates.* Any number of `Update` calls may be open; `TryLock` picks
  one, the others get `ErrAlreadyExists`. The order of two defers decides
  whether `Status` can be wrong.
- *Drop beside an update.* `Drop` takes no lock, so the listing of existing ids
  may be stale for the rest of the update.
- *Partial failure.* Each comic may fail to be fetched, normalised or stored,
  with `Update` carrying on and answering OK.
- *Crash between storing and publishing.* Rows survive, the obligation to
  announce them does not.
- *A semaphore that is also a barrier.* `Stop` fills the very channel whose
  places requests take without waiting.
- *An unprotected index* written by an event callback while gRPC calls read it,
  which Go answers with a wrong reading or with the end of the process.
- *Events for present subscribers only.* What is announced before the search
  service subscribes, or while it is down or its queue is full, is lost, and
  nothing else builds the index.
- *An index that only grows*, beside a table that `Drop` empties.
- *Text cut into chunks* at a byte limit that another service enforces.
- *An answer composed of several readings*, in `Stats` and in `SearchIndex`.
- *Errors that cross gRPC* and come back as other errors.
- *Shutdown* while requests are in flight.

What makes each component correct:

- update core: one update at a time; `Status` tells the truth; every missing
  comic is handed to exactly one worker and accounted for; no comic is fetched
  that is in the table; the event follows the rows; every call returns; what
  failed is retried by the next update.
- concurrency limiter: never more than `limit` handlers; no place leaks; `Stop`
  returns, after all tasks accepted before it; every request is answered.
- rate limiter: one generator, which does not outlive its `Stop`; bounded bursts;
  `Stop` and `Wait` return; no request sleeps where nothing wakes it.
- search core: whatever is derived from the table was in it; an undisturbed
  search answers the best comics, ranked and limited; a race cannot make a score
  too high; every call ends.
- update and search together: each row is in the index, on its way, or missing
  for a named reason, and one event repairs the index.
- words of a comic: none is lost at a cut, chunks fit what the words service
  accepts, and both searches rank alike.
- gateway: a stop waits for the searches accepted before it and ends; the
  status tells what happened to an update; the numbers of `Stats` fit together.

## Modules

| Module | Contents |
|---|---|
| `UpdateContract` | abstract specification of the update service: one owner, a phase, a reported flag, rows and pending announcements |
| `UpdateService` | the update service step by step, its properties, and the mapping to `UpdateContract` |
| `MCUpdateService` | symmetry set for TLC; four configurations |
| `UpdateServiceProofs` | theorems on `UpdateService` and their proofs: types, the single flight, the flag, the event |
| `UpdateWorkProofs` | further theorems on `UpdateService`: the work of an update, the table, the refinement of `UpdateContract` |
| `ConcurrencyLimiter` | the concurrency limiter with its middleware, and its properties; two configurations |
| `ConcurrencyLimiterProofs` | theorems on `ConcurrencyLimiter` and their proofs |
| `RateLimiter` | the rate limiter with its generator and clock, and its properties |
| `MCRateLimiter` | instance for TLC; one configuration |
| `RateLimiterProofs` | theorems on `RateLimiter` and their proofs |
| `SearchRanking` | the order of `Find` and of `SearchIndex` as pure operators |
| `SearchService` | the search service: process, subscription, index, requests |
| `UpdateFeed` | what a reader of the table and of the events sees of the update service; implemented by `UpdateContract` |
| `SearchSystem` | `SearchService` composed with `UpdateFeed` and an at-most-once broker, and its properties |
| `MCSearchSystem` | instance for TLC; three configurations |
| `SearchContract` | abstract specification of what a search answers; implemented by `SearchSystem` |
| `UpdateFeedProofs` | the theorem that `UpdateService` implements `UpdateFeed` |
| `SearchSystemProofs` | theorems on `SearchSystem` and their proofs: index, scores, exact answers, the refinement of `SearchContract` |
| `ComicWords` | from the text of a comic to its row, and what both searches make of it |
| `MCComicWords` | instance for TLC; one configuration |
| `ComicWordsProofs` | theorems on `ComicWords` and their proofs, with the induction they need |
| `Gateway` | the `api` process: handlers, middlewares, clients, shutdown; contains an instance of `ConcurrencyLimiter` |
| `MCGateway` | instance for TLC; one configuration |
| `GatewayProofs` | theorems on `Gateway` and their proofs; uses those on `ConcurrencyLimiter` |

```
UpdateService --implements--> UpdateContract --implements--> UpdateFeed
                                                                |
SearchRanking <-- SearchService <-------- SearchSystem ---------+
      ^                                        |
      |                                        +--implements--> SearchContract
      ^
      +---------- ComicWords           Gateway --contains--> ConcurrencyLimiter
```

The detailed modules also hold a few operators marked `mutant:`. Each stands
just before the definition it varies and describes a plausible mistake in the
code; nothing refers to it. Replacing the definition by it makes TLC refute the
property `PROJECT.json` names for it, which shows that the property depends on
the code.

## How the models correspond to the code

### UpdateService

One step is one call of an adapter or one operation on something two goroutines
share; code between two such points touches only locals and is part of the step
before it.

| Code | Model |
|---|---|
| `s.mu`, `s.updateProcessing` | `mu` (the holder, or `NoCaller`), `updateProcessing` |
| a call of `Update` and its program counter | `c \in Callers`, `pc[c]` |
| `lastId`, `ids`/`existingIDs`, loop variable, `shouldSendEvent` | `lastId`, `existingIDs`, `next`, `shouldSendEvent` |
| `jobs` channel, buffered with `lastId` places | `jobs[c]`, a sequence |
| goroutines `worker` | `stage[<<c, w>>]`, `job[<<c, w>>]` |
| table `comics` | `rows`, the ids stored |
| xkcd.com | `newest`, which grows |
| done contexts | `cancelled` |

| Lines of `update/core/service.go` | Actions |
|---|---|
| 44-47 `TryLock` | `TryLock` |
| 50 | `StoreRunning` |
| 54-58 `LastID` | `LastID`; answers `newest`, an error, or `-1` without an error (`xkcd.go` 103) |
| 59-63 `IDs` | `ListIDs` |
| 67-73 | `SpawnWorkers`; with a negative size `MakeChanPanics`, which ends the process |
| 80-86 | `Feed`, one turn of the loop each |
| 88, 90 | `CloseJobs`, `WaitWorkers` |
| 93-99 | `Publish`: the event is sent, or fails and the call still returns nil |
| 48, 51 defers | `Deferred`: the flag first, then the mutex |
| 102-117 `worker`, 119-156 `getComicsById` | `TakeJob`, `GetComic`, `NormComic`, `AddComic`, `GiveUp`, `LeavePool` |
| 211-217 `Drop` | `Drop` |

The environment: `CancelContext` (the client of a call goes away), `NewComic`
(upstream publishes), `Crash` (the process dies at any step and is restarted
with an empty memory and the same table).

Abstractions to know when reading a result:

- A comic is its number. Its words do not matter to the update. Upstream answers
  a request for comic *n* with number *n*.
- The constant `NotFoundID` is the literal 404 of the code, so that small
  instances contain it.
- An adapter call either takes effect or fails without effect. The window in
  which PostgreSQL commits an insert whose reply is lost is left out. A failing
  type assertion in `Get` panics and ends the process: that is `Crash`.
- `Get` and `Norm` carry the call's context, so they cannot succeed once it is
  done; `Add` is called without looking at it, and `LastID` ignores it.
- Death and restart are one step; a request sent in between would only be
  refused.
- `Status` reads the flag and `Stats` reads the database: neither changes
  anything, so they are not actions. What `Status` may answer is the property
  `StatusTracksWork`.
- `result`, `stored`, `failed`, `unannounced` and `lostEvent` are history: no
  guard reads them.

### UpdateContract

Six variables say what others may rely on: `Begin`, `Report`, `Store`,
`Settle`, `Withdraw`, `End` happen in this order; `Store` adds one new row
and only while the update is reported to run; `Settle` either announces
everything stored or records that the announcement is lost; `Restart` and
`Drop` may happen at any time. The mapping is at the end of `UpdateService`:
the owner is the mutex holder and the phase is read off its program counter.
The contract says nothing of liveness.

### ConcurrencyLimiter

A request `r` is one run of the middleware (`req[r]`) together with the
goroutine `Submit` starts for it (`task[r]`). `semaphore` counts the taken
places of the channel.

| Code | Actions |
|---|---|
| `Submit` 42-49: nil task or `stopped` | `Arrive` |
| `Submit` 51-60: `select` with default | `Submit` |
| middleware 13: `next(w, r)` | `Serve` |
| middleware 14, 20: `done` | `Hand`, a rendezvous |
| the task's deferred receive, 53-56 | `Release` |
| middleware 16-18, 21 and net/http | `Answer` |
| `Start`, `Stop`, `Wait` 23-40 | `Start`, `Stop`, `Wait` (which set or keep `stopped`), then `Acquire` and `Free` per element of the two loops |

`stopped` is read in `Arrive` and the place is taken in `Submit`: `Stop` may come
between the two, as in the code, where nothing locks them together. A full
channel parks a sender, and a receive hands its place straight to the sender
parked longest; this is what Go's channels do, and what `DrainReturns` rests on:
a `Submit` cannot overtake a parked `Stop`.

`taken[d]` counts how many elements of its first loop a drainer has sent and
not received back. `owed[d]` is history: the tasks running when it began.

### RateLimiter

| Lines of `api/core/rate_limiter_service.go` | Actions |
|---|---|
| 39-40: a turn of the generator's loop | `Loop`, which reads `rl.stopCh` |
| 41: a tick | `Tick` (the clock), `TakeTick` (the generator) |
| 42-45: the send with a default | `Send` |
| 34, 46-47 | `Quit` |
| 70-75 `Submit`, 53-58 | `Submit`, `Check` under the mutex |
| 60-67: the select of `Wait` | `Look` reads `rl.stopCh`, then `TakeToken`, `SeeStop`, `SeeExpiry` or, with nothing ready, `Sleep` |
| 79-80 and `middleware/rate.go` 9-15 | `Finish` |
| 83-94 `Stop` | `Stop`, then `Shut` or `AlreadyStopped`, then `Drained` |
| 96-112 `Start` | `Start` |

Every stop channel has a number: 0 for the one of the constructor, then one per
`Start`, and a generator has the number of the channel it was started with. That
`Wait` reads the field `rl.stopCh` after it has released the mutex, and the
generator reads it without one, is modelled: `Look` and `Loop` take whatever the
field holds at that moment. The mutex is a variable only because `Stop` keeps it while
it waits for the generator; the other critical sections have no step of another
goroutine inside and are one action.

`ahead[r]` keeps the order in which requests fell asleep, for a sender of a Go
channel wakes the one that has slept longest. `Impatient` requests may have their
context end; `Submit` passes `context.Background()`, so in the program there are
none, but `Wait` is exported and tested with such a context. `burst` is
history. Time has no numbers: a tick may come at any moment, and the rate is the
number of ticks.

### SearchService, UpdateFeed and SearchSystem

One step is one call of an adapter, or the work on one word of a loop.

| Code | Actions |
|---|---|
| `search/main.go` 45-66, 70-78 | `Connect`, `Listen` |
| `search/main.go` 67, `iniziator.go` 35-45: `go iniziator.Start` | `Subscribe`, in a goroutine that may run late, or panics |
| `search/main.go` 80-94: `GracefulStop`, `Serve` returns, deferred `Stop` | `Interrupt`, `ServeReturns`, then `Exit`, with or without `Unsubscribe` before it |
| NATS handing over an event | `EventArrives`: to a subscriber with room in its queue, or to nobody |
| `search/core/service.go` 16-21 | `TakeEvent`, `FindAll`, `FindAllFails` (logged, not retried) |
| 23-36: one word of the loop | `Merge`, then `Merged` |
| `Search` 49-60 | `NormPhrase`, `Find` |
| `SearchIndex` 62-77: one word of the loop | `NormPhrase`, `LookUp` |
| 79-104 and 106-115 | `Pick`, then `GetById` per id, `Fetched` |
| `search/adapters/grpc/server.go` | `Accept`, `Reply` |
| the end of the process at any step, `src/compose.yaml` restarts it | `Crash` |

The map `s.index` has no lock. While the callback is merging, a `LookUp` may see
any part of what is there or is coming, or end the process, as Go's runtime does
when it notices. Callbacks of one subscription run one at a time; while one
runs, at most `MaxInbox` events wait in the client and a further one is dropped.

Of the update service `SearchSystem` keeps the table and the announcements:
`UpdateFeed`. That this is enough is a theorem (`ServiceImplementsFeed`): the
detailed service with its races, crashes and failing publishes implements it.

`exact`, `missed`, `dropped` are history: no guard reads them. `missed` has the rows the
index will not learn of by an event under way, and it grows only where the model
names the reason: a restart, an event without a receiver, a failed `FindAll`, an
unsubscription.

Abstractions: a word and a comic are atoms; the words a comic has are the constant
`StoredWords`, since its text does not change. The order of the rows of one word and of
the words in the map do not matter to a set. `Find` may return any order its `ORDER BY`
allows, and any beginning of that list: it never asks `rows.Err()` (`storage.go` 61-71), so rows
whose reading breaks off are answered as if they were all. All requests have the same
limit, which the gateway keeps above 0.

The index only grows. `src/README.md` 416 and 436 speak of a rebuild, but `UpdateIndex`
(23-34) adds what it reads to what is there, so the id of a dropped comic stays as long
as the process lives. `GetById` keeps it out of the answers after the cut to the limit
(100), where it has taken the place of a comic that exists; `ExactAnswer` is
therefore stated for a search that began with an index level with the table.

`SearchContract` is what a client may rely on with either method, although the index
may be stale, racing or gone: `Ask` begins a call, `Tell` adds comics to its answer that
are in the table at that moment, have a word of the phrase and were not told before,
never more than the limit; `End`, `Restart`, `Store` and `Drop` may come at any time. An
answer need not be complete or of one moment. The mapping is at the end of
`SearchSystem`: `Find` tells its whole answer at once, `GetById` one comic or nothing;
a call is asked from the answer of `Norm` on. That a dropped comic the index still has
stays out of the answer is the work of `GetById` (`search/core/service.go` 106-113).

### ComicWords

| Code | Actions |
|---|---|
| `update/core/service.go` 162-172: one turn of the loop | `Pack`, with the test of 163 in `Overflows` |
| 174-179 | `SplitDone` |
| 139-146, `words/words/words.go` 44-65 | `NormChunk`: the words of the chunk, each once, in any order, appended |
| `words/main.go` 53-65: more than 4 KiB | `PhraseRefused` |
| 141-144, and any other failure | `JobFails` |
| 150-156 and `Add` | `AddRow` |
| the next update | `NextUpdate` |

A token is a piece of text without white space; its size in bytes and the words `Norm`
makes of it (several for a token with punctuation, none for a stop word) are constants.

### Gateway

A request `r` is at `pc[r]` in its handler, `endpoint[r]` is what it asked for.

| Code | Actions |
|---|---|
| `api/main.go` 34-102; 104-122 | `Boot`; `ListenReturns`, which does not wait for handlers |
| 83, 72, 39-43: the deferred calls, last first | `StopSearch`, `Draining`, `StopSearchReturns`, `Exit` |
| `middleware/auth.go`, `aaa/auth.go` `Verify` | `Auth` |
| `middleware/rate.go` | `Rate` |
| `middleware/concurrency.go` and the limiter | `Concurrency`, `TakePlace`, `HandlerRan`, `TaskStep`, `Finish`, each with its step of `ConcurrencyLimiter` |
| `rest/api.go`: validation | `CheckQuery` |
| `rest/api.go`: the other handlers, with their clients | `PingHandler`, `WordsHandler`, `StatusHandler`, `SearchHandler`, `LoginHandler` |
| `Stats` 101-119, `update/core/service.go` 181-201, `update/adapters/db/storage.go` 49-83 | `ReadStats`, four readings; `StatsFail` |
| `Update` 70-92, `update/update.go` 65-73, `update/adapters/grpc/server.go` 38-43 | `CallUpdate`, `RunEnds`, `CallCancelled`, `AnswerArrives`; the code in `CodeOf` |
| `Drop` 141-155 | `CallDrop`, `AnswerArrives` |

The update service is here what a caller sees of it: nobody, a request or an
`Orphan` owns the run, `rows` counts the table and `newest` upstream. A run whose
caller has gone, with its client or with the whole gateway, goes on until it ends.
The rate limiter is one step, as its own module shows that it lets everyone through
in time. Bodies are left out, and so is which token the JWT library accepts.

Where the code and `docs/swagger.yaml` differ the model follows the code: a malformed login
is answered with 401 (the document says 400) and a search without results with 200 (404).

## Runs, bounds and results

| Run | Instance | Checks | Result |
|---|---|---|---|
| `update_service` | 2 callers, 2 workers, 3 comics, comic 2 never fetched | 6 invariants, `ImplementsContract`, `UpdateReturns`, `MissingIsRetried` | holds |
| `update_lastid` | 2 callers, 1 worker, 1 comic | `UpstreamFailureIsReported` | violated |
| `update_ok_incomplete` | 2 callers, 1 worker, 1 comic | `OkMeansComplete` | violated |
| `update_unannounced` | 1 caller, 1 worker, 1 comic | `RowsGetAnnounced` | violated |
| `limiter` | 3 requests, 2 drainers, limit 2 | 4 invariants, `RequestsAnswered`, `DrainReturns` | holds |
| `limiter_early_503` | 2 requests, limit 1 | `RefusedOnlyAtLimit` | violated |
| `rate_limiter` | 2 requests, 1 of them impatient, 1 controller, 2 starts | 4 invariants, `RequestsAnswered`, `StopReturns` | holds |
| `search_system` | 1 request, 2 comics with 2 words, limit 1, a queue of 1 event | 5 invariants, `IndexCatchesUp`, `CallsEnd`, `ImplementsSearchContract` | holds |
| `comic_words` | 2 comics with one of 10 texts each, chunks of 5 bytes | 6 invariants | holds |
| `search_index_at_start` | 1 request, 1 comic with 1 word, limit 1, a queue of 1 event | `IndexBuiltAtStart` | violated |
| `search_index_race` | the same | `NoIndexRace` | violated |
| `gateway` | 2 requests, 9 endpoints, limit 1, 1 comic upstream | 4 invariants, `ShutdownEnds` | holds |

What the properties of the update service say:

- `StatusTracksWork`: the flag is up from the first call of an adapter to the
  return, and never up with the mutex free.
- `SingleFlight`: past `TryLock` is only the holder, and a pool lives only
  between its spawn and the return of `wg.Wait`.
- `WorkConserved`: each number handed out was listed or is in exactly one of:
  the channel, one worker, stored, failed.
- `NoRefetch`: what is queued or in work is not in the table, so the upsert of
  `Add` never meets a conflict, even with a `Drop` in between.
- `EventCoversRows`: with no update running, unannounced rows can only come from
  a failed publish or the end of the process.
- `ImplementsContract`: refinement of `UpdateContract`; among other things the table
  grows by one new comic at a time, while the flag is up, and shrinks only to nothing.
- `UpdateReturns`, `MissingIsRetried`: every call ends; once failures stop and
  updates still run, the table is level with upstream.

And of the limiter:

- `PlacesAccounted`: the channel is as full as there are tasks and unreturned
  sends of drainers, and a drainer is parked only on a full channel.
- `NeverOverLimit`: no more than `Limit` handlers at once.
- `DrainCoversEarlier`: a drainer that holds the whole channel has outlived
  every task accepted before its call.
- `RequestsAnswered`, `DrainReturns`: progress. A drainer returns if no other one stays
  beside it for ever.

And of the rate limiter:

- `OneGenerator`: exactly the current generator is alive while the limiter runs, and
  none after a `Stop` has returned.
- `NobodyOversleeps`: a sleeping request watches the open channel of the running
  limiter, and there is no token it could have had.
- `BurstBounded`: between two ticks at most three requests get a token. Three is
  reached: one token kept, one in the generator's hand, one tick unseen.
- `RequestsAnswered`, `StopReturns`: progress.

Of the search service and the update service together:

- `RowsAccountedFor`: each row is in the index or about to be merged, or an event that
  will bring it is queued or being handled, or it is not announced yet, or it was
  missed for one of the named reasons. No order of store, event, reading and merge
  loses one otherwise.
- `DerivedFromRows`: index, reading, scores and picked ids hold only comics that
  are, or before a `Drop` were, in the table with that word.
- `ScoresSound`: a search whose lookups fall before, into and after a merge may count
  too little, never too much. That a racing read which does not end the process yields
  only ids that are in the map or on their way into it is an assumption of `LookUp`.
- `ExactAnswer`: a `SearchIndex` that nothing disturbed answers the best comics of the
  table, as many as the limit allows.
- `IndexCatchesUp`: once nothing disturbs the service and events still come, the index
  covers the whole table, whatever was missed before.
- `CallsEnd`: each accepted call ends, and a draining process ends.
- `ImplementsSearchContract`: refinement of `SearchContract`. It speaks of what an answer
  holds, not of its order; the order is the subject of `ExactAnswer` and `SearchesAgree`.
- `IndexBuiltAtStart`, `NoIndexRace`: what the documents and the way the tests are run
  say of the index, and the code does not keep (findings 5 and 6). The properties above
  hold beside them, because they name the excuse: a row missed by a restart, a
  process ended by the race.

Of the words of a comic:

- `NoTokenLost`: chunks and the one being filled are the text read so far.
- `ChunksFit`: a chunk is over the limit only if it is a single word, and no chunk could
  have taken the next word. `RefusedForLongWord`: only a comic with such a word is
  refused, and such a comic is never stored.
- `RowHasAllWords`: the row has the words of the whole text, wherever it was cut.
- `SearchesAgree`: for every query and limit both searches show equally good comics in
  the same order, as long as no stored comic has several chunks. With several chunks a
  word occurs twice in the row and `Find` counts both (`search/adapters/db/storage.go` 40),
  so the two then differ; nothing in the repository promises otherwise.

Of the gateway:

- `SearchesOutliveStop`: when `main` goes on to exit, every search accepted before the
  deferred `Stop` has ended. A search that had read `stopped` just before may still
  start and be cut off by the exit.
- `UpdateOutcomeTold`: 202 exactly for a refusal, 200 exactly for a finished run.
- `StatsInOrder`: `comics_fetched` is never above `comics_total`, unless upstream failed
  and says -1; without a `Drop` no count is older than the one read before it.
- `ShutdownEnds`: an interrupt ends the process.

Bounds. `MaxID` bounds upstream and with it the channel and the loop; three comics are
the least with one skipped, one in work and one queued, or with two in work and one
queued. Two workers are the least that race; two callers the least of which one is
refused. A third caller could only be refused again. The instance contains every
combination of listed and missing comics, because a table of any contents is
reached by earlier updates with failures. A Drop, crash, cancellation or failure
may come at any point of an update. There are no state
constraints. In `limiter` three requests for two places mean that
all places are taken and one request is refused; two
drainers reach the state in which each holds one of the two places, waits for the
other and neither can return: `Wait` called twice at the same time deadlocks for
`limit` of 2 or more. In the program only `main` drains, and `DrainReturns` is stated
for a drainer that is alone in the end. `MaxStarts` bounds how often
the rate limiter is started; with two starts there is a restart, so that old and
new stop channels, requests and generators meet. Two requests are enough for one to
be ahead of the other, and since a request may come again within a tick, also for a
burst of three. `burst` stays finite because it is bounded. Symmetry is used in two runs
that check one invariant and nothing else. Deadlock is checked in
all runs; no system here can stop, since crashes, arrivals or further updates stay
possible.

In `search_system` two comics for a limit of one mean that the limit cuts. They
share a word, so that scores differ, and one repeats a word, as a comic of two
chunks does. A queue of one event is full while one more is handled, and a
third is lost. Requests do not touch each other's state and nothing the service
shares depends on them, so one is enough for the race with the callback. In
the two runs on what the index is said to be, one comic with one word is enough: the
shortest counterexample needs no second one. In
`comic_words` the texts contain every case of the test in 163: a word that fits exactly,
one that does not because of the space, one longer than any chunk, stop words, a word
with punctuation, the empty text; both limits are 5 bytes, as both are 4096 in the code.
In `gateway` one place and two requests make one of them wait, be refused or be drained;
an update meets another one when it finds the `Orphan` of an earlier request; one comic is
enough to be stored, dropped and stored again between the readings of `Stats`.

## Fairness

`UpdateService`: weak fairness of the steps of each call and each worker. The Go
runtime runs every runnable goroutine, and each adapter call ends: the xkcd client
has a timeout, and the gRPC, PostgreSQL and NATS calls end with their
connection or context. A call's fairness does not say *how* an adapter call ends:
it may fail each time. No fairness for `TryLock` (nobody has to ask for an update),
`CancelContext`, `Drop`, `NewComic` or `Crash`. `MissingIsRetried` and
`RowsGetAnnounced` have the premise `CalmAtLast`: from some point on no adapter call
fails, nothing crashes and nobody drops the table, while updates keep being
started. The premise is about the environment and does not mention what the service
should achieve.

`ConcurrencyLimiter`: weak fairness of the steps of requests that have passed
`Arrive`, of the release of a place, and of drainers. That a handler returns
(`Serve`) is the assumption that a search call ends. No fairness for arrivals,
`Start`, `Stop` and `Wait`.

`RateLimiter`: weak fairness of the steps of requests past `Submit`, of generators and
of the clock. Strong fairness where a step can be disabled again and again: getting the
mutex (`Check`, `Shut`, `AlreadyStopped`), since Go's mutex hands over to a waiter
that has waited too long; and `Quit`, since a select chooses at random among what
is ready and cannot prefer the ticker for ever. No fairness for `Submit`, `Expire`,
`Stop` and `Start`.

`SearchSystem`: weak fairness of the callback, of each open request and of the
process once it is draining. Adapter calls return, with an answer or an error.
No fairness for the update service, for events, for clients, operators or
restarts. `IndexCatchesUp` has a premise about the environment: from some point on the
process and its subscription live, `FindAll` works, nobody drops the table, and events
keep coming. The premise of `IndexBuiltAtStart` is that from some
point on the process serves and is subscribed, and that a reading which was begun is
followed by one that works; it asks for no event, since a start is not one.

`Gateway`: weak fairness of handlers, of the tasks of the limiter, of `main` once
`ListenAndServe` has returned, and of the end of a run (`UpdateReturns` of
`UpdateService`); calls of the search service end (`CallsEnd`). No fairness for `Send`, interrupts,
crashes, `Boot`, `NewComic`, `StoreComic` or cancellation.

## Proofs

Assumptions on the constants: `NoCaller` is not a caller, there is at least one
worker (`NewService` rejects less), `MaxID` and `MaxStarts` are natural numbers,
`Limit` is a positive one (`NewConcurrencyHandler` replaces others by 1),
`Impatient` is a set of requests and `NoController` not a controller. In `SearchService`
the limit and the queue are positive, the phrases are finite sets of words and a comic
has a sequence of words. In `ComicWords` the comics are a finite set of numbers (an update
hands out `1 .. lastId`), a token has at least one byte (`strings.Fields` yields no empty
one) and finitely many words, queries are finite, limits natural, and the splitter's limit
is at most that of the words service (both are 4096 in the code). In `Gateway`, `Nobody` and `Orphan` are not requests and `Asks` gives each request
a set of endpoints. Callers,
workers, requests, drainers and controllers are arbitrary sets, finite or not.

`UpdateServiceProofs`:

- `TypeCorrect`: `Spec => []TypeOK`, by the four groups of `TypeOK`.
- `AtMostOneFlight` and `StatusIsFaithful`: `SingleFlight` and `StatusTracksWork`
  are inductive together once it is also known that the flag is down just after
  `TryLock` and just before `Unlock` (`FlightInv`); without that, an unlock might
  leave the flag up.
- `EventsCoverRows`: `EventCoversRows` says nothing while an update runs, so it needs
  `EventInv`. `QueueInv`: the channel is empty once the pool is gone, because no worker leaves
  before it is closed and drained. `DueInv`: where a job is queued or in work,
  `shouldSendEvent` is up. `AnnounceInv`: rows are announced, or known to be lost,
  or the running update has its event still to send. A row is stored only by a
  worker at work, hence with an event due; the flag is taken down only after
  `Publish`; a restart records the loss.

`UpdateWorkProofs`, from `IWork`, which is `TypeOK`, `FlightInv`, `EventInv` and, call by
call, `Work`:

- `Conserved` is `WorkConserved` without its clause about the end of the wait.
  `Progress`: before its loop a call has done nothing, and the loop ends one past
  `lastId`, which upstream has reached. `Snapshot`: from the listing to the end of the
  wait the table holds nothing but what was listed and what this call stored. Then
  `Unstored`, which is `NoRefetch` for one call, is inductive: a number sent to the
  channel was not listed and has not been handed out before, so it is not a row.
- `SingleFlight` does the rest: while one call works every other is idle, its channel
  empty and its pool gone, so no step but its own changes its work.
- `SendAdds` and `ReceiveTakes` are the lemmas about a channel as a set of numbers
  without repetition.
- `NoWorkIsLost` adds that after the wait nothing is queued or in work and the loop has
  gone through all of `1 .. lastId`. `NothingIsRefetched` is `Unstored`. `RowsAreLegal`
  (each change of the table adds one new published comic while the flag is up, or empties it)
  uses both, for a stored number is below `next`, hence published, and not in the table.
- `ServiceImplementsContract` needs one more invariant, `LostInv`: an event counts as
  lost only while there are unannounced rows. With `AnnounceInv` this settles each way
  to the end of an update: where no event is due, what is unannounced is lost.
  One lemma per kind of step names the step of the contract.

`ConcurrencyLimiterProofs`:

- The inductive invariant `IInv` is `TypeOK` with `ReqInv` (a request that has not
  got its place has no task), `ParkedInv` (the queue has each parked drainer
  once and no other, each with a send to do), `PlacesInv` (the equation of
  `PlacesAccounted`, over a finite set of holders), `OwedInv` (owed tasks are
  running) and `DrainCoversEarlier`. The counting lemmas say how `Holders` changes
  with one task, one send, or a place handed from one holder to the next.
- `LimitHolds` follows from the equation, since running tasks are holders.
  `DrainWaitsForEarlier` follows from it too: the sends of a drainer that has done
  all of them fill the channel and leave no place for a task.

`RateLimiterProofs`:

- The inductive invariant `IInv` is `TypeOK` with `MutexInv` (a waiting `Stop` holds the mutex
  of a stopped limiter), `ClosedInv` (the current channel is open exactly while the limiter
  runs), `GeneratorInv` (a living generator has the current number and watches the current
  channel), `ChannelInv` (what a request has read is closed, or the open channel of the
  running limiter) and `BurstInv` (tokens given, kept, in hand and still to be made
  are at most three).
- `GeneratorIsUnique`, `NoLostWakeup` and `BurstsAreBounded` follow. The order of
  sleepers is not needed for safety, only for `RequestsAnswered`.

`UpdateFeedProofs`: `ServiceImplementsFeed` maps each step of `UpdateContract` to a step
of `UpdateFeed` or a stutter and combines this with `ServiceImplementsContract`.

`SearchSystemProofs`:

- The inductive invariant is `TypeOK`, `LoopInv` (what the loop has at each
  stage: the words left are among the query's, which is finite, and before its loop a
  request has no score), `RowsAccountedFor`, `DerivedFromRows` and `ScoresSound`. These are inductive together:
  a merge moves ids from the reading to the index, so it keeps the union both
  statements speak of; a racing read sees a part of that union.
- `ScoresSound` rests on a lemma about cardinality: looking up one more word adds at most
  one to a score and, where the comic has the word, exactly one to `DistinctHits`.
- `TypeCorrect`, `NoRowIsLost`, `NothingIsInvented`, `ScoresAreSound` follow.
- `AnswersAreExact` has an invariant of its own beside that one, `ExactInv`. As long as
  nothing has disturbed a request, the index is level with the table and nobody merges;
  while it matches, its scores are exactly the words looked up so far, and
  from `Pick` on what it has answered followed by what it will still fetch is an answer
  `RankResults` allows. `LookUpExact` counts one word more: a set grows by one
  element or not at all. `BestPicked` says that ranking by the exact scores is ranking the rows.
  Every other step either leaves all this alone or disturbs the request.
- `SearchImplementsContract` needs `TellInv`: what a request still has to fetch has no
  repetition, has a word of the phrase, is not in its answer yet, and together with the
  answer keeps to the limit. Here `ScoresSound` pays: a comic is picked for a score
  above 0, which is at most its true count, so it does have a word even if the index was
  read during a merge. `FoundMatches` is the same for the query of the database. One lemma per
  request step names the step of the contract; the steps of the process and of the callback
  are stutters or `Restart`.

`ComicWordsProofs`:

- The module begins with induction over numbers in a form that needs no operator
  parameter: the numbers a statement holds for are a set, which contains `0 .. n` if it contains
  0 and with each number the next (`Induction`, from the well-foundedness of finite sets).
  `RecursionExists` and `RecursionUnique` settle what a recursive function is, and so
  what `Bytes` and the library's `FlattenSeq` make of a list with one more element
  (`BytesAppend`, `FlattenAppend`).
- The inductive invariant is `TypeOK` and, comic by comic, `ComicInv`, a statement on values:
  `Lossless` is `NoTokenLost`; `Placed`: the tokens read are those of the
  chunks; `SnugSoFar` extends `ChunksFit` to the chunk being filled, since what counts
  when a chunk is cut off is the token that comes next; `Answered`: the chunks answered so far were
  within the limit of the words service, and `words` has exactly their words; `Progress`
  ties the stage to the two loops.
- `TypeCorrect`, `SplittingIsLossless`, `ChunksAreSnug` are parts of it. `RefusalsAreJust`
  combines the limits: a refused chunk is over the words service's limit, hence over the
  splitter's, hence a single token; and a chunk is at least as long as each of its tokens.
  `RowsAreComplete` combines `Answered` with `Placed` at the end of the text.
- `SearchesShowEquals`: a row of one chunk has no word twice, so counting places is counting
  words (`CountsAgree`) and a full match is one with the highest count. Both orders are then
  lists of the same set that never rise in the count (`OrderingsFall`), and two
  such lists show the same counts place by place (`SameKeys`): if one showed less somewhere,
  the other's elements up to there would all have to stand before that place, one too many for the
  pigeonholes (`NoSmallerKey`).

`GatewayProofs`, with an invariant of three parts that do not meet:

- `LimiterInv`: the proved invariant of `ConcurrencyLimiter`, by an instance of
  `ConcurrencyLimiterProofs` with `main` as its only drainer, and `DrainInv`: an idle
  drain owes nothing, and a closing process has an idle drain. Each step of the gateway
  is a step of the limiter, leaves it alone, or starts it anew. A place handed to
  a parked sender cannot wake an idle `main`, since the queue holds parked drainers only.
- `StatsInv`: each count read from the table is at most `newest`, and at most `rows` as
  long as nobody dropped the table. The first bound makes the fourth number the
  greatest; the second makes the next reading no smaller.
- `CallInv`: a request waits for a run exactly while it owns it, and the outcome of an
  update is set before its answer is on its way.
- `TypeCorrect`, `SearchesAreWaitedFor`, `OutcomeIsTold`, `StatsAreOrdered` follow.

Only model-checked: the liveness properties (`UpdateReturns`, `MissingIsRetried`,
`RequestsAnswered` and `DrainReturns` of the limiter, `RequestsAnswered` and `StopReturns` of the
rate limiter, `IndexCatchesUp`, `CallsEnd`, `ShutdownEnds`), which rest on fairness and so on
ENABLED, out of the provers' reach; and the six properties the findings are about, which
do not hold. Every invariant and every action or refinement property of a passing run
has a theorem. The inductive invariants `IWork`, `ExactInv` with its `IInv`, `TellInv`, and that of
`ComicWordsProofs` were checked by TLC on the instances of `update_service`, `search_system` and
`comic_words` before they were proved.

## Findings

Six runs show where the code differs from what its documents or tests say.

1. `update_lastid`: `LastID` returns `-1` with a nil error on a status other than 200
   (`update/adapters/xkcd/xkcd.go` 103), and `make(chan int, -1)` panics.
   `update/core/service_test.go` 189-210 expects an error of `Update`.
2. `update_ok_incomplete`: an update that could not fetch a comic answers OK;
   `src/tests/update_test.go` 56-63 expects all comics after an OK.
3. `update_unannounced`: rows stored before a crash or a failed publish are never
   announced, unless another comic appears. `src/README.md` 100 and 415 say that an
   update of the database publishes an event.
4. `limiter_early_503`: the place is given back after the client has its answer, so its
   next request may get 503 with nothing running; `docs/swagger.yaml` 164-165 gives
   503 for the limit only.
5. `search_index_at_start`: `src/README.md` 435 promises an index built at start.
   `Start` (`search/adapters/iniziator/iniziator.go` 34-63) only subscribes, and the time to
   live of `src/README.md` 437 is never read. The run shows comics stored and announced
   before a restart that stay out of the index for ever, although the process stays up
   and subscribed.
6. `search_index_race`: `UpdateIndex` writes the maps that `SearchIndex` reads in other
   goroutines, with no lock (`search/core/service.go` 24-33 and 72-73). The tests are run with
   the race detector (`search-services/Makefile` 21), but none lets the two meet. The run
   shows them both about to touch the map; Go may then end the process.

## Not modelled, and why

- Generated protocol code (`proto/*`), JSON encoding, configuration: conversions with no
  state of their own. What crosses gRPC is modelled where it decides something
  (`CodeOf`, `Norm`).
- What the stemmer makes of a word, and which token the JWT library accepts: third-party
  code; the models allow any result.
- Migrations: run once before the service listens.
- The graceful stop of the update process: it adds nothing to `Crash`, which may come at
  any step. The words service has no state.
- An index built at the start of the search service and its time to live: the code has
  neither (finding 5).
- Which of the two counts is meant for a comic of several chunks, whose row repeats words
  (`search/adapters/db/storage.go` 40): nothing in the repository says so, and
  `SearchesAgree` is about comics of one chunk.
- Tests, examples, dashboards and deployment, except that containers are restarted.

## Plan

Done: the update service with its contract; both limiters; the search service, its
composition with the update service and the broker; the words of a comic; the gateway
with its shutdown; theorems for all safety properties of each; contracts of the update
service and of a search, with the proofs that they are implemented.

Possible next steps:

1. An abstract semaphore with a barrier that `ConcurrencyLimiter` implements, so that the
   gateway can be read against that instead of against the limiter's channel.
2. A gateway composed with `RateLimiter`, to show at one place that the order of the two
   deferred stops does not matter.
3. The window in which PostgreSQL commits an insert whose reply is lost.

-------------------------- MODULE UpdateWorkProofs --------------------------
(***************************************************************************)
(* Proofs about the work of an update, for any number of callers, workers  *)
(* and comics: no comic is lost or fetched twice, the table changes as it  *)
(* should, and the service implements UpdateContract.                      *)
(***************************************************************************)
EXTENDS UpdateServiceProofs

(***************************************************************************)
(* The invariant, call by call                                             *)
(***************************************************************************)
(* WorkConserved but for what it says of the end of the wait *)
Conserved(c) ==
    /\ pc[c] \in {"feed", "wait", "publish"} =>
          (1 .. next[c] - 1) \ existingIDs[c]
              = Queued(c) \cup InWork(c) \cup stored[c] \cup failed[c]
    /\ \A k, l \in DOMAIN jobs[c] : k # l => jobs[c][k] # jobs[c][l]
    /\ \A v, w \in Workers : v # w /\ job[<<c, v>>] # 0 => job[<<c, v>>] # job[<<c, w>>]
    /\ Queued(c) \cap (InWork(c) \cup stored[c] \cup failed[c]) = {}
    /\ InWork(c) \cap (stored[c] \cup failed[c]) = {}
    /\ stored[c] \cap failed[c] = {}

(* Before its loop a call has done nothing; the loop ends one past lastId, *)
(* which upstream has reached.                                             *)
Progress(c) ==
    /\ pc[c] \in {"idle", "locked", "lastid", "ids", "spawn"} =>
          next[c] = 1 /\ stored[c] = {} /\ failed[c] = {}
    /\ pc[c] = "feed" => 0 <= lastId[c] /\ next[c] <= lastId[c] + 1
    /\ pc[c] \in {"wait", "publish"} => next[c] = lastId[c] + 1
    /\ lastId[c] <= newest

(* The listing does not go stale by more than the call itself stores, ... *)
Snapshot(c) == pc[c] \in {"spawn", "feed", "wait"} => rows \subseteq existingIDs[c] \cup stored[c]

(* ... so that what is still to be stored is not in the table. *)
Unstored(c) == (Queued(c) \cup InWork(c)) \cap rows = {}

Work(c) == Conserved(c) /\ Progress(c) /\ Snapshot(c) /\ Unstored(c)
WorkInv == \A c \in Callers : Work(c)

IWork == TypeOK /\ FlightInv /\ EventInv /\ WorkInv

(***************************************************************************)
(* Channels and pools as sets of comics                                    *)
(***************************************************************************)
(* a number sent is one more in the channel *)
LEMMA SendAdds ==
  ASSUME NEW S, NEW s \in Seq(S), NEW x \in S
  PROVE  /\ {Append(s, x)[k] : k \in DOMAIN Append(s, x)} = {s[k] : k \in DOMAIN s} \cup {x}
         /\ (\A k, l \in DOMAIN s : k # l => s[k] # s[l]) /\ x \notin {s[k] : k \in DOMAIN s} =>
               \A k, l \in DOMAIN Append(s, x) : k # l => Append(s, x)[k] # Append(s, x)[l]
<1>1. /\ DOMAIN s = 1 .. Len(s) /\ Len(s) \in Nat
      /\ DOMAIN Append(s, x) = 1 .. Len(s) + 1
      /\ \A k \in 1 .. Len(s) : Append(s, x)[k] = s[k]
      /\ Append(s, x)[Len(s) + 1] = x
  OBVIOUS
<1>2. \A k \in 1 .. Len(s) + 1 : k \in 1 .. Len(s) \/ k = Len(s) + 1
  BY <1>1
<1>3. {Append(s, x)[k] : k \in DOMAIN Append(s, x)} = {s[k] : k \in DOMAIN s} \cup {x}
  <2>1. ASSUME NEW k \in 1 .. Len(s)
        PROVE  k \in 1 .. Len(s) + 1
    BY <1>1
  <2>2. Len(s) + 1 \in 1 .. Len(s) + 1
    BY <1>1
  <2>. QED
    BY <1>1, <1>2, <2>1, <2>2
<1>. QED
  BY <1>1, <1>2, <1>3

(* a number received is one less, if it was there once *)
LEMMA ReceiveTakes ==
  ASSUME NEW S, NEW s \in Seq(S), s # <<>>,
         \A k, l \in DOMAIN s : k # l => s[k] # s[l]
  PROVE  /\ Head(s) \in {s[k] : k \in DOMAIN s}
         /\ {Tail(s)[k] : k \in DOMAIN Tail(s)} = {s[k] : k \in DOMAIN s} \ {Head(s)}
         /\ \A k, l \in DOMAIN Tail(s) : k # l => Tail(s)[k] # Tail(s)[l]
<1>1. /\ DOMAIN s = 1 .. Len(s) /\ Len(s) \in Nat \ {0}
      /\ Head(s) = s[1] /\ 1 \in DOMAIN s
      /\ DOMAIN Tail(s) = 1 .. Len(s) - 1
      /\ \A k \in DOMAIN Tail(s) : k + 1 \in DOMAIN s /\ k + 1 # 1 /\ Tail(s)[k] = s[k + 1]
  OBVIOUS
<1>2. ASSUME NEW k \in DOMAIN s, k # 1
      PROVE  k - 1 \in DOMAIN Tail(s) /\ Tail(s)[k - 1] = s[k]
  BY <1>1, <1>2
<1>3. {Tail(s)[k] : k \in DOMAIN Tail(s)} = {s[k] : k \in DOMAIN s} \ {Head(s)}
  <2>1. ASSUME NEW k \in DOMAIN Tail(s)
        PROVE  Tail(s)[k] \in {s[i] : i \in DOMAIN s} \ {Head(s)}
    BY <1>1
  <2>2. ASSUME NEW k \in DOMAIN s, s[k] # Head(s)
        PROVE  s[k] \in {Tail(s)[i] : i \in DOMAIN Tail(s)}
    BY <1>1, <1>2, <2>2
  <2>. QED
    BY <2>1, <2>2
<1>4. ASSUME NEW k \in DOMAIN Tail(s), NEW l \in DOMAIN Tail(s), k # l
      PROVE  Tail(s)[k] # Tail(s)[l]
  <2>1. k + 1 # l + 1
    BY <1>1, <1>4
  <2>. QED
    BY <1>1, <2>1
<1>. QED
  BY <1>1, <1>3, <1>4

(* the comics in work are the nonzero jobs of the call's workers *)
LEMMA InWorkIs ==
  ASSUME TypeOK, NEW c \in Callers
  PROVE  InWork(c) = {job[<<c, w>>] : w \in Workers} \ {0}
<1>1. \A w \in Workers : job[<<c, w>>] # 0 <=> stage[<<c, w>>] \in Busy
  BY DEF TypeOK, PoolTyped, Slots
<1>. QED
  BY <1>1 DEF InWork

LEMMA InWorkIsNext ==
  ASSUME TypeOK', NEW c \in Callers
  PROVE  InWork(c)' = {job'[<<c, w>>] : w \in Workers} \ {0}
<1>1. \A w \in Workers : job'[<<c, w>>] # 0 <=> stage'[<<c, w>>] \in Busy
  BY DEF TypeOK, PoolTyped, Slots
<1>. QED
  BY <1>1 DEF InWork

LEMMA EmptyChannel == \A s : s = <<>> => {s[k] : k \in DOMAIN s} = {}
<1>1. DOMAIN <<>> = {}
  OBVIOUS
<1>. QED
  BY <1>1, Zenon

(* a call whose pool is gone has nothing queued and nothing in work *)
LEMMA NoPool ==
  ASSUME TypeOK, FlightInv, EventInv, NEW c \in Callers, pc[c] \notin {"feed", "wait"}
  PROVE  jobs[c] = <<>> /\ Queued(c) = {} /\ InWork(c) = {} /\ \A w \in Workers : job[<<c, w>>] = 0
<1>1. jobs[c] = <<>>
  BY DEF EventInv, QueueInv
<1>2. \A w \in Workers : stage[<<c, w>>] = "off"
  BY DEF FlightInv, SingleFlight
<1>3. \A w \in Workers : job[<<c, w>>] = 0
  BY <1>2 DEF TypeOK, PoolTyped, Slots, Busy
<1>4. Queued(c) = {}
  BY <1>1, EmptyChannel DEF Queued
<1>5. InWork(c) = {}
  BY <1>2 DEF InWork, Busy
<1>. QED
  BY <1>1, <1>3, <1>4, <1>5

LEMMA InitWork == Init => WorkInv
<1>. SUFFICES ASSUME Init, NEW c \in Callers PROVE Work(c)
  BY DEF WorkInv
<1>1. Queued(c) = {} /\ InWork(c) = {}
  <2>1. \A w \in Workers : stage[<<c, w>>] = "off"
    BY DEF Init, Slots
  <2>2. jobs[c] = <<>>
    BY DEF Init
  <2>3. Queued(c) = {}
    BY <2>2, EmptyChannel DEF Queued
  <2>. QED
    BY <2>1, <2>3 DEF InWork, Busy
<1>2. \A w \in Workers : job[<<c, w>>] = 0
  BY DEF Init, Slots
<1>3. Conserved(c)
  BY <1>1, <1>2 DEF Init, Conserved
<1>4. Progress(c)
  BY MaxIDAssumption DEF Init, Progress
<1>. QED
  BY <1>1, <1>3, <1>4 DEF Init, Work, Snapshot, Unstored

LEMMA RestartWork == TypeOK /\ ProcessRestarts => WorkInv'
<1>. SUFFICES ASSUME TypeOK, ProcessRestarts, NEW c \in Callers PROVE Work(c)'
  BY DEF WorkInv
<1>1. \A w \in Workers : job'[<<c, w>>] = 0 /\ stage'[<<c, w>>] = "off"
  BY DEF ProcessRestarts, Slots
<1>2. Queued(c)' = {} /\ InWork(c)' = {}
  <2>1. jobs'[c] = <<>>
    BY DEF ProcessRestarts
  <2>2. Queued(c)' = {}
    BY <2>1, EmptyChannel DEF Queued
  <2>. QED
    BY <1>1, <2>2 DEF InWork, Busy
<1>3. Conserved(c)'
  BY <1>1, <1>2 DEF ProcessRestarts, Conserved
<1>4. Progress(c)'
  BY MaxIDAssumption DEF ProcessRestarts, Progress, TypeOK, TableTyped, world
<1>. QED
  BY <1>2, <1>3, <1>4 DEF ProcessRestarts, Work, Snapshot, Unstored

(***************************************************************************)
(* Steps of a call                                                         *)
(***************************************************************************)
(* channel and pool of a call are sets of comics that only its steps change *)
LEMMA SameChannel ==
  ASSUME NEW c \in Callers, jobs'[c] = jobs[c],
         \A w \in Workers : job'[<<c, w>>] = job[<<c, w>>] /\ stage'[<<c, w>>] = stage[<<c, w>>]
  PROVE  Queued(c)' = Queued(c) /\ InWork(c)' = InWork(c)
BY DEF Queued, InWork

(* what another call does is nothing to an idle one *)
LEMMA OtherCall ==
  ASSUME TypeOK, FlightInv, EventInv, NEW d \in Callers, Work(d), pc[d] = "idle",
         pc'[d] = pc[d], next'[d] = next[d], stored'[d] = stored[d], failed'[d] = failed[d],
         lastId'[d] = lastId[d], newest' = newest, jobs'[d] = jobs[d],
         \A w \in Workers : job'[<<d, w>>] = job[<<d, w>>] /\ stage'[<<d, w>>] = stage[<<d, w>>]
  PROVE  Work(d)'
<1>1. jobs[d] = <<>> /\ Queued(d) = {} /\ InWork(d) = {} /\ \A w \in Workers : job[<<d, w>>] = 0
  BY NoPool
<1>2. Queued(d)' = {} /\ InWork(d)' = {}
  BY <1>1, SameChannel
<1>3. Conserved(d)'
  BY <1>1, <1>2 DEF Work, Conserved
<1>4. Progress(d)'
  BY DEF Work, Progress
<1>. QED
  BY <1>2, <1>3, <1>4 DEF Work, Snapshot, Unstored

(* a step of the call that moves no comic *)
LEMMA NothingMoved ==
  ASSUME NEW c \in Callers, Work(c), Progress(c)', Snapshot(c)',
         jobs'[c] = jobs[c], stored'[c] = stored[c], failed'[c] = failed[c], rows' = rows,
         \A w \in Workers : job'[<<c, w>>] = job[<<c, w>>] /\ stage'[<<c, w>>] = stage[<<c, w>>],
         pc'[c] \in {"feed", "wait", "publish"} =>
            /\ pc[c] \in {"feed", "wait", "publish"}
            /\ next'[c] = next[c] /\ existingIDs'[c] = existingIDs[c]
  PROVE  Work(c)'
<1>1. Queued(c)' = Queued(c) /\ InWork(c)' = InWork(c)
  BY SameChannel
<1>2. Conserved(c)'
  BY <1>1 DEF Work, Conserved
<1>. QED
  BY <1>1, <1>2 DEF Work, Unstored

LEMMA CallStepWork ==
  ASSUME IWork, NEW c \in Callers, CallStep(c), ~MakeChanPanics(c)
  PROVE  Work(c)'
<1>. USE DEF IWork, TypeOK, CallsTyped, mutex, locals, pool, world, journal, Goto, ReturnFrom
<1>1. Work(c)
  BY DEF WorkInv
<1>2. /\ lastId \in [Callers -> -1 .. MaxID] /\ next \in [Callers -> 1 .. MaxID + 1]
      /\ newest \in 0 .. MaxID /\ MaxID \in Nat
  BY MaxIDAssumption DEF LocalsTyped, TableTyped
<1>3. CASE StoreRunning(c)
  <2>1. Progress(c)' /\ Snapshot(c)'
    BY <1>1, <1>3 DEF StoreRunning, Work, Progress, Snapshot
  <2>. QED
    BY <1>1, <1>3, <2>1, NothingMoved DEF StoreRunning
<1>4. CASE LastID(c)
  <2>1. lastId'[c] <= newest'
    BY <1>1, <1>2, <1>4 DEF LastID, LastIDAnswers, Work, Progress
  <2>2. Progress(c)' /\ Snapshot(c)'
    BY <1>1, <1>4, <2>1 DEF LastID, Work, Progress, Snapshot
  <2>. QED
    BY <1>1, <1>4, <2>2, NothingMoved DEF LastID
<1>5. CASE ListIDs(c)
  <2>1. Progress(c)'
    BY <1>1, <1>5 DEF ListIDs, Work, Progress
  <2>2. Snapshot(c)'
    BY <1>5 DEF ListIDs, Listed, Snapshot, LocalsTyped
  <2>. QED
    BY <1>1, <1>5, <2>1, <2>2, NothingMoved DEF ListIDs
<1>6. CASE SpawnWorkers(c)
  <2>1. Progress(c)' /\ Snapshot(c)'
    BY <1>1, <1>2, <1>6 DEF SpawnWorkers, Work, Progress, Snapshot
  <2>2. Queued(c)' = {}
    BY <1>6, NoPool DEF SpawnWorkers, Queued
  <2>3. \A w \in Workers : stage'[<<c, w>>] = "receive" /\ job'[<<c, w>>] = 0
    BY <1>6 DEF SpawnWorkers, Slots
  <2>4. InWork(c)' = {}
    BY <2>3 DEF InWork, Busy
  <2>5. 1 .. next'[c] - 1 = {} /\ stored'[c] = {} /\ failed'[c] = {}
    BY <1>1, <1>6 DEF SpawnWorkers, Work, Progress
  <2>6. Conserved(c)'
    BY <1>1, <1>6, <2>2, <2>3, <2>4, <2>5 DEF SpawnWorkers, Work, Conserved
  <2>. QED
    BY <2>1, <2>2, <2>4, <2>6 DEF Work, Unstored
<1>7. CASE Feed(c)
  <2>1. /\ pc[c] = "feed" /\ pc' = pc /\ rows' = rows /\ stored' = stored /\ failed' = failed
        /\ existingIDs' = existingIDs /\ lastId' = lastId /\ newest' = newest
        /\ next[c] <= lastId[c] /\ next'[c] = next[c] + 1
        /\ stage' = stage /\ job' = job
    BY <1>2, <1>7 DEF Feed
  <2>2. Progress(c)' /\ Snapshot(c)'
    BY <1>1, <1>2, <2>1 DEF Work, Progress, Snapshot
  <2>3. /\ 1 .. next'[c] - 1 = (1 .. next[c] - 1) \cup {next[c]}
        /\ next[c] \notin 1 .. next[c] - 1
    BY <1>2, <2>1
  <2>4. InWork(c)' = InWork(c)
    BY <2>1 DEF InWork
  <2>5. CASE next[c] \in existingIDs[c] /\ jobs' = jobs
    <3>1. Queued(c)' = Queued(c)
      BY <2>5 DEF Queued
    <3>2. Conserved(c)'
      BY <1>1, <2>1, <2>3, <2>4, <2>5, <3>1 DEF Work, Conserved
    <3>. QED
      BY <1>1, <2>1, <2>2, <2>4, <3>1, <3>2 DEF Work, Unstored
  <2>6. CASE next[c] \notin existingIDs[c] /\ jobs'[c] = Append(jobs[c], next[c])
    <3>1. jobs[c] \in Seq(ComicIDs) /\ next[c] \in ComicIDs
      BY <1>2, <2>1 DEF PoolTyped, ComicIDs
    <3>2. next[c] \notin Queued(c) \cup InWork(c) \cup stored[c] \cup failed[c]
      BY <1>1, <2>1, <2>3 DEF Work, Conserved
    <3>3. /\ Queued(c)' = Queued(c) \cup {next[c]}
          /\ \A k, l \in DOMAIN jobs'[c] : k # l => jobs'[c][k] # jobs'[c][l]
      BY <1>1, <2>6, <3>1, <3>2, SendAdds DEF Queued, Work, Conserved
    <3>4. next[c] \notin rows
      BY <1>1, <2>1, <2>6, <3>2 DEF Work, Snapshot
    <3>5. Conserved(c)'
      BY <1>1, <2>1, <2>3, <2>4, <2>6, <3>2, <3>3 DEF Work, Conserved
    <3>. QED
      BY <1>1, <2>1, <2>2, <2>4, <3>3, <3>4, <3>5 DEF Work, Unstored
  <2>. QED
    BY <1>7, <2>5, <2>6 DEF Feed, PoolTyped
<1>8. CASE CloseJobs(c)
  <2>1. Progress(c)' /\ Snapshot(c)'
    BY <1>1, <1>2, <1>8 DEF CloseJobs, Work, Progress, Snapshot
  <2>. QED
    BY <1>1, <1>8, <2>1, NothingMoved DEF CloseJobs
<1>9. CASE WaitWorkers(c)
  <2>1. Progress(c)' /\ Snapshot(c)'
    BY <1>1, <1>9 DEF WaitWorkers, Work, Progress, Snapshot
  <2>. QED
    BY <1>1, <1>9, <2>1, NothingMoved DEF WaitWorkers
<1>10. CASE Publish(c)
  <2>1. Progress(c)' /\ Snapshot(c)'
    BY <1>1, <1>10 DEF Publish, Work, Progress, Snapshot
  <2>. QED
    BY <1>1, <1>10, <2>1, NothingMoved DEF Publish
<1>11. CASE Deferred(c)
  <2>1. CASE pc[c] = "clear"
    <3>1. Progress(c)' /\ Snapshot(c)'
      BY <1>1, <1>11, <2>1 DEF Deferred, Work, Progress, Snapshot
    <3>. QED
      BY <1>1, <1>11, <2>1, <3>1, NothingMoved DEF Deferred
  <2>2. CASE pc[c] = "unlock"
    <3>1. /\ pc'[c] = "idle" /\ lastId'[c] = 0 /\ next'[c] = 1
          /\ stored'[c] = {} /\ failed'[c] = {} /\ UNCHANGED <<pool, world>>
      BY <1>2, <1>11, <2>2 DEF Deferred, TableTyped
    <3>2. Queued(c)' = {} /\ InWork(c)' = {} /\ jobs'[c] = <<>>
          /\ \A w \in Workers : job'[<<c, w>>] = 0
      BY <2>2, <3>1, NoPool, SameChannel
    <3>3. Progress(c)' /\ Snapshot(c)'
      BY <1>2, <3>1 DEF Progress, Snapshot
    <3>4. Conserved(c)'
      BY <3>1, <3>2, <1>1 DEF Work, Conserved
    <3>. QED
      BY <3>2, <3>3, <3>4 DEF Work, Unstored
  <2>. QED
    BY <1>11, <2>1, <2>2 DEF Deferred
<1>. QED
  BY <1>3, <1>4, <1>5, <1>6, <1>7, <1>8, <1>9, <1>10, <1>11 DEF CallStep

(***************************************************************************)
(* Steps of a worker                                                       *)
(***************************************************************************)
(* the job a worker has is in work, nobody else has it, and it is neither    *)
(* queued nor in the table                                                   *)
LEMMA JobIsOwn ==
  ASSUME TypeOK, NEW c \in Callers, Work(c), NEW w \in Workers, stage[<<c, w>>] \in Busy
  PROVE  /\ job[<<c, w>>] \in ComicIDs
         /\ job[<<c, w>>] \in InWork(c)
         /\ \A v \in Workers : v # w => job[<<c, v>>] # job[<<c, w>>]
         /\ job[<<c, w>>] \notin Queued(c) \cup stored[c] \cup failed[c] \cup rows
<1>1. job[<<c, w>>] \in ComicIDs
  BY DEF TypeOK, PoolTyped, Slots, ComicIDs
<1>2. job[<<c, w>>] \in InWork(c)
  BY DEF InWork
<1>3. \A v \in Workers : v # w => job[<<c, v>>] # job[<<c, w>>]
  BY <1>1 DEF Work, Conserved, ComicIDs
<1>. QED
  BY <1>1, <1>2, <1>3 DEF Work, Conserved, Unstored

(* A worker lets go of its job, which becomes a row or an error. *)
LEMMA JobEnds ==
  ASSUME IWork, NEW c \in Callers, NEW w \in Workers, stage[<<c, w>>] \in Busy, TypeOK',
         pc[c] \in {"feed", "wait"},
         job' = [job EXCEPT ![<<c, w>>] = 0],
         UNCHANGED <<pc, jobs, locals, newest>>,
         \/ /\ stored'[c] = stored[c] \cup {job[<<c, w>>]}
            /\ failed'[c] = failed[c]
            /\ rows' = rows \cup {job[<<c, w>>]}
         \/ /\ stored'[c] = stored[c]
            /\ failed'[c] = failed[c] \cup {job[<<c, w>>]}
            /\ rows' = rows
  PROVE  Work(c)'
<1>. DEFINE j == job[<<c, w>>]
<1>1. Work(c)
  BY DEF IWork, WorkInv
<1>2. /\ j \in InWork(c)
      /\ \A v \in Workers : v # w => job[<<c, v>>] # j
      /\ j \notin Queued(c) \cup stored[c] \cup failed[c] \cup rows
      /\ j # 0
  BY <1>1, JobIsOwn DEF IWork, ComicIDs
<1>3. \A v \in Workers : job'[<<c, v>>] = IF v = w THEN 0 ELSE job[<<c, v>>]
  BY DEF IWork, TypeOK, PoolTyped, Slots
<1>4. InWork(c)' = InWork(c) \ {j}
  <2>1. InWork(c) = {job[<<c, v>>] : v \in Workers} \ {0}
    BY InWorkIs DEF IWork
  <2>2. InWork(c)' = {job'[<<c, v>>] : v \in Workers} \ {0}
    BY InWorkIsNext
  <2>3. \A v \in Workers : job'[<<c, v>>] # 0 => job'[<<c, v>>] = job[<<c, v>>] /\ job[<<c, v>>] # j
    BY <1>2, <1>3
  <2>4. \A v \in Workers : job[<<c, v>>] # j => job'[<<c, v>>] = job[<<c, v>>]
    BY <1>3
  <2>. QED
    BY <2>1, <2>2, <2>3, <2>4
<1>5. Queued(c)' = Queued(c)
  BY DEF Queued
<1>6. Conserved(c)'
  <2>1. \A v, u \in Workers : v # u /\ job'[<<c, v>>] # 0 => job'[<<c, v>>] # job'[<<c, u>>]
    BY <1>1, <1>3 DEF Work, Conserved
  <2>2. Queued(c) \cup (InWork(c) \ {j}) \cup stored'[c] \cup failed'[c]
          = Queued(c) \cup InWork(c) \cup stored[c] \cup failed[c]
    BY <1>2
  <2>3. /\ Queued(c) \cap ((InWork(c) \ {j}) \cup stored'[c] \cup failed'[c]) = {}
        /\ (InWork(c) \ {j}) \cap (stored'[c] \cup failed'[c]) = {}
        /\ stored'[c] \cap failed'[c] = {}
    BY <1>1, <1>2 DEF Work, Conserved
  <2>. QED
    BY <1>1, <1>4, <1>5, <2>1, <2>2, <2>3 DEF Work, Conserved, locals
<1>7. Progress(c)' /\ Snapshot(c)'
  BY <1>1 DEF Work, Progress, Snapshot, locals
<1>8. Unstored(c)'
  BY <1>1, <1>2, <1>4, <1>5 DEF Work, Unstored
<1>. QED
  BY <1>6, <1>7, <1>8 DEF Work

LEMMA WorkerStepWork ==
  ASSUME IWork, NEW c \in Callers, NEW w \in Workers, WorkerStep(c, w)
  PROVE  Work(c)'
<1>. USE DEF IWork, mutex, locals, world, journal, Working
<1>1. Work(c)
  BY DEF WorkInv
<1>2. pc[c] \in {"feed", "wait"} /\ pc' = pc /\ TypeOK' /\ <<c, w>> \in Slots
  BY WorkerStepKeeps, WorkerStepTyped DEF FlightInv, SingleFlight, Slots
<1>3. Progress(c)
  BY <1>1 DEF Work
<1>4. CASE TakeJob(c, w)
  <2>1. /\ jobs[c] \in Seq(ComicIDs) /\ jobs[c] # <<>> /\ jobs'[c] = Tail(jobs[c])
        /\ job' = [job EXCEPT ![<<c, w>>] = Head(jobs[c])]
        /\ stage[<<c, w>>] = "receive"
        /\ UNCHANGED <<pc, locals, world, journal>>
    BY <1>4 DEF TakeJob, TypeOK, PoolTyped
  <2>2. /\ Head(jobs[c]) \in Queued(c)
        /\ Queued(c)' = Queued(c) \ {Head(jobs[c])}
        /\ \A k, l \in DOMAIN jobs'[c] : k # l => jobs'[c][k] # jobs'[c][l]
    <3>1. \A k, l \in DOMAIN jobs[c] : k # l => jobs[c][k] # jobs[c][l]
      BY <1>1 DEF Work, Conserved
    <3>2. /\ Head(jobs[c]) \in {jobs[c][k] : k \in DOMAIN jobs[c]}
          /\ {Tail(jobs[c])[k] : k \in DOMAIN Tail(jobs[c])}
                = {jobs[c][k] : k \in DOMAIN jobs[c]} \ {Head(jobs[c])}
          /\ \A k, l \in DOMAIN Tail(jobs[c]) : k # l => Tail(jobs[c])[k] # Tail(jobs[c])[l]
      BY <2>1, <3>1, ReceiveTakes, Zenon
    <3>. QED
      BY <2>1, <3>2, Zenon DEF Queued
  <2>3. /\ job[<<c, w>>] = 0
        /\ \A v \in Workers :
              job'[<<c, v>>] = IF v = w THEN Head(jobs[c]) ELSE job[<<c, v>>]
    BY <1>2, <2>1 DEF TypeOK, PoolTyped, Slots, Busy
  <2>4. Head(jobs[c]) # 0 /\ Head(jobs[c]) \notin InWork(c) \cup stored[c] \cup failed[c] \cup rows
    <3>1. Head(jobs[c]) \in ComicIDs
      BY <2>1
    <3>. QED
      BY <1>1, <2>2, <3>1 DEF Work, Conserved, Unstored, ComicIDs
  <2>5. /\ InWork(c) = {job[<<c, v>>] : v \in Workers} \ {0}
        /\ InWork(c)' = {job'[<<c, v>>] : v \in Workers} \ {0}
    BY <1>2, InWorkIs, InWorkIsNext
  <2>6. InWork(c)' = InWork(c) \cup {Head(jobs[c])}
    BY <2>3, <2>4, <2>5
  <2>7. \A v, u \in Workers : v # u /\ job'[<<c, v>>] # 0 => job'[<<c, v>>] # job'[<<c, u>>]
    BY <1>1, <2>3, <2>4, <2>5 DEF Work, Conserved
  <2>8. Conserved(c)'
    BY <1>1, <2>1, <2>2, <2>4, <2>6, <2>7 DEF Work, Conserved
  <2>9. Progress(c)' /\ Snapshot(c)' /\ Unstored(c)'
    BY <1>1, <2>1, <2>2, <2>4, <2>6 DEF Work, Progress, Snapshot, Unstored
  <2>. QED
    BY <2>8, <2>9 DEF Work
<1>5. ASSUME UNCHANGED <<jobs, job, locals, world, journal>>
      PROVE  Work(c)'
  <2>1. Queued(c)' = Queued(c)
    BY <1>5 DEF Queued
  <2>2. InWork(c)' = InWork(c)
    <3>1. /\ InWork(c) = {job[<<c, v>>] : v \in Workers} \ {0}
          /\ InWork(c)' = {job'[<<c, v>>] : v \in Workers} \ {0}
      BY <1>2, InWorkIs, InWorkIsNext
    <3>. QED
      BY <1>5, <3>1
  <2>3. Conserved(c)'
    BY <1>1, <1>2, <1>5, <2>1, <2>2 DEF Work, Conserved
  <2>. QED
    BY <1>1, <1>2, <1>5, <2>1, <2>2, <2>3 DEF Work, Progress, Snapshot, Unstored
<1>6. CASE LeavePool(c, w)
  BY <1>5, <1>6 DEF LeavePool
<1>7. ASSUME NEW from \in Busy, GiveUp(c, w, from), UNCHANGED <<jobs, locals, world>>
      PROVE  Work(c)'
  <2>1. stage[<<c, w>>] \in Busy /\ job' = [job EXCEPT ![<<c, w>>] = 0]
    BY <1>7 DEF GiveUp
  <2>2. stored'[c] = stored[c] /\ failed'[c] = failed[c] \cup {job[<<c, w>>]}
    BY <1>7 DEF GiveUp, TypeOK, TableTyped
  <2>. QED
    BY <1>2, <1>7, <2>1, <2>2, JobEnds
<1>8. CASE GetComic(c, w) \/ NormComic(c, w)
  <2>1. "get" \in Busy /\ "norm" \in Busy
    BY DEF Busy
  <2>. QED
    BY <1>5, <1>7, <1>8, <2>1 DEF GetComic, NormComic
<1>9. CASE AddComic(c, w)
  <2>1. CASE GiveUp(c, w, "add") /\ UNCHANGED rows
    BY <1>7, <1>9, <2>1 DEF AddComic, Busy
  <2>2. CASE /\ Working(c, w, "add", "receive")
             /\ Upsert(job[<<c, w>>])
             /\ stored' = [stored EXCEPT ![c] = @ \cup {job[<<c, w>>]}]
             /\ job' = [job EXCEPT ![<<c, w>>] = 0]
             /\ UNCHANGED failed
    <3>1. stage[<<c, w>>] \in Busy
      BY <2>2 DEF Busy
    <3>2. /\ stored'[c] = stored[c] \cup {job[<<c, w>>]} /\ failed'[c] = failed[c]
          /\ rows' = rows \cup {job[<<c, w>>]}
      BY <2>2 DEF Upsert, TypeOK, TableTyped
    <3>3. UNCHANGED <<pc, jobs, locals, newest>>
      BY <1>9 DEF AddComic
    <3>. QED
      BY <1>2, <2>2, <3>1, <3>2, <3>3, JobEnds
  <2>. QED
    BY <1>9, <2>1, <2>2 DEF AddComic
<1>. QED
  BY <1>4, <1>6, <1>8, <1>9 DEF WorkerStep

(***************************************************************************)
(* The invariant holds, and what follows                                   *)
(***************************************************************************)
(* a step of one call, or of one of its workers, leaves the others alone *)
LEMMA OthersWork ==
  ASSUME IWork, NEW c \in Callers, NEW d \in Callers, d # c,
         (CallStep(c) /\ ~MakeChanPanics(c)) \/ (\E w \in Workers : WorkerStep(c, w))
  PROVE  Work(d)'
<1>. USE DEF IWork, mutex, locals, pool, world, journal, events, Goto, ReturnFrom, Working
<1>1. pc[c] # "idle"
  BY WorkerStepKeeps
     DEF CallStep, StoreRunning, LastID, ListIDs, SpawnWorkers, Feed, CloseJobs, WaitWorkers,
         Publish, Deferred, FlightInv, SingleFlight
<1>2. pc[d] = "idle" /\ Work(d)
  BY <1>1, OthersIdle DEF FlightInv, WorkInv
<1>3. /\ pc'[d] = pc[d] /\ next'[d] = next[d] /\ stored'[d] = stored[d] /\ failed'[d] = failed[d]
      /\ lastId'[d] = lastId[d] /\ newest' = newest /\ jobs'[d] = jobs[d]
      /\ \A w \in Workers : job'[<<d, w>>] = job[<<d, w>>] /\ stage'[<<d, w>>] = stage[<<d, w>>]
  <2>. USE DEF TypeOK, CallsTyped, LocalsTyped, PoolTyped, TableTyped, Slots
  <2>1. CASE SpawnWorkers(c)
    BY <2>1 DEF SpawnWorkers
  <2>2. CASE Feed(c)
    BY <2>2 DEF Feed
  <2>3. CASE StoreRunning(c) \/ LastID(c) \/ ListIDs(c) \/ CloseJobs(c) \/ WaitWorkers(c)
    BY <2>3 DEF StoreRunning, LastID, ListIDs, CloseJobs, WaitWorkers
  <2>4. CASE Publish(c) \/ Deferred(c)
    BY <2>4 DEF Publish, Deferred
  <2>5. ASSUME NEW w \in Workers, TakeJob(c, w) \/ LeavePool(c, w)
        PROVE  <1>3!:
    BY <2>5 DEF TakeJob, LeavePool
  <2>6. ASSUME NEW w \in Workers, GetComic(c, w) \/ NormComic(c, w) \/ AddComic(c, w)
        PROVE  <1>3!:
    BY <2>6 DEF GetComic, NormComic, AddComic, GiveUp
  <2>. QED
    BY <2>1, <2>2, <2>3, <2>4, <2>5, <2>6 DEF CallStep, WorkerStep
<1>. QED
  BY <1>2, <1>3, OtherCall

LEMMA NextWork == IWork /\ [Next]_vars => WorkInv'
<1>. SUFFICES ASSUME IWork, [Next]_vars PROVE WorkInv'
  OBVIOUS
<1>1. ASSUME NEW c \in Callers, CallStep(c) PROVE WorkInv'
  <2>1. CASE MakeChanPanics(c)
    BY <2>1, RestartWork DEF MakeChanPanics, IWork
  <2>2. CASE ~MakeChanPanics(c)
    BY <1>1, <2>2, CallStepWork, OthersWork DEF WorkInv
  <2>. QED
    BY <2>1, <2>2
<1>2. ASSUME NEW c \in Callers, NEW w \in Workers, WorkerStep(c, w) PROVE WorkInv'
  BY <1>2, WorkerStepWork, OthersWork DEF WorkInv
<1>3. ASSUME UNCHANGED <<locals, pool, journal>>, rows' \subseteq rows,
             newest' \in {newest, newest + 1},
             \A d \in Callers : pc'[d] = pc[d] \/ (pc[d] = "idle" /\ pc'[d] = "locked")
      PROVE  WorkInv'
  <2>. SUFFICES ASSUME NEW d \in Callers PROVE Work(d)'
    BY DEF WorkInv
  <2>1. Work(d) /\ lastId[d] \in Int /\ newest \in Int
    BY DEF IWork, WorkInv, TypeOK, LocalsTyped, TableTyped
  <2>2. Queued(d)' = Queued(d) /\ InWork(d)' = InWork(d)
    BY <1>3 DEF Queued, InWork, pool
  <2>3. Conserved(d)'
    BY <1>3, <2>1, <2>2 DEF Work, Conserved, locals, pool, journal
  <2>4. Progress(d)'
    BY <1>3, <2>1 DEF Work, Progress, locals, journal
  <2>. QED
    BY <1>3, <2>1, <2>2, <2>3, <2>4 DEF Work, Snapshot, Unstored, locals, journal
<1>4. ASSUME NEW c \in Callers, TryLock(c) \/ CancelContext(c) PROVE WorkInv'
  <2>1. UNCHANGED <<locals, pool, journal>> /\ rows' \subseteq rows /\ newest' = newest
    BY <1>4 DEF TryLock, CancelContext, world
  <2>2. \A d \in Callers : pc'[d] = pc[d] \/ (pc[d] = "idle" /\ pc'[d] = "locked")
    <3>1. CASE TryLock(c)
      BY <3>1 DEF TryLock, IWork, TypeOK, CallsTyped
    <3>2. CASE CancelContext(c)
      BY <3>2 DEF CancelContext
    <3>. QED
      BY <1>4, <3>1, <3>2
  <2>. QED
    BY <1>3, <2>1, <2>2
<1>5. CASE Drop \/ NewComic
  <2>1. UNCHANGED <<locals, pool, journal, pc>> /\ rows' \subseteq rows
    BY <1>5 DEF Drop, NewComic
  <2>2. newest' \in {newest, newest + 1}
    BY <1>5 DEF Drop, NewComic
  <2>. QED
    BY <1>3, <2>1, <2>2
<1>6. CASE Crash
  BY <1>6, RestartWork DEF Crash, IWork
<1>7. CASE UNCHANGED vars
  BY <1>3, <1>7 DEF vars, world
<1>. QED
  BY <1>1, <1>2, <1>4, <1>5, <1>6, <1>7 DEF Next

LEMMA WorkInvariant == Spec => []IWork
<1>1. Init => IWork
  BY InitTyped, InitFlight, InitEvents, InitWork DEF IWork
<1>2. IWork /\ [Next]_vars => IWork'
  BY NextTyped, NextFlight, NextEvents, NextWork DEF IWork
<1>. QED
  BY <1>1, <1>2, PTL DEF Spec

(* Whatever fails and however many workers there are: no number handed out   *)
(* is lost, none has two places, and after the wait each is a row or a       *)
(* logged failure.                                                           *)
THEOREM NoWorkIsLost == Spec => []WorkConserved
<1>1. IWork => WorkConserved
  <2>. SUFFICES ASSUME IWork, NEW c \in Callers
                PROVE  /\ Conserved(c)
                       /\ pc[c] = "publish" =>
                             (1 .. lastId[c]) \ existingIDs[c] = stored[c] \cup failed[c]
    BY DEF WorkConserved, Conserved
  <2>1. Conserved(c) /\ Progress(c)
    BY DEF IWork, WorkInv, Work
  <2>2. ASSUME pc[c] = "publish"
        PROVE  (1 .. lastId[c]) \ existingIDs[c] = stored[c] \cup failed[c]
    <3>1. next[c] = lastId[c] + 1 /\ lastId[c] \in Int
      BY <2>1, <2>2 DEF Progress, IWork, TypeOK, LocalsTyped
    <3>2. next[c] - 1 = lastId[c]
      BY <3>1
    <3>3. Queued(c) = {} /\ InWork(c) = {}
      BY <2>2, NoPool DEF IWork
    <3>. QED
      BY <2>1, <2>2, <3>2, <3>3 DEF Conserved
  <2>. QED
    BY <2>1, <2>2
<1>. QED
  BY <1>1, WorkInvariant, PTL

(* What a call has queued or in work is not in the table, even when Drop     *)
(* empties it meanwhile: no comic is stored twice.                           *)
THEOREM NothingIsRefetched == Spec => []NoRefetch
<1>1. IWork => NoRefetch
  BY DEF IWork, WorkInv, Work, Unstored, NoRefetch
<1>. QED
  BY <1>1, WorkInvariant, PTL

(* a worker that stores a comic stores a new one, which upstream has *)
LEMMA NewRow ==
  ASSUME IWork, NEW c \in Callers, NEW w \in Workers, stage[<<c, w>>] \in Busy
  PROVE  /\ job[<<c, w>>] \in 1 .. newest
         /\ job[<<c, w>>] \notin rows
         /\ updateProcessing /\ mu = c /\ pc[c] \in {"feed", "wait"}
<1>1. Work(c)
  BY DEF IWork, WorkInv
<1>2. job[<<c, w>>] \in InWork(c) /\ job[<<c, w>>] \notin rows
  BY <1>1, JobIsOwn DEF IWork
<1>3. pc[c] \in {"feed", "wait"} /\ mu = c
  BY DEF IWork, FlightInv, SingleFlight, Busy
<1>4. updateProcessing
  BY <1>3 DEF IWork, FlightInv, StatusTracksWork, Positions
<1>5. job[<<c, w>>] \in 1 .. next[c] - 1
  BY <1>1, <1>2, <1>3 DEF Work, Conserved
<1>6. next[c] - 1 <= newest /\ next[c] \in Int /\ newest \in Int
  BY <1>1, <1>3 DEF Work, Progress, IWork, TypeOK, LocalsTyped, TableTyped
<1>. QED
  BY <1>2, <1>3, <1>4, <1>5, <1>6

(* The table grows by one published comic at a time, while Status answers    *)
(* running, and shrinks only to nothing.  UpdateContract says the same of    *)
(* the table, but for the word published.                                    *)
THEOREM RowsAreLegal ==
  Spec => [][rows' # rows =>
                \/ rows' = {}
                \/ /\ updateProcessing
                   /\ \E id \in 1 .. newest : id \notin rows /\ rows' = rows \cup {id}]_vars
<1>1. IWork /\ [Next]_vars =>
        [rows' # rows =>
            \/ rows' = {}
            \/ /\ updateProcessing
               /\ \E id \in 1 .. newest : id \notin rows /\ rows' = rows \cup {id}]_vars
  <2>. SUFFICES ASSUME IWork, Next, rows' # rows
                PROVE  \/ rows' = {}
                       \/ /\ updateProcessing
                          /\ \E id \in 1 .. newest : id \notin rows /\ rows' = rows \cup {id}
    BY DEF vars, world
  <2>1. ASSUME NEW c \in Callers, TryLock(c) \/ CallStep(c) \/ CancelContext(c)
        PROVE  FALSE
    BY <2>1 DEF TryLock, CancelContext, CallStep, StoreRunning, LastID, ListIDs, SpawnWorkers,
                MakeChanPanics, ProcessRestarts, Feed, CloseJobs, WaitWorkers, Publish, Deferred,
                world
  <2>2. ASSUME NEW c \in Callers, NEW w \in Workers, WorkerStep(c, w)
        PROVE  \E id \in 1 .. newest : updateProcessing /\ id \notin rows /\ rows' = rows \cup {id}
    <3>1. stage[<<c, w>>] \in Busy /\ rows' = rows \cup {job[<<c, w>>]}
      BY <2>2 DEF WorkerStep, TakeJob, LeavePool, GetComic, NormComic, AddComic, Upsert, Working,
                  Busy, world
    <3>. QED
      BY <3>1, NewRow
  <2>3. CASE Drop
    BY <2>3 DEF Drop
  <2>4. CASE NewComic \/ Crash
    BY <2>4 DEF NewComic, Crash, ProcessRestarts, world
  <2>. QED
    BY <2>1, <2>2, <2>3, <2>4 DEF Next
<1>. QED
  BY <1>1, WorkInvariant, PTL DEF Spec

(***************************************************************************)
(* The service implements its contract                                     *)
(***************************************************************************)
(* an event counts as lost only while the rows it spoke of are unannounced *)
LostInv == lostEvent => unannounced # {}

LEMMA NextLost == TypeOK /\ LostInv /\ [Next]_vars => LostInv'
<1>. SUFFICES ASSUME TypeOK, LostInv, [Next]_vars PROVE LostInv'
  OBVIOUS
<1>. USE DEF LostInv, events
<1>1. ASSUME NEW c \in Callers, TryLock(c) \/ CallStep(c) \/ CancelContext(c) PROVE LostInv'
  BY <1>1 DEF TryLock, CancelContext, CallStep, StoreRunning, LastID, ListIDs, SpawnWorkers,
              MakeChanPanics, ProcessRestarts, Feed, CloseJobs, WaitWorkers, Publish,
              SendDBChangedEvent, Deferred
<1>2. ASSUME NEW c \in Callers, NEW w \in Workers, WorkerStep(c, w) PROVE LostInv'
  BY <1>2 DEF WorkerStep, TakeJob, LeavePool, GetComic, NormComic, AddComic, Upsert
<1>3. CASE Drop \/ NewComic \/ Crash
  BY <1>3 DEF Drop, NewComic, Crash, ProcessRestarts
<1>4. CASE UNCHANGED vars
  BY <1>4 DEF vars
<1>. QED
  BY <1>1, <1>2, <1>3, <1>4 DEF Next

(* the phase of the contract, by the position of the call that has the mutex *)
LEMMA PhaseIs ==
  ASSUME NEW c \in Callers
  PROVE  /\ mu = NoCaller => Phase = "free"
         /\ mu = c /\ pc[c] = "locked" => Phase = "starting"
         /\ mu = c /\ pc[c] = "clear" => Phase = "settled"
         /\ mu = c /\ pc[c] = "unlock" => Phase = "leaving"
         /\ mu = c /\ pc[c] \notin {"locked", "clear", "unlock"} => Phase = "filling"
BY NoCallerAssumption DEF Phase

LEMMA PhaseIsNext ==
  ASSUME NEW c \in Callers
  PROVE  /\ mu' = NoCaller => Phase' = "free"
         /\ mu' = c /\ pc'[c] = "locked" => Phase' = "starting"
         /\ mu' = c /\ pc'[c] = "clear" => Phase' = "settled"
         /\ mu' = c /\ pc'[c] = "unlock" => Phase' = "leaving"
         /\ mu' = c /\ pc'[c] \notin {"locked", "clear", "unlock"} => Phase' = "filling"
BY NoCallerAssumption DEF Phase

LEMMA InitContract == Init => Contract!Init
<1>. SUFFICES ASSUME Init PROVE Contract!Init
  OBVIOUS
<1>1. Phase = "free"
  BY DEF Init, Phase
<1>. QED
  BY <1>1 DEF Init, Contract!Init

(* when a call is where nothing of its own is due, what is unannounced is lost *)
LEMMA NothingDue ==
  ASSUME IWork, LostInv, NEW c \in Callers, pc[c] # "idle",
         pc[c] \notin {"feed", "wait", "publish"} \/ ~shouldSendEvent[c]
  PROVE  lostEvent <=> unannounced # {}
<1>1. \A d \in Callers : pc[d] \in {"feed", "wait", "publish"} => d = c
  BY OthersIdle DEF IWork, FlightInv
<1>. QED
  BY <1>1 DEF IWork, EventInv, AnnounceInv, LostInv

LEMMA RestartContract ==
  ASSUME TypeOK, LostInv, ProcessRestarts
  PROVE  Contract!Restart
<1>1. Phase' = "free"
  BY DEF ProcessRestarts, Phase
<1>2. lostEvent' = (unannounced # {})
  BY DEF ProcessRestarts, LostInv, TypeOK, TableTyped
<1>. QED
  BY <1>1, <1>2 DEF ProcessRestarts, Contract!Restart, world

LEMMA CallStepContract ==
  ASSUME IWork, LostInv, NEW c \in Callers, CallStep(c)
  PROVE  [Contract!Next]_(Contract!vars)
<1>. USE DEF mutex, world, events, Goto, ReturnFrom
<1>1. pc \in [Callers -> Positions] /\ lostEvent \in BOOLEAN
  BY DEF IWork, TypeOK, CallsTyped, TableTyped
<1>2. pc[c] # "idle" => mu = c
  BY DEF IWork, FlightInv, SingleFlight
<1>3. CASE MakeChanPanics(c)
  BY <1>3, RestartContract DEF MakeChanPanics, IWork, Contract!Next
<1>4. CASE StoreRunning(c)
  <2>1. Phase = "starting" /\ Phase' = "filling"
    BY <1>1, <1>2, <1>4, PhaseIs, PhaseIsNext DEF StoreRunning
  <2>. QED
    BY <1>4, <2>1 DEF StoreRunning, Contract!Next, Contract!Report, Contract!Move
<1>5. ASSUME pc' = [pc EXCEPT ![c] = pc'[c]], UNCHANGED <<mu, updateProcessing, rows, events>>,
             pc[c] \notin {"idle", "locked", "clear", "unlock"},
             pc'[c] \notin {"locked", "clear", "unlock"}
      PROVE  UNCHANGED Contract!vars
  <2>1. Phase = "filling" /\ Phase' = "filling"
    BY <1>1, <1>2, <1>5, PhaseIs, PhaseIsNext
  <2>. QED
    BY <1>5, <2>1 DEF Contract!vars
<1>6. ASSUME Goto(c, pc[c], "clear"), pc[c] \notin {"idle", "locked", "clear", "unlock"},
             UNCHANGED <<mu, updateProcessing, rows>>,
             \/ unannounced' = {} /\ lostEvent' = FALSE
             \/ unannounced' = unannounced /\ lostEvent' = (unannounced # {})
      PROVE  Contract!Settle
  <2>1. Phase = "filling" /\ Phase' = "settled"
    BY <1>1, <1>2, <1>6, PhaseIs, PhaseIsNext
  <2>. QED
    BY <1>6, <2>1 DEF Contract!Settle, Contract!Move
<1>7. CASE LastID(c) \/ ListIDs(c)
  <2>1. CASE pc'[c] = "clear"
    <3>1. lostEvent' = (unannounced # {})
      BY <1>1, <1>7, NothingDue DEF LastID, ListIDs
    <3>2. Contract!Settle
      BY <1>1, <1>6, <1>7, <2>1, <3>1 DEF LastID, ListIDs
    <3>. QED
      BY <3>2 DEF Contract!Next
  <2>2. CASE pc'[c] # "clear"
    BY <1>1, <1>5, <1>7, <2>2 DEF LastID, ListIDs
  <2>. QED
    BY <2>1, <2>2
<1>8. CASE SpawnWorkers(c) \/ Feed(c) \/ CloseJobs(c) \/ WaitWorkers(c)
  BY <1>1, <1>5, <1>8 DEF SpawnWorkers, Feed, CloseJobs, WaitWorkers
<1>9. CASE Publish(c)
  <2>1. \/ unannounced' = {} /\ lostEvent' = FALSE
        \/ unannounced' = unannounced /\ lostEvent' = (unannounced # {})
    <3>1. CASE shouldSendEvent[c]
      BY <1>1, <1>9, <3>1 DEF Publish, SendDBChangedEvent, LostInv
    <3>2. CASE ~shouldSendEvent[c]
      BY <1>1, <1>9, <3>2, NothingDue DEF Publish
    <3>. QED
      BY <3>1, <3>2
  <2>2. Contract!Settle
    BY <1>6, <1>9, <2>1 DEF Publish
  <2>. QED
    BY <2>2 DEF Contract!Next
<1>10. CASE Deferred(c)
  <2>1. CASE pc[c] = "clear"
    <3>1. Phase = "settled" /\ Phase' = "leaving"
      BY <1>1, <1>2, <1>10, <2>1, PhaseIs, PhaseIsNext DEF Deferred
    <3>. QED
      BY <1>10, <2>1, <3>1 DEF Deferred, Contract!Next, Contract!Withdraw, Contract!Move
  <2>2. CASE pc[c] = "unlock"
    <3>1. Phase = "leaving" /\ Phase' = "free"
      BY <1>1, <1>2, <1>10, <2>2, PhaseIs, PhaseIsNext DEF Deferred
    <3>. QED
      BY <1>10, <2>2, <3>1 DEF Deferred, Contract!Next, Contract!End, Contract!Move
  <2>. QED
    BY <1>10, <2>1, <2>2 DEF Deferred
<1>. QED
  BY <1>3, <1>4, <1>5, <1>7, <1>8, <1>9, <1>10 DEF CallStep

LEMMA WorkerStepContract ==
  ASSUME IWork, NEW c \in Callers, NEW w \in Workers, WorkerStep(c, w)
  PROVE  [Contract!Next]_(Contract!vars)
<1>1. pc' = pc /\ mu' = mu /\ updateProcessing' = updateProcessing
  BY WorkerStepKeeps DEF IWork, mutex
<1>2. Phase' = Phase
  BY <1>1 DEF Phase
<1>3. CASE UNCHANGED <<rows, unannounced, lostEvent>>
  BY <1>1, <1>2, <1>3 DEF Contract!vars
<1>4. CASE AddComic(c, w) /\ Upsert(job[<<c, w>>])
  <2>1. stage[<<c, w>>] \in Busy
    BY <1>4 DEF AddComic, GiveUp, Working, Busy
  <2>2. /\ job[<<c, w>>] \in 1 .. MaxID
        /\ job[<<c, w>>] \notin rows
        /\ mu = c /\ pc[c] \in {"feed", "wait"}
    BY <2>1, NewRow, MaxIDAssumption DEF IWork, TypeOK, TableTyped
  <2>3. Phase = "filling"
    BY <2>2, PhaseIs
  <2>4. Contract!Store(job[<<c, w>>])
    BY <1>1, <1>2, <1>4, <2>2, <2>3 DEF AddComic, Upsert, Contract!Store
  <2>. QED
    BY <2>2, <2>4 DEF Contract!Next
<1>. QED
  BY <1>3, <1>4
     DEF WorkerStep, TakeJob, LeavePool, GetComic, NormComic, AddComic, world, events

LEMMA NextContract ==
  ASSUME IWork, LostInv, [Next]_vars
  PROVE  [Contract!Next]_(Contract!vars)
<1>1. ASSUME NEW c \in Callers, TryLock(c) PROVE [Contract!Next]_(Contract!vars)
  <2>1. CASE mu = NoCaller
    <3>1. mu' = c /\ pc'[c] = "locked" /\ UNCHANGED <<updateProcessing, rows, unannounced, lostEvent>>
      BY <1>1, <2>1 DEF TryLock, IWork, TypeOK, CallsTyped, world, events
    <3>2. Phase = "free" /\ Phase' = "starting"
      BY <2>1, <3>1, PhaseIs, PhaseIsNext
    <3>. QED
      BY <3>1, <3>2 DEF Contract!Next, Contract!Begin, Contract!Move
  <2>2. CASE mu # NoCaller
    <3>1. UNCHANGED <<mu, pc, updateProcessing, rows, unannounced, lostEvent>>
      BY <1>1, <2>2 DEF TryLock, world, events
    <3>2. Phase' = Phase
      BY <3>1 DEF Phase
    <3>. QED
      BY <3>1, <3>2 DEF Contract!vars
  <2>. QED
    BY <2>1, <2>2
<1>2. CASE Drop
  <2>1. Phase' = Phase
    BY <1>2 DEF Drop, mutex, Phase
  <2>. QED
    BY <1>2, <2>1 DEF Drop, mutex, events, Contract!Next, Contract!Drop
<1>3. ASSUME UNCHANGED <<mutex, pc, rows, events>> PROVE [Contract!Next]_(Contract!vars)
  <2>1. Phase' = Phase
    BY <1>3 DEF mutex, Phase
  <2>. QED
    BY <1>3, <2>1 DEF mutex, events, Contract!vars
<1>4. ASSUME NEW c \in Callers, CancelContext(c) PROVE [Contract!Next]_(Contract!vars)
  BY <1>3, <1>4 DEF CancelContext, world
<1>5. CASE NewComic
  BY <1>3, <1>5 DEF NewComic
<1>6. CASE Crash
  BY <1>6, RestartContract DEF Crash, IWork, Contract!Next
<1>7. CASE UNCHANGED vars
  BY <1>3, <1>7 DEF vars, world
<1>. QED
  BY <1>1, <1>2, <1>4, <1>5, <1>6, <1>7, CallStepContract, WorkerStepContract DEF Next

(* Every behaviour of the service, its races, failures and restarts          *)
(* included, is one UpdateContract allows.                                   *)
THEOREM ServiceImplementsContract == Spec => ImplementsContract
<1>1. Init => LostInv
  BY DEF Init, LostInv
<1>2. IWork => TypeOK
  BY DEF IWork
<1>. QED
  BY <1>1, <1>2, InitContract, NextContract, NextLost, WorkInvariant, PTL
     DEF Spec, ImplementsContract, Contract!Spec
=============================================================================

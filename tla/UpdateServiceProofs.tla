------------------------ MODULE UpdateServiceProofs ------------------------
(***************************************************************************)
(* Proofs about UpdateService for any number of callers, workers and       *)
(* comics: type correctness, then that the flag, the mutex and the pool    *)
(* agree (StatusTracksWork, SingleFlight), then that events follow rows.   *)
(***************************************************************************)
EXTENDS UpdateService, TLAPS

(***************************************************************************)
(* Type correctness                                                        *)
(***************************************************************************)
LEMMA InitTyped == Init => TypeOK
<1>. USE MaxIDAssumption
<1>. SUFFICES ASSUME Init PROVE TypeOK
  OBVIOUS
<1>1. CallsTyped
  BY DEF Init, CallsTyped, Positions, Results
<1>2. LocalsTyped
  BY DEF Init, LocalsTyped
<1>3. PoolTyped
  BY DEF Init, PoolTyped, Stages, Busy
<1>4. TableTyped
  BY DEF Init, TableTyped
<1>. QED
  BY <1>1, <1>2, <1>3, <1>4 DEF TypeOK

(* a restart leaves typed state, whatever the calls were doing *)
LEMMA RestartTyped == TypeOK /\ ProcessRestarts => TypeOK'
<1>. USE MaxIDAssumption
<1>. SUFFICES ASSUME TypeOK, ProcessRestarts PROVE TypeOK'
  OBVIOUS
<1>1. CallsTyped'
  BY DEF TypeOK, ProcessRestarts, CallsTyped, Positions, Results
<1>2. LocalsTyped'
  BY DEF ProcessRestarts, LocalsTyped
<1>3. PoolTyped'
  BY DEF ProcessRestarts, PoolTyped, Stages, Busy
<1>4. TableTyped'
  BY DEF TypeOK, ProcessRestarts, TableTyped, world
<1>. QED
  BY <1>1, <1>2, <1>3, <1>4 DEF TypeOK

LEMMA CallStepTyped ==
  ASSUME TypeOK, NEW c \in Callers, CallStep(c)
  PROVE  TypeOK'
<1>. USE MaxIDAssumption DEF TypeOK, mutex, locals, pool, world, journal, events,
                             Goto, ReturnFrom, Positions, Results
<1>1. CASE StoreRunning(c)
  BY <1>1 DEF StoreRunning, CallsTyped, LocalsTyped, PoolTyped, TableTyped
<1>2. CASE LastID(c)
  <2>1. CallsTyped'
    BY <1>2 DEF LastID, CallsTyped
  <2>2. LocalsTyped'
    BY <1>2 DEF LastID, LastIDAnswers, LocalsTyped, TableTyped
  <2>. QED
    BY <1>2, <2>1, <2>2 DEF LastID, PoolTyped, TableTyped
<1>3. CASE ListIDs(c)
  <2>1. CallsTyped'
    BY <1>3 DEF ListIDs, CallsTyped
  <2>2. LocalsTyped'
    BY <1>3 DEF ListIDs, Listed, LocalsTyped, TableTyped
  <2>. QED
    BY <1>3, <2>1, <2>2 DEF ListIDs, PoolTyped, TableTyped
<1>4. CASE SpawnWorkers(c)
  <2>1. PoolTyped'
    BY <1>4 DEF SpawnWorkers, PoolTyped, Slots, Stages, Busy
  <2>. QED
    BY <1>4, <2>1 DEF SpawnWorkers, CallsTyped, LocalsTyped, TableTyped
<1>5. CASE MakeChanPanics(c)
  BY <1>5, RestartTyped DEF MakeChanPanics
<1>6. CASE Feed(c)
  <2>1. next[c] \in 1 .. MaxID /\ next[c] + 1 \in 1 .. MaxID + 1
    BY <1>6 DEF Feed, LocalsTyped
  <2>2. LocalsTyped'
    BY <1>6, <2>1 DEF Feed, LocalsTyped
  <2>3. PoolTyped'
    <3>1. Append(jobs[c], next[c]) \in Seq(ComicIDs)
      BY <2>1 DEF PoolTyped, ComicIDs
    <3>. QED
      BY <1>6, <3>1 DEF Feed, PoolTyped
  <2>. QED
    BY <1>6, <2>2, <2>3 DEF Feed, CallsTyped, TableTyped
<1>7. CASE CloseJobs(c)
  BY <1>7 DEF CloseJobs, CallsTyped, LocalsTyped, PoolTyped, TableTyped
<1>8. CASE WaitWorkers(c)
  BY <1>8 DEF WaitWorkers, CallsTyped, LocalsTyped, PoolTyped, TableTyped
<1>9. CASE Publish(c)
  <2>1. CallsTyped'
    BY <1>9 DEF Publish, CallsTyped
  <2>2. TableTyped'
    BY <1>9 DEF Publish, SendDBChangedEvent, TableTyped
  <2>. QED
    BY <1>9, <2>1, <2>2 DEF Publish, LocalsTyped, PoolTyped
<1>10. CASE Deferred(c)
  <2>1. CallsTyped'
    BY <1>10 DEF Deferred, CallsTyped
  <2>2. LocalsTyped'
    <3>1. 0 \in -1 .. MaxID /\ 1 \in 1 .. MaxID + 1
      OBVIOUS
    <3>. QED
      BY <1>10, <3>1 DEF Deferred, LocalsTyped
  <2>3. TableTyped'
    BY <1>10 DEF Deferred, TableTyped
  <2>. QED
    BY <1>10, <2>1, <2>2, <2>3 DEF Deferred, PoolTyped
<1>. QED
  BY <1>1, <1>2, <1>3, <1>4, <1>5, <1>6, <1>7, <1>8, <1>9, <1>10 DEF CallStep

LEMMA WorkerStepTyped ==
  ASSUME TypeOK, NEW c \in Callers, NEW w \in Workers, WorkerStep(c, w)
  PROVE  TypeOK'
<1>. USE MaxIDAssumption DEF TypeOK, mutex, locals, pool, world, journal, events, Working
<1>1. <<c, w>> \in Slots
  BY DEF Slots
<1>2. CASE TakeJob(c, w)
  <2>1. Head(jobs[c]) \in ComicIDs /\ Tail(jobs[c]) \in Seq(ComicIDs)
    <3>1. jobs[c] \in Seq(ComicIDs) /\ jobs[c] # <<>>
      BY <1>2 DEF TakeJob, PoolTyped
    <3>. QED
      BY <3>1
  <2>2. jobs' \in [Callers -> Seq(ComicIDs)]
    BY <1>2, <2>1 DEF TakeJob, PoolTyped
  <2>3. /\ stage' \in [Slots -> Stages]
        /\ job' \in [Slots -> 0 .. MaxID]
        /\ \A s \in Slots : job'[s] # 0 <=> stage'[s] \in Busy
    BY <1>1, <1>2, <2>1 DEF TakeJob, PoolTyped, Stages, Busy, ComicIDs
  <2>. QED
    BY <1>2, <2>2, <2>3 DEF TakeJob, CallsTyped, LocalsTyped, PoolTyped, TableTyped
<1>3. CASE LeavePool(c, w)
  <2>1. PoolTyped'
    BY <1>1, <1>3 DEF LeavePool, PoolTyped, Stages, Busy
  <2>. QED
    BY <1>3, <2>1 DEF LeavePool, CallsTyped, LocalsTyped, TableTyped
<1>4. ASSUME NEW from \in Busy, GiveUp(c, w, from)
      PROVE  /\ stage' \in [Slots -> Stages]
             /\ job' \in [Slots -> 0 .. MaxID]
             /\ \A s \in Slots : job'[s] # 0 <=> stage'[s] \in Busy
             /\ failed' \in [Callers -> SUBSET ComicIDs]
  <2>1. job[<<c, w>>] \in ComicIDs
    BY <1>1, <1>4 DEF GiveUp, PoolTyped, ComicIDs
  <2>2. failed' \in [Callers -> SUBSET ComicIDs]
    BY <1>4, <2>1 DEF GiveUp, TableTyped
  <2>3. stage' = [stage EXCEPT ![<<c, w>>] = "receive"] /\ job' = [job EXCEPT ![<<c, w>>] = 0]
    BY <1>4 DEF GiveUp
  <2>4. stage' \in [Slots -> Stages] /\ job' \in [Slots -> 0 .. MaxID]
    BY <1>1, <2>3 DEF PoolTyped, Stages
  <2>5. \A s \in Slots : job'[s] # 0 <=> stage'[s] \in Busy
    BY <1>1, <2>3 DEF PoolTyped, Busy
  <2>. QED
    BY <2>2, <2>4, <2>5
<1>5. CASE GetComic(c, w) \/ NormComic(c, w)
  <2>1. CASE \E from \in Busy : GiveUp(c, w, from)
    <3>1. PoolTyped' /\ TableTyped'
      BY <1>4, <1>5, <2>1 DEF GetComic, NormComic, GiveUp, PoolTyped, TableTyped
    <3>. QED
      BY <1>5, <3>1 DEF GetComic, NormComic, CallsTyped, LocalsTyped
  <2>2. CASE /\ Working(c, w, "get", "norm") \/ Working(c, w, "norm", "add")
             /\ UNCHANGED <<job, journal>>
    <3>1. PoolTyped'
      BY <1>1, <1>5, <2>2 DEF GetComic, NormComic, PoolTyped, Stages, Busy
    <3>. QED
      BY <1>5, <2>2, <3>1 DEF GetComic, NormComic, CallsTyped, LocalsTyped, TableTyped
  <2>. QED
    BY <1>5, <2>1, <2>2 DEF GetComic, NormComic, Busy
<1>6. CASE AddComic(c, w)
  <2>1. CASE GiveUp(c, w, "add") /\ UNCHANGED <<rows, unannounced>>
    <3>1. PoolTyped' /\ TableTyped'
      BY <1>4, <1>6, <2>1 DEF AddComic, GiveUp, PoolTyped, TableTyped, Busy
    <3>. QED
      BY <1>6, <3>1 DEF AddComic, CallsTyped, LocalsTyped
  <2>2. CASE /\ Working(c, w, "add", "receive")
             /\ Upsert(job[<<c, w>>])
             /\ stored' = [stored EXCEPT ![c] = @ \cup {job[<<c, w>>]}]
             /\ job' = [job EXCEPT ![<<c, w>>] = 0]
             /\ UNCHANGED failed
    <3>1. job[<<c, w>>] \in ComicIDs
      BY <1>1, <1>6, <2>2 DEF AddComic, PoolTyped, ComicIDs, Busy
    <3>2. PoolTyped'
      <4>1. stage' \in [Slots -> Stages] /\ job' \in [Slots -> 0 .. MaxID]
        BY <1>1, <2>2 DEF PoolTyped, Stages
      <4>2. \A s \in Slots : job'[s] # 0 <=> stage'[s] \in Busy
        BY <1>1, <2>2 DEF PoolTyped, Busy
      <4>. QED
        BY <1>6, <4>1, <4>2 DEF AddComic, PoolTyped
    <3>3. TableTyped'
      BY <1>6, <2>2, <3>1 DEF AddComic, Upsert, TableTyped
    <3>. QED
      BY <1>6, <3>2, <3>3 DEF AddComic, CallsTyped, LocalsTyped
  <2>. QED
    BY <1>6, <2>1, <2>2 DEF AddComic
<1>. QED
  BY <1>2, <1>3, <1>5, <1>6 DEF WorkerStep

LEMMA NextTyped == TypeOK /\ [Next]_vars => TypeOK'
<1>. SUFFICES ASSUME TypeOK, [Next]_vars PROVE TypeOK'
  OBVIOUS
<1>. USE MaxIDAssumption DEF TypeOK, mutex, locals, pool, world, journal, events
<1>1. ASSUME NEW c \in Callers, TryLock(c) PROVE TypeOK'
  <2>1. CallsTyped'
    BY <1>1 DEF TryLock, CallsTyped, Positions, Results
  <2>. QED
    BY <1>1, <2>1 DEF TryLock, LocalsTyped, PoolTyped, TableTyped
<1>2. ASSUME NEW c \in Callers, CancelContext(c) PROVE TypeOK'
  <2>1. CallsTyped'
    BY <1>2 DEF CancelContext, CallsTyped
  <2>. QED
    BY <1>2, <2>1 DEF CancelContext, LocalsTyped, PoolTyped, TableTyped
<1>3. CASE Drop
  BY <1>3 DEF Drop, CallsTyped, LocalsTyped, PoolTyped, TableTyped
<1>4. CASE NewComic
  <2>1. TableTyped'
    BY <1>4 DEF NewComic, TableTyped
  <2>. QED
    BY <1>4, <2>1 DEF NewComic, CallsTyped, LocalsTyped, PoolTyped
<1>5. CASE Crash
  BY <1>5, RestartTyped DEF Crash
<1>6. CASE UNCHANGED vars
  BY <1>6 DEF vars, CallsTyped, LocalsTyped, PoolTyped, TableTyped
<1>. QED
  BY <1>1, <1>2, <1>3, <1>4, <1>5, <1>6, CallStepTyped, WorkerStepTyped DEF Next

(* Every variable keeps its type: in particular no job and no row is ever a *)
(* number upstream could not have, and a worker holds a job exactly while   *)
(* it fetches, normalises or stores one.                                    *)
THEOREM TypeCorrect == Spec => []TypeOK
<1>. QED
  BY InitTyped, NextTyped, PTL DEF Spec

(***************************************************************************)
(* The mutex, the flag and the pools                                       *)
(***************************************************************************)
(* SingleFlight and StatusTracksWork are inductive together once it is also  *)
(* known that the flag is down while the mutex is held around the update:    *)
(* without it Unlock might leave the flag up.                                *)
FlagDownAtTheEnds ==
    \A c \in Callers : pc[c] \in {"locked", "unlock"} => ~updateProcessing

FlightInv == SingleFlight /\ StatusTracksWork /\ FlagDownAtTheEnds

LEMMA InitFlight == Init => FlightInv
<1>. SUFFICES ASSUME Init PROVE FlightInv
  OBVIOUS
<1>1. \A c \in Callers, w \in Workers : stage[<<c, w>>] = "off"
  BY DEF Init, Slots
<1>. QED
  BY <1>1 DEF Init, FlightInv, SingleFlight, StatusTracksWork, FlagDownAtTheEnds

LEMMA RestartFlight == ProcessRestarts => FlightInv'
<1>. SUFFICES ASSUME ProcessRestarts PROVE FlightInv'
  OBVIOUS
<1>1. \A c \in Callers, w \in Workers : stage'[<<c, w>>] = "off"
  BY DEF ProcessRestarts, Slots
<1>. QED
  BY <1>1 DEF ProcessRestarts, FlightInv, SingleFlight, StatusTracksWork, FlagDownAtTheEnds

(* while one call is past TryLock every other is idle *)
LEMMA OthersIdle ==
  ASSUME SingleFlight, NEW c \in Callers, pc[c] # "idle", NEW d \in Callers, d # c
  PROVE  mu = c /\ pc[d] = "idle"
BY DEF SingleFlight

LEMMA CallStepFlight ==
  ASSUME TypeOK, FlightInv, NEW c \in Callers, CallStep(c)
  PROVE  FlightInv'
<1>. USE NoCallerAssumption DEF TypeOK, CallsTyped, mutex, locals, pool, Goto, ReturnFrom,
                                FlightInv, FlagDownAtTheEnds
<1>1. ASSUME pc[c] # "idle", pc' = [pc EXCEPT ![c] = pc'[c]], mu' = mu, pc'[c] # "idle",
             updateProcessing' <=> pc'[c] \notin {"locked", "unlock"},
             \A w \in Workers : stage'[<<c, w>>] # "off" => pc'[c] \in {"feed", "wait"},
             \A d \in Callers, w \in Workers : d # c => stage'[<<d, w>>] = stage[<<d, w>>]
      PROVE  FlightInv'
  (* a step of the call that keeps the mutex *)
  <2>1. mu = c /\ \A d \in Callers : d # c => pc[d] = "idle" /\ pc'[d] = "idle"
    BY <1>1 DEF SingleFlight
  <2>2. SingleFlight'
    BY <1>1, <2>1 DEF SingleFlight
  <2>3. StatusTracksWork' /\ FlagDownAtTheEnds'
    BY <1>1, <2>1 DEF StatusTracksWork
  <2>. QED
    BY <2>2, <2>3
<1>2. CASE StoreRunning(c)
  BY <1>1, <1>2 DEF StoreRunning, SingleFlight
<1>3. CASE LastID(c)
  BY <1>1, <1>3 DEF LastID, SingleFlight, StatusTracksWork, Positions
<1>4. CASE ListIDs(c)
  BY <1>1, <1>4 DEF ListIDs, SingleFlight, StatusTracksWork, Positions
<1>5. CASE SpawnWorkers(c)
  <2>1. \A d \in Callers, w \in Workers : d # c => stage'[<<d, w>>] = stage[<<d, w>>]
    BY <1>5 DEF SpawnWorkers, Slots
  <2>. QED
    BY <1>1, <1>5, <2>1 DEF SpawnWorkers, StatusTracksWork, Positions
<1>6. CASE MakeChanPanics(c)
  BY <1>6, RestartFlight DEF MakeChanPanics
<1>7. CASE Feed(c)
  BY <1>7 DEF Feed, SingleFlight, StatusTracksWork
<1>8. CASE CloseJobs(c)
  BY <1>1, <1>8 DEF CloseJobs, SingleFlight, StatusTracksWork, Positions
<1>9. CASE WaitWorkers(c)
  BY <1>1, <1>9 DEF WaitWorkers, WorkersDone, SingleFlight, StatusTracksWork, Positions
<1>10. CASE Publish(c)
  BY <1>1, <1>10 DEF Publish, SingleFlight, StatusTracksWork, Positions
<1>11. CASE Deferred(c)
  <2>1. CASE pc[c] = "clear"
    BY <1>1, <1>11, <2>1 DEF Deferred, SingleFlight
  <2>2. CASE pc[c] = "unlock"
    <3>1. mu' = NoCaller /\ ~updateProcessing' /\ \A d \in Callers : pc'[d] = "idle"
      BY <1>11, <2>2 DEF Deferred, SingleFlight
    <3>2. \A d \in Callers, w \in Workers : stage'[<<d, w>>] = "off"
      BY <1>11, <2>2, OthersIdle DEF Deferred, SingleFlight
    <3>. QED
      BY <3>1, <3>2 DEF SingleFlight, StatusTracksWork
  <2>. QED
    BY <1>11, <2>1, <2>2 DEF Deferred
<1>. QED
  BY <1>2, <1>3, <1>4, <1>5, <1>6, <1>7, <1>8, <1>9, <1>10, <1>11 DEF CallStep

(* a worker changes no call's position, and stays off once it is off *)
LEMMA WorkerStepKeeps ==
  ASSUME TypeOK, NEW c \in Callers, NEW w \in Workers, WorkerStep(c, w)
  PROVE  /\ UNCHANGED <<mutex, pc>>
         /\ stage[<<c, w>>] # "off"
         /\ \A s \in Slots : s # <<c, w>> => stage'[s] = stage[s]
<1>1. <<c, w>> \in Slots
  BY DEF Slots
<1>. QED
  BY <1>1 DEF WorkerStep, TakeJob, LeavePool, GetComic, NormComic, AddComic, Working, GiveUp,
              TypeOK, PoolTyped, mutex

LEMMA WorkerStepFlight ==
  ASSUME TypeOK, FlightInv, NEW c \in Callers, NEW w \in Workers, WorkerStep(c, w)
  PROVE  FlightInv'
<1>1. \A d \in Callers, v \in Workers :
         stage'[<<d, v>>] # "off" => stage[<<d, v>>] # "off"
  BY WorkerStepKeeps DEF Slots
<1>2. mu' = mu /\ updateProcessing' = updateProcessing /\ pc' = pc
  BY WorkerStepKeeps DEF mutex
<1>. QED
  BY <1>1, <1>2 DEF FlightInv, SingleFlight, StatusTracksWork, FlagDownAtTheEnds

LEMMA NextFlight == TypeOK /\ FlightInv /\ [Next]_vars => FlightInv'
<1>. SUFFICES ASSUME TypeOK, FlightInv, [Next]_vars PROVE FlightInv'
  OBVIOUS
<1>. USE DEF FlightInv, SingleFlight, StatusTracksWork, FlagDownAtTheEnds, mutex, pool
<1>1. ASSUME NEW c \in Callers, TryLock(c) PROVE FlightInv'
  <2>1. CASE mu = NoCaller
    <3>1. \A d \in Callers : pc[d] = "idle"
      BY <2>1, NoCallerAssumption
    <3>. QED
      BY <1>1, <2>1, <3>1, NoCallerAssumption DEF TryLock, TypeOK, CallsTyped
  <2>2. CASE mu # NoCaller
    BY <1>1, <2>2 DEF TryLock
  <2>. QED
    BY <2>1, <2>2
<1>2. ASSUME NEW c \in Callers, CancelContext(c) PROVE FlightInv'
  BY <1>2 DEF CancelContext
<1>3. CASE Drop \/ NewComic
  BY <1>3 DEF Drop, NewComic
<1>4. CASE Crash
  BY <1>4, RestartFlight DEF Crash
<1>5. CASE UNCHANGED vars
  BY <1>5 DEF vars
<1>. QED
  BY <1>1, <1>2, <1>3, <1>4, <1>5, CallStepFlight, WorkerStepFlight DEF Next

LEMMA FlightInvariant == Spec => [](TypeOK /\ FlightInv)
<1>1. Init => TypeOK /\ FlightInv
  BY InitTyped, InitFlight
<1>2. TypeOK /\ FlightInv /\ [Next]_vars => (TypeOK /\ FlightInv)'
  BY NextTyped, NextFlight
<1>. QED
  BY <1>1, <1>2, PTL DEF Spec

(* However many calls race, and whatever fails: one update at a time, and no *)
(* worker outlives the wait of the call that started it.                     *)
THEOREM AtMostOneFlight == Spec => []SingleFlight
<1>. QED
  BY FlightInvariant, PTL DEF FlightInv

(* Status answers running exactly as long as rows may still be added, and it *)
(* is never left saying so with the mutex free.                              *)
THEOREM StatusIsFaithful == Spec => []StatusTracksWork
<1>. QED
  BY FlightInvariant, PTL DEF FlightInv

(***************************************************************************)
(* Rows and events                                                         *)
(***************************************************************************)
(* A channel holds jobs only while its pool lives: no worker leaves before   *)
(* the channel is closed and empty.                                          *)
QueueInv ==
    \A c \in Callers :
        /\ pc[c] \notin {"feed", "wait"} => jobs[c] = <<>>
        /\ pc[c] = "feed" => \A w \in Workers : stage[<<c, w>>] # "off"
        /\ pc[c] = "wait" => \A w \in Workers : stage[<<c, w>>] = "off" => jobs[c] = <<>>

(* Where there is work there will be an event. *)
DueInv ==
    \A c \in Callers :
        /\ jobs[c] # <<>> => shouldSendEvent[c]
        /\ \A w \in Workers : stage[<<c, w>>] \in Busy => shouldSendEvent[c]

(* Rows are announced, known to be lost, or the running update will speak.   *)
AnnounceInv ==
    \/ unannounced = {}
    \/ lostEvent
    \/ \E c \in Callers : pc[c] \in {"feed", "wait", "publish"} /\ shouldSendEvent[c]

EventInv == QueueInv /\ DueInv /\ AnnounceInv

LEMMA InitEvents == Init => EventInv
<1>. SUFFICES ASSUME Init PROVE EventInv
  OBVIOUS
<1>1. \A c \in Callers, w \in Workers : stage[<<c, w>>] = "off"
  BY DEF Init, Slots
<1>. QED
  BY <1>1 DEF Init, EventInv, QueueInv, DueInv, AnnounceInv, Busy

LEMMA RestartEvents == TypeOK /\ ProcessRestarts => EventInv'
<1>. SUFFICES ASSUME TypeOK, ProcessRestarts PROVE EventInv'
  OBVIOUS
<1>1. \A c \in Callers, w \in Workers : stage'[<<c, w>>] = "off"
  BY DEF ProcessRestarts, Slots
<1>2. AnnounceInv'
  BY DEF ProcessRestarts, AnnounceInv
<1>. QED
  BY <1>1, <1>2 DEF ProcessRestarts, EventInv, QueueInv, DueInv, Busy

(* a step of a call that neither feeds nor ends leaves the pools alone *)
LEMMA CallStepEvents ==
  ASSUME TypeOK, FlightInv, EventInv, NEW c \in Callers, CallStep(c)
  PROVE  EventInv'
<1>. USE DEF TypeOK, CallsTyped, mutex, locals, pool, world, journal, events, Goto, ReturnFrom
<1>1. ASSUME UNCHANGED <<pool, shouldSendEvent, events>>,
             pc' = [pc EXCEPT ![c] = pc'[c]],
             pc[c] \notin {"feed", "wait", "publish"}, pc'[c] \notin {"feed", "wait", "publish"}
      PROVE  EventInv'
  <2>1. AnnounceInv'
    BY <1>1 DEF EventInv, AnnounceInv
  <2>2. QueueInv' /\ DueInv'
    BY <1>1 DEF EventInv, QueueInv, DueInv
  <2>. QED
    BY <2>1, <2>2 DEF EventInv
<1>2. CASE StoreRunning(c)
  BY <1>1, <1>2 DEF StoreRunning
<1>3. CASE LastID(c)
  BY <1>1, <1>3 DEF LastID
<1>4. CASE ListIDs(c)
  BY <1>1, <1>4 DEF ListIDs
<1>5. CASE SpawnWorkers(c)
  <2>1. /\ \A w \in Workers : stage'[<<c, w>>] = "receive"
        /\ \A d \in Callers, w \in Workers : d # c => stage'[<<d, w>>] = stage[<<d, w>>]
    BY <1>5 DEF SpawnWorkers, Slots
  <2>2. AnnounceInv'
    BY <1>5 DEF SpawnWorkers, EventInv, AnnounceInv
  <2>3. QueueInv' /\ DueInv'
    BY <1>5, <2>1 DEF SpawnWorkers, EventInv, QueueInv, DueInv, Busy
  <2>. QED
    BY <2>2, <2>3 DEF EventInv
<1>6. CASE MakeChanPanics(c)
  BY <1>6, RestartEvents DEF MakeChanPanics
<1>7. CASE Feed(c)
  <2>1. AnnounceInv'
    BY <1>7 DEF Feed, EventInv, AnnounceInv, LocalsTyped
  <2>2. QueueInv'
    BY <1>7 DEF Feed, EventInv, QueueInv, PoolTyped
  <2>3. DueInv'
    BY <1>7 DEF Feed, EventInv, DueInv, PoolTyped, LocalsTyped
  <2>. QED
    BY <2>1, <2>2, <2>3 DEF EventInv
<1>8. CASE CloseJobs(c)
  <2>1. AnnounceInv'
    BY <1>8 DEF CloseJobs, EventInv, AnnounceInv
  <2>2. QueueInv' /\ DueInv'
    BY <1>8 DEF CloseJobs, EventInv, QueueInv, DueInv
  <2>. QED
    BY <2>1, <2>2 DEF EventInv
<1>9. CASE WaitWorkers(c)
  <2>1. jobs[c] = <<>>
    BY <1>9, WorkersAssumption DEF WaitWorkers, WorkersDone, EventInv, QueueInv
  <2>2. AnnounceInv'
    BY <1>9 DEF WaitWorkers, EventInv, AnnounceInv
  <2>3. QueueInv' /\ DueInv'
    BY <1>9, <2>1 DEF WaitWorkers, EventInv, QueueInv, DueInv
  <2>. QED
    BY <2>2, <2>3 DEF EventInv
<1>10. CASE Publish(c)
  <2>1. \A d \in Callers : d # c => pc[d] = "idle"
    BY <1>10, OthersIdle DEF Publish, FlightInv
  <2>2. AnnounceInv'
    BY <1>10, <2>1 DEF Publish, SendDBChangedEvent, EventInv, AnnounceInv
  <2>3. QueueInv' /\ DueInv'
    BY <1>10 DEF Publish, EventInv, QueueInv, DueInv
  <2>. QED
    BY <2>2, <2>3 DEF EventInv
<1>11. CASE Deferred(c)
  <2>1. CASE pc[c] = "clear"
    BY <1>1, <1>11, <2>1 DEF Deferred
  <2>2. CASE pc[c] = "unlock"
    <3>1. jobs[c] = <<>> /\ \A w \in Workers : stage[<<c, w>>] = "off"
      BY <2>2 DEF EventInv, QueueInv, FlightInv, SingleFlight
    <3>2. /\ UNCHANGED <<jobs, stage, unannounced, lostEvent>>
          /\ pc' = [pc EXCEPT ![c] = "idle"]
          /\ shouldSendEvent' = [shouldSendEvent EXCEPT ![c] = FALSE]
      BY <1>11, <2>2 DEF Deferred
    <3>3. AnnounceInv'
      BY <2>2, <3>2 DEF EventInv, AnnounceInv, LocalsTyped
    <3>4. QueueInv'
      BY <2>2, <3>2 DEF EventInv, QueueInv
    <3>5. DueInv'
      BY <3>1, <3>2 DEF EventInv, DueInv, Busy, LocalsTyped
    <3>. QED
      BY <3>3, <3>4, <3>5 DEF EventInv
  <2>. QED
    BY <1>11, <2>1, <2>2 DEF Deferred
<1>. QED
  BY <1>2, <1>3, <1>4, <1>5, <1>6, <1>7, <1>8, <1>9, <1>10, <1>11 DEF CallStep

LEMMA WorkerStepEvents ==
  ASSUME TypeOK, FlightInv, EventInv, NEW c \in Callers, NEW w \in Workers, WorkerStep(c, w)
  PROVE  EventInv'
<1>. USE DEF EventInv, locals, journal, events
<1>1. /\ mu' = mu /\ pc' = pc
      /\ stage[<<c, w>>] # "off"
      /\ \A d \in Callers, v \in Workers :
            <<d, v>> # <<c, w>> => stage'[<<d, v>>] = stage[<<d, v>>]
  BY WorkerStepKeeps DEF Slots, mutex
<1>2. shouldSendEvent' = shouldSendEvent /\ lostEvent' = lostEvent
  BY DEF WorkerStep, TakeJob, LeavePool, GetComic, NormComic, AddComic
<1>3. CASE TakeJob(c, w)
  <2>1. /\ jobs[c] # <<>> /\ \A d \in Callers : d # c => jobs'[d] = jobs[d]
        /\ stage'[<<c, w>>] # "off"
        /\ unannounced' = unannounced
    BY <1>3 DEF TakeJob, TypeOK, PoolTyped, Working, Slots
  <2>2. pc[c] \in {"feed", "wait"} /\ shouldSendEvent[c]
    BY <2>1 DEF QueueInv, DueInv
  <2>3. QueueInv'
    BY <1>1, <2>1, <2>2 DEF QueueInv
  <2>4. DueInv' /\ AnnounceInv'
    BY <1>1, <1>2, <2>1, <2>2 DEF DueInv, AnnounceInv
  <2>. QED
    BY <2>3, <2>4
<1>4. CASE LeavePool(c, w)
  <2>1. /\ jobs' = jobs /\ jobs[c] = <<>> /\ pc[c] = "wait" /\ unannounced' = unannounced
        /\ stage'[<<c, w>>] = "off"
    BY <1>4 DEF LeavePool, TypeOK, PoolTyped, Working, Slots
  <2>2. QueueInv'
    BY <1>1, <2>1 DEF QueueInv
  <2>3. DueInv' /\ AnnounceInv'
    BY <1>1, <1>2, <2>1 DEF DueInv, AnnounceInv, Busy
  <2>. QED
    BY <2>2, <2>3
<1>5. CASE GetComic(c, w) \/ NormComic(c, w) \/ AddComic(c, w)
  <2>1. jobs' = jobs /\ stage[<<c, w>>] \in Busy /\ stage'[<<c, w>>] # "off"
    BY <1>5 DEF GetComic, NormComic, AddComic, GiveUp, Working, TypeOK, PoolTyped, Slots, Busy
  <2>2. shouldSendEvent[c] /\ pc[c] \in {"feed", "wait"}
    BY <1>1, <2>1 DEF DueInv, FlightInv, SingleFlight
  <2>3. QueueInv'
    BY <1>1, <2>1 DEF QueueInv
  <2>4. DueInv' /\ AnnounceInv'
    BY <1>1, <1>2, <2>1, <2>2 DEF DueInv, AnnounceInv
  <2>. QED
    BY <2>3, <2>4
<1>. QED
  BY <1>3, <1>4, <1>5 DEF WorkerStep

LEMMA NextEvents == TypeOK /\ FlightInv /\ EventInv /\ [Next]_vars => EventInv'
<1>. SUFFICES ASSUME TypeOK, FlightInv, EventInv, [Next]_vars PROVE EventInv'
  OBVIOUS
<1>. USE DEF EventInv, QueueInv, DueInv, AnnounceInv, locals, pool, events
<1>1. ASSUME NEW c \in Callers, TryLock(c) PROVE EventInv'
  BY <1>1 DEF TryLock, TypeOK, CallsTyped
<1>2. ASSUME NEW c \in Callers, CancelContext(c) PROVE EventInv'
  BY <1>2 DEF CancelContext
<1>3. CASE Drop \/ NewComic
  BY <1>3 DEF Drop, NewComic
<1>4. CASE Crash
  BY <1>4, RestartEvents DEF Crash
<1>5. CASE UNCHANGED vars
  BY <1>5 DEF vars
<1>. QED
  BY <1>1, <1>2, <1>3, <1>4, <1>5, CallStepEvents, WorkerStepEvents DEF Next

(* Whenever no update runs, the rows no event has announced are those of an  *)
(* event that failed or of a process that died: no update forgets its event  *)
(* and none stores a row behind it.                                          *)
THEOREM EventsCoverRows == Spec => []EventCoversRows
<1>1. Init => EventInv
  BY InitEvents
<1>2. FlightInv /\ EventInv => EventCoversRows
  BY NoCallerAssumption
     DEF FlightInv, SingleFlight, EventInv, AnnounceInv, EventCoversRows
<1>. QED
  BY <1>1, <1>2, InitTyped, InitFlight, NextTyped, NextFlight, NextEvents, PTL DEF Spec
=============================================================================

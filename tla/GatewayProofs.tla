---------------------------- MODULE GatewayProofs ----------------------------
(***************************************************************************)
(* Proofs about Gateway for any number of requests, any choice of          *)
(* endpoints, any limit and any number of comics.                          *)
(*                                                                         *)
(* The invariant has three parts that do not meet: what the limiter and    *)
(* main know of each other, which takes the limiter's own invariant from   *)
(* ConcurrencyLimiterProofs; the numbers Stats has read; and where each     *)
(* request is in its call.                                                 *)
(***************************************************************************)
EXTENDS Gateway, TLAPS

Proved == INSTANCE ConcurrencyLimiterProofs WITH Drainers <- {Main}

(***************************************************************************)
(* The limiter and the end of the process                                  *)
(***************************************************************************)
DrainInv ==
    /\ drain[Main] = "idle" => owed[Main] = {}
    /\ server = "closing" => drain[Main] = "idle"
    /\ server \in {"down", "serving", "stopRate", "stopSearch", "closing"}

LimiterInv == Proved!IInv /\ DrainInv

LEMMA LimiterStarts == Limiter!Init => Proved!IInv
<1>1. Limiter!Init => Proved!Init
  BY DEF Limiter!Init, Proved!Init
<1>. QED
  BY <1>1, Proved!InitIInv, LimitAssumption DEF Proved!InitIInv

LEMMA LimiterMoves == Proved!IInv /\ [Proved!Next]_(Proved!vars) => Proved!IInv'
<1>. QED
  BY Proved!NextIInv, LimitAssumption DEF Proved!NextIInv

(* a process that dies leaves the state in which the limiter starts *)
LEMMA LimiterRestarts ==
  ASSUME Dies
  PROVE  LimiterInv'
<1>1. (Limiter!Init)'
  BY DEF Dies, Limiter!Init
<1>2. (Limiter!Init)' => Proved!IInv'
  BY LimiterStarts, PTL
<1>3. DrainInv'
  BY DEF Dies, DrainInv
<1>. QED
  BY <1>1, <1>2, <1>3 DEF LimiterInv

(* what the requests do to the limiter *)
RequestMoves(r) ==
    \/ Limiter!Arrive(r) \/ Limiter!Submit(r) \/ Limiter!Serve(r)
    \/ Limiter!Hand(r) \/ Limiter!Release(r) \/ Limiter!Answer(r)

LEMMA RequestMovesLimiter ==
  ASSUME LimiterInv, NEW r \in Requests, RequestMoves(r), server' = server
  PROVE  LimiterInv'
<1>1. Proved!Next
  BY DEF RequestMoves, Proved!Next, Proved!RequestStep, Proved!Arrive, Proved!Submit,
         Proved!Serve, Proved!Hand, Proved!Release, Proved!Answer, Proved!Receive,
         Limiter!Arrive, Limiter!Submit, Limiter!Serve, Limiter!Hand, Limiter!Release,
         Limiter!Answer, Limiter!Receive
<1>2. Proved!IInv'
  BY <1>1, LimiterMoves DEF LimiterInv
<1>3. DrainInv'
  <2>1. drain'[Main] = "idle" <=> drain[Main] = "idle"
    <3>1. CASE parked = <<>> \/ UNCHANGED drain
      BY <3>1 DEF RequestMoves, Limiter!Arrive, Limiter!Submit, Limiter!Serve, Limiter!Hand,
                  Limiter!Release, Limiter!Answer, Limiter!Receive
    <3>2. CASE parked # <<>> /\ ~ UNCHANGED drain
      <4>1. drain' = [drain EXCEPT ![Head(parked)] = "acquire"]
        BY <3>2 DEF RequestMoves, Limiter!Arrive, Limiter!Submit, Limiter!Serve, Limiter!Hand,
                    Limiter!Release, Limiter!Answer, Limiter!Receive
      <4>2. parked \in Seq({Main}) /\ drain \in [{Main} -> {"idle", "acquire", "parked", "release"}]
        BY DEF LimiterInv, Proved!IInv, Proved!TypeOK
      <4>3. 1 \in DOMAIN parked /\ Head(parked) = Main /\ parked[1] = Main
        BY <3>2, <4>2
      <4>4. drain[Main] = "parked"
        BY <4>3 DEF LimiterInv, Proved!IInv, Proved!ParkedInv
      <4>. QED
        BY <4>1, <4>2, <4>3, <4>4
    <3>. QED
      BY <3>1, <3>2
  <2>2. owed'[Main] \subseteq owed[Main]
    BY DEF RequestMoves, Limiter!Arrive, Limiter!Submit, Limiter!Serve, Limiter!Hand,
           Limiter!Release, Limiter!Answer, LimiterInv, Proved!IInv, Proved!TypeOK
  <2>. QED
    BY <2>1, <2>2 DEF LimiterInv, DrainInv
<1>. QED
  BY <1>2, <1>3 DEF LimiterInv

LEMMA StopMovesLimiter ==
  ASSUME LimiterInv, StopSearch
  PROVE  LimiterInv'
<1>1. Proved!Next
  BY DEF StopSearch, Proved!Next, Proved!Stop, Proved!BeginWait, Proved!Running,
         Limiter!Stop, Limiter!BeginWait, Limiter!Running
<1>2. Proved!IInv'
  BY <1>1, LimiterMoves DEF LimiterInv
<1>3. DrainInv'
  BY DEF StopSearch, Enter, Limiter!Stop, Limiter!BeginWait,
         LimiterInv, DrainInv, Proved!IInv, Proved!TypeOK
<1>. QED
  BY <1>2, <1>3 DEF LimiterInv

LEMMA DrainingMovesLimiter ==
  ASSUME LimiterInv, Draining
  PROVE  LimiterInv'
<1>1. Proved!Next
  BY DEF Draining, Proved!Next, Proved!DrainStep, Proved!Acquire, Proved!Free,
         Limiter!DrainStep, Limiter!Acquire, Limiter!Free
<1>2. Proved!IInv'
  BY <1>1, LimiterMoves DEF LimiterInv
<1>3. DrainInv'
  <2>1. drain[Main] # "idle" /\ UNCHANGED <<owed, server>>
    BY DEF Draining, Limiter!DrainStep, Limiter!Acquire, Limiter!Free
  <2>2. drain'[Main] = "idle" => drain[Main] = "release"
    BY <2>1 DEF Draining, Limiter!DrainStep, Limiter!Acquire, Limiter!Free,
                LimiterInv, Proved!IInv, Proved!TypeOK
  <2>. QED
    BY <2>1, <2>2 DEF LimiterInv, DrainInv, Proved!IInv, Proved!DrainCoversEarlier
<1>. QED
  BY <1>2, <1>3 DEF LimiterInv

LEMMA QuietForLimiter ==
  ASSUME LimiterInv, UNCHANGED limiter,
         \/ server' = server
         \/ Boot \/ ListenReturns \/ StopSearchReturns
  PROVE  LimiterInv'
<1>1. UNCHANGED Proved!vars
  BY DEF limiter, Proved!vars
<1>2. Proved!IInv'
  BY <1>1, LimiterMoves DEF LimiterInv
<1>3. DrainInv'
  BY DEF limiter, Boot, ListenReturns, StopSearchReturns, Enter, LimiterInv, DrainInv
<1>. QED
  BY <1>2, <1>3 DEF LimiterInv

LEMMA LimiterInvariant == LimiterInv /\ [Next]_vars => LimiterInv'
<1>. SUFFICES ASSUME LimiterInv, [Next]_vars PROVE LimiterInv'
  OBVIOUS
<1>1. CASE Boot \/ ListenReturns \/ StopSearchReturns
  BY <1>1, QuietForLimiter DEF Boot, ListenReturns, StopSearchReturns
<1>2. CASE Crash \/ Exit
  BY <1>2, LimiterRestarts DEF Crash, Exit
<1>3. CASE StopSearch \/ Draining
  BY <1>3, StopMovesLimiter, DrainingMovesLimiter
<1>4. CASE StoreComic \/ RunEnds \/ NewComic \/ UNCHANGED vars
  <2>1. server' = server /\ UNCHANGED limiter
    BY <1>4 DEF StoreComic, RunEnds, NewComic, vars
  <2>. QED
    BY <2>1, QuietForLimiter
<1>5. ASSUME NEW r \in Requests, Send(r) \/ HandlerStep(r) \/ TaskStep(r) \/ CallCancelled(r)
      PROVE  LimiterInv'
  <2>1. CASE Send(r) \/ CallCancelled(r) \/ Auth(r) \/ Rate(r) \/ CheckQuery(r)
             \/ ReadStats(r) \/ StatsFail(r) \/ CallUpdate(r) \/ CallDrop(r) \/ AnswerArrives(r)
    <3>1. server' = server /\ UNCHANGED limiter
      BY <2>1 DEF Send, CallCancelled, Auth, Rate, CheckQuery, ReadStats, StatsFail,
                  CallUpdate, CallDrop, AnswerArrives
    <3>. QED
      BY <3>1, QuietForLimiter
  <2>2. CASE PingHandler(r) \/ WordsHandler(r) \/ StatusHandler(r) \/ SearchHandler(r)
             \/ LoginHandler(r)
    <3>1. server' = server /\ UNCHANGED limiter
      BY <2>2 DEF PingHandler, WordsHandler, StatusHandler, SearchHandler, LoginHandler, Handle
    <3>. QED
      BY <3>1, QuietForLimiter
  <2>3. CASE Concurrency(r) \/ TakePlace(r) \/ HandlerRan(r) \/ TaskStep(r)
    <3>1. server' = server /\ RequestMoves(r)
      BY <2>3 DEF Concurrency, TakePlace, HandlerRan, TaskStep, RequestMoves
    <3>. QED
      BY <3>1, RequestMovesLimiter
  <2>4. CASE Finish(r)
    <3>1. server' = server /\ (RequestMoves(r) \/ UNCHANGED limiter)
      BY <2>4 DEF Finish, RequestMoves
    <3>. QED
      BY <3>1, RequestMovesLimiter, QuietForLimiter
  <2>. QED
    BY <1>5, <2>1, <2>2, <2>3, <2>4 DEF HandlerStep
<1>. QED
  BY <1>1, <1>2, <1>3, <1>4, <1>5 DEF Next, MainStep

(***************************************************************************)
(* The numbers of Stats                                                    *)
(***************************************************************************)
(* what one call has read: every count of the table is bounded by what       *)
(* upstream has, and without a Drop by what the table has now                *)
Readable(seq, still) ==
    /\ seq \in Seq(-1 .. MaxID)
    /\ Len(seq) <= 4
    /\ \A k \in 1 .. Len(seq) : k < 4 => seq[k] \in 0 .. newest
    /\ Len(seq) = 4 => seq[1] <= seq[4] \/ seq[4] = -1
    /\ still => /\ \A k \in 1 .. Len(seq) : k < 4 => seq[k] <= rows
                /\ \A i, j \in 1 .. Len(seq) : i < j /\ j < 4 => seq[i] <= seq[j]

StatsInv ==
    /\ newest \in 0 .. MaxID
    /\ rows \in 0 .. newest
    /\ reads \in [Requests -> Seq(-1 .. MaxID)]
    /\ calm \in [Requests -> BOOLEAN]
    /\ \A r \in Requests : Readable(reads[r], calm[r])

(* the table and upstream may grow under what was read *)
LEMMA StaysReadable ==
  ASSUME StatsInv, newest' \in Nat, rows' \in Nat, newest <= newest', rows <= rows',
         NEW seq, NEW still, Readable(seq, still)
  PROVE  Readable(seq, still)'
<1>1. Len(seq) \in Nat /\ newest \in Nat /\ rows \in Nat
  BY MaxIDAssumption DEF Readable, StatsInv
<1>2. \A k \in 1 .. Len(seq) : k < 4 => seq[k] \in 0 .. newest'
  BY <1>1 DEF Readable
<1>3. still => \A k \in 1 .. Len(seq) : k < 4 => seq[k] <= rows'
  BY <1>1 DEF Readable
<1>. QED
  BY <1>2, <1>3 DEF Readable

LEMMA EmptyIsReadable == \A still : Readable(<<>>, still)
<1>. QED
  BY DEF Readable

(* One more number.  The fourth is newest or -1, and newest bounds the first; *)
(* an earlier one is rows, which bounds what was read since the last Drop.    *)
LEMMA ReadKeeps ==
  ASSUME StatsInv, NEW r \in Requests, ReadStats(r)
  PROVE  StatsInv'
<1>. USE MaxIDAssumption
<1>. DEFINE seq == reads[r]
            len == Len(reads[r])
            new == reads'[r]
<1>1. /\ UNCHANGED <<rows, newest>>
      /\ len \in 0 .. 3
      /\ seq \in Seq(-1 .. MaxID)
      /\ newest \in 0 .. MaxID /\ rows \in 0 .. newest
  <2>1. UNCHANGED <<rows, newest>>
    BY DEF ReadStats, world
  <2>2. len < 3 \/ len = 3
    BY DEF ReadStats
  <2>3. seq \in Seq(-1 .. MaxID) /\ newest \in 0 .. MaxID /\ rows \in 0 .. newest
    BY DEF StatsInv
  <2>4. len \in Nat
    BY <2>3
  <2>5. len \in 0 .. 3
    <3>. HIDE DEF len
    <3>. QED
      BY <2>2, <2>4
  <2>. QED
    BY <2>1, <2>3, <2>5
<1>2. PICK n \in IF len < 3 THEN {rows} ELSE {newest, -1} :
        reads' = [reads EXCEPT ![r] = Append(@, n)]
  BY DEF ReadStats
<1>3. calm' = [calm EXCEPT ![r] = calm[r] \/ seq = <<>>]
  BY DEF ReadStats
<1>4. n \in -1 .. MaxID
  BY <1>1, <1>2
<1>5. /\ new = Append(seq, n)
      /\ new \in Seq(-1 .. MaxID)
      /\ Len(new) = len + 1
      /\ \A k \in 1 .. len : new[k] = seq[k]
      /\ new[len + 1] = n
  BY <1>1, <1>2, <1>4 DEF StatsInv
<1>6. /\ reads' \in [Requests -> Seq(-1 .. MaxID)]
      /\ calm' \in [Requests -> BOOLEAN]
      /\ calm'[r] = (calm[r] \/ seq = <<>>)
  BY <1>2, <1>3, <1>5 DEF StatsInv
<1>7. Readable(reads[r], calm[r])
  BY DEF StatsInv
<1>8. Readable(reads[r], calm[r])'
  <2>. HIDE DEF seq, len, new
  <2>1. /\ \A k \in 1 .. len : k < 4 => seq[k] \in 0 .. newest
        /\ calm[r] => /\ \A k \in 1 .. len : k < 4 => seq[k] <= rows
                      /\ \A i, j \in 1 .. len : i < j /\ j < 4 => seq[i] <= seq[j]
    BY <1>7 DEF Readable, seq, len
  <2>2. \A k \in 1 .. len + 1 : k < 4 => new[k] \in 0 .. newest
    BY <1>1, <1>2, <1>5, <2>1
  <2>3. len + 1 = 4 => new[1] <= new[4] \/ new[4] = -1
    BY <1>1, <1>2, <1>5, <2>1
  <2>4. seq = <<>> => len = 0
    BY DEF seq, len
  <2>5. calm[r] \/ seq = <<>> =>
          \A k \in 1 .. len + 1 : k < 4 => new[k] <= rows
    BY <1>1, <1>2, <1>5, <2>1, <2>4
  <2>6. calm[r] \/ seq = <<>> =>
          \A i, j \in 1 .. len + 1 : i < j /\ j < 4 => new[i] <= new[j]
    BY <1>1, <1>2, <1>5, <2>1, <2>4
  <2>7. /\ new \in Seq(-1 .. MaxID) /\ Len(new) = len + 1 /\ len + 1 <= 4
        /\ UNCHANGED <<rows, newest>>
        /\ calm'[r] = (calm[r] \/ seq = <<>>)
    BY <1>1, <1>5, <1>6
  <2>8. Readable(new, calm'[r])
    BY <2>2, <2>3, <2>5, <2>6, <2>7 DEF Readable
  <2>. QED
    BY <2>7, <2>8 DEF Readable, new
<1>9. ASSUME NEW q \in Requests, q # r PROVE Readable(reads[q], calm[q])'
  <2>1. reads'[q] = reads[q] /\ calm'[q] = calm[q]
    BY <1>2, <1>3, <1>9 DEF StatsInv
  <2>. QED
    BY <1>1, <2>1 DEF StatsInv, Readable
<1>. QED
  BY <1>1, <1>6, <1>8, <1>9 DEF StatsInv

(* the call has failed or its request is over *)
LEMMA ForgetKeeps ==
  ASSUME StatsInv, NEW r \in Requests, StatsFail(r) \/ Finish(r)
  PROVE  StatsInv'
<1>1. /\ reads' = [reads EXCEPT ![r] = <<>>]
      /\ calm' \in [Requests -> BOOLEAN]
      /\ \A q \in Requests : q # r => calm'[q] = calm[q]
      /\ UNCHANGED <<rows, newest>>
  BY DEF StatsFail, Finish, world, StatsInv
<1>2. reads' \in [Requests -> Seq(-1 .. MaxID)]
  BY <1>1 DEF StatsInv
<1>3. ASSUME NEW q \in Requests PROVE Readable(reads[q], calm[q])'
  <2>1. CASE q = r
    BY <1>1, <2>1 DEF Readable, StatsInv
  <2>2. CASE q # r
    <3>1. reads'[q] = reads[q] /\ calm'[q] = calm[q]
      BY <1>1, <2>2 DEF StatsInv
    <3>. QED
      BY <1>1, <3>1 DEF Readable, StatsInv
  <2>. QED
    BY <2>1, <2>2
<1>. QED
  BY <1>1, <1>2, <1>3 DEF StatsInv

(* after a Drop nothing is said of the order any more *)
LEMMA DropKeeps ==
  ASSUME StatsInv, NEW r \in Requests, CallDrop(r)
  PROVE  StatsInv'
<1>1. CASE UNCHANGED <<rows, calm>>
  BY <1>1 DEF CallDrop, StatsInv, Readable
<1>2. CASE rows' = 0 /\ calm' = [q \in Requests |-> FALSE]
  <2>1. UNCHANGED <<reads, newest>>
    BY DEF CallDrop
  <2>. QED
    BY <1>2, <2>1, MaxIDAssumption DEF StatsInv, Readable
<1>. QED
  BY <1>1, <1>2 DEF CallDrop

LEMMA GrowthKeeps ==
  ASSUME StatsInv, StoreComic \/ NewComic
  PROVE  StatsInv'
<1>1. /\ newest' \in 0 .. MaxID /\ rows' \in 0 .. newest'
      /\ newest <= newest' /\ rows <= rows'
      /\ UNCHANGED <<reads, calm>>
  BY MaxIDAssumption DEF StoreComic, NewComic, StatsInv, call
<1>2. \A r \in Requests : Readable(reads[r], calm[r])'
  BY <1>1, StaysReadable, MaxIDAssumption DEF StatsInv, Readable
<1>. QED
  BY <1>1, <1>2 DEF StatsInv

LEMMA DeathKeeps ==
  ASSUME StatsInv, Dies
  PROVE  StatsInv'
<1>. QED
  BY DEF Dies, StatsInv, Readable

LEMMA StatsInvariant == StatsInv /\ [Next]_vars => StatsInv'
<1>. SUFFICES ASSUME StatsInv, [Next]_vars PROVE StatsInv'
  OBVIOUS
<1>1. ASSUME UNCHANGED <<reads, calm, rows, newest>> PROVE StatsInv'
  BY <1>1 DEF StatsInv, Readable
<1>2. CASE Boot \/ ListenReturns \/ StopSearch \/ Draining \/ StopSearchReturns
           \/ RunEnds \/ UNCHANGED vars
  BY <1>1, <1>2 DEF Boot, ListenReturns, StopSearch, Draining, StopSearchReturns, RunEnds,
                    vars, call, world
<1>3. CASE Crash \/ Exit
  BY <1>3, DeathKeeps DEF Crash, Exit
<1>4. CASE StoreComic \/ NewComic
  BY <1>4, GrowthKeeps
<1>5. ASSUME NEW r \in Requests, Send(r) \/ HandlerStep(r) \/ TaskStep(r) \/ CallCancelled(r)
      PROVE  StatsInv'
  <2>1. CASE Send(r) \/ TaskStep(r) \/ CallCancelled(r) \/ Auth(r) \/ Rate(r)
             \/ Concurrency(r) \/ TakePlace(r) \/ CheckQuery(r)
    BY <1>1, <2>1 DEF Send, TaskStep, CallCancelled, Auth, Rate, Concurrency, TakePlace,
                      CheckQuery, call, world
  <2>2. CASE PingHandler(r) \/ WordsHandler(r) \/ StatusHandler(r) \/ SearchHandler(r)
             \/ LoginHandler(r) \/ CallUpdate(r) \/ AnswerArrives(r) \/ HandlerRan(r)
    BY <1>1, <2>2 DEF PingHandler, WordsHandler, StatusHandler, SearchHandler, LoginHandler,
                      Handle, CallUpdate, AnswerArrives, HandlerRan, call, world
  <2>3. CASE ReadStats(r) \/ StatsFail(r) \/ CallDrop(r) \/ Finish(r)
    BY <2>3, ReadKeeps, ForgetKeeps, DropKeeps
  <2>. QED
    BY <1>5, <2>1, <2>2, <2>3 DEF HandlerStep
<1>. QED
  BY <1>2, <1>3, <1>4, <1>5 DEF Next, MainStep

(***************************************************************************)
(* The calls of the update service                                         *)
(***************************************************************************)
Told(r) ==
    pc[r] = "done" => /\ status[r] = 200 <=> outcome[r] = "ok"
                      /\ status[r] = 202 <=> outcome[r] = "refused"
                      /\ status[r] = 401 <=> outcome[r] = "none"

UpdateCall(r) ==
    /\ pc[r] \in {"enter", "call", "run", "back", "done"}
    /\ pc[r] \in {"enter", "call"} => outcome[r] = "none"
    /\ Told(r)

CallOf(r) ==
    /\ pc[r] \in {"idle", "enter", "limited", "check", "call", "run", "back", "done"}
    /\ endpoint[r] \in Endpoints
    /\ status[r] \in {0, 200, 202, 400, 401, 500, 503}
    /\ outcome[r] \in {"none", "refused", "ok", "error"}
    /\ pc[r] = "idle" => /\ endpoint[r] = "ping" /\ outcome[r] = "none"
                         /\ status[r] = 0 /\ reads[r] = <<>>
    /\ pc[r] = "run" <=> owner = r
    /\ pc[r] = "back" => outcome[r] # "none"
    /\ endpoint[r] = "update" => UpdateCall(r)

IsMap(f) == f = [r \in Requests |-> f[r]]

CallInv ==
    /\ IsMap(pc) /\ IsMap(endpoint) /\ IsMap(status) /\ IsMap(outcome) /\ IsMap(reads)
    /\ owner \in Requests \cup {Nobody, Orphan}
    /\ \A r \in Requests : CallOf(r)

(* the state of a request with which CallOf deals *)
Untouched(r) ==
    /\ pc'[r] = pc[r] /\ endpoint'[r] = endpoint[r] /\ status'[r] = status[r]
    /\ outcome'[r] = outcome[r] /\ reads'[r] = reads[r]
    /\ owner' = r <=> owner = r

LEMMA UntouchedKeeps ==
  ASSUME NEW r \in Requests, CallOf(r), Untouched(r)
  PROVE  CallOf(r)'
<1>. QED
  BY DEF CallOf, Untouched, UpdateCall, Told

(* what a step of one request may touch *)
Touches(r) ==
    /\ IsMap(pc)' /\ IsMap(endpoint)' /\ IsMap(status)' /\ IsMap(outcome)' /\ IsMap(reads)'
    /\ owner' \in Requests \cup {Nobody, Orphan}
    /\ \A q \in Requests : q # r => Untouched(q)

LEMMA OneRequestMoves ==
  ASSUME CallInv, NEW r \in Requests, Touches(r), CallOf(r)'
  PROVE  CallInv'
<1>. QED
  BY UntouchedKeeps DEF CallInv, Touches

LEMMA FirstSteps ==
  \A e : First(e) \in {"enter", "check", "call"} /\ (e = "update" => First(e) = "enter")
<1>. QED
  BY DEF First

LEMMA Codes ==
  \A o : /\ CodeOf(o) \in {200, 202, 400, 401, 500}
         /\ CodeOf(o) = 200 <=> o = "ok"
         /\ CodeOf(o) = 202 <=> o = "refused"
         /\ CodeOf(o) = 401 <=> o = "unauthorized"
<1>. QED
  BY DEF CodeOf

LEMMA WaysIn ==
  ASSUME CallInv, NEW r \in Requests,
         Send(r) \/ Auth(r) \/ Rate(r) \/ Concurrency(r) \/ TakePlace(r) \/ CheckQuery(r)
  PROVE  CallInv'
<1>1. Touches(r)
  BY DEF Send, Auth, Rate, Concurrency, TakePlace, CheckQuery, Respond, Goto, call, world,
         CallInv, Touches, Untouched, IsMap
<1>. SUFFICES CallOf(r)'
  BY <1>1, OneRequestMoves
<1>2. CallOf(r) /\ owner' = owner /\ outcome' = outcome /\ reads' = reads
  BY DEF CallInv, Send, Auth, Rate, Concurrency, TakePlace, CheckQuery, call, world
<1>3. ASSUME Send(r) PROVE CallOf(r)'
  <2>1. PICK e \in Asks[r] : pc' = [pc EXCEPT ![r] = First(e)] /\ endpoint' = [endpoint EXCEPT ![r] = e]
    BY <1>3 DEF Send, Goto
  <2>2. pc'[r] = First(e) /\ endpoint'[r] = e /\ status'[r] = status[r] /\ pc[r] = "idle"
    BY <1>3, <2>1 DEF Send, Goto, CallInv, IsMap
  <2>3. e \in Endpoints
    BY AsksAssumption
  <2>. QED
    BY <1>2, <2>2, <2>3, FirstSteps DEF CallOf, UpdateCall, Told
<1>4. ASSUME Auth(r) PROVE CallOf(r)'
  <2>1. CASE pc'[r] = "call" /\ UNCHANGED status
    BY <1>2, <1>4, <2>1 DEF Auth, Goto, Respond, CallOf, UpdateCall, Told
  <2>2. CASE pc'[r] # "call" \/ ~ UNCHANGED status
    <3>1. /\ pc[r] = "enter" /\ pc'[r] = "done" /\ status'[r] = 401
          /\ endpoint' = endpoint /\ endpoint[r] \in {"update", "drop"}
      BY <1>4, <2>2 DEF Auth, Verify, CodeOf, Goto, Respond, CallInv, IsMap
    <3>. QED
      BY <1>2, <3>1 DEF CallOf, UpdateCall, Told
  <2>. QED
    BY <2>1, <2>2
<1>5. ASSUME Rate(r) \/ Concurrency(r) \/ TakePlace(r) \/ CheckQuery(r) PROVE CallOf(r)'
  <2>1. /\ endpoint' = endpoint /\ endpoint[r] # "update"
        /\ pc[r] \in {"enter", "limited", "check"}
        /\ pc'[r] \in {"limited", "check", "call", "done"}
        /\ status'[r] \in {status[r], 400, 401, 503}
    BY <1>2, <1>5 DEF Rate, Concurrency, TakePlace, CheckQuery, Goto, Respond, CallInv, IsMap,
                      CallOf, UpdateCall
  <2>. QED
    BY <1>2, <2>1 DEF CallOf
<1>. QED
  BY <1>3, <1>4, <1>5

LEMMA OtherCalls ==
  ASSUME CallInv, NEW r \in Requests,
         \/ PingHandler(r) \/ WordsHandler(r) \/ StatusHandler(r) \/ SearchHandler(r)
         \/ LoginHandler(r) \/ ReadStats(r) \/ StatsFail(r)
  PROVE  CallInv'
<1>1. Touches(r)
  BY DEF PingHandler, WordsHandler, StatusHandler, SearchHandler, LoginHandler, Handle,
         ReadStats, StatsFail, Respond, Goto, call, world, CallInv, Touches, Untouched, IsMap
<1>2. CallOf(r) /\ owner' = owner /\ outcome' = outcome /\ endpoint' = endpoint
  BY DEF CallInv, PingHandler, WordsHandler, StatusHandler, SearchHandler, LoginHandler,
         Handle, ReadStats, StatsFail, call, world
<1>3. /\ endpoint[r] # "update" /\ pc[r] = "call"
      /\ \/ pc'[r] = "call" /\ status'[r] = status[r]
         \/ pc'[r] = "done" /\ status'[r] \in {200, 202, 400, 401, 500}
  BY Codes DEF PingHandler, WordsHandler, StatusHandler, SearchHandler, LoginHandler,
               Handle, ReadStats, StatsFail, Respond, Goto, CallInv, IsMap
<1>4. CallOf(r)'
  BY <1>2, <1>3 DEF CallOf
<1>. QED
  BY <1>1, <1>4, OneRequestMoves

(* the service decides, the caller gives up, the answer arrives *)
LEMMA UpdateCalls ==
  ASSUME CallInv, NEW r \in Requests,
         CallUpdate(r) \/ CallDrop(r) \/ CallCancelled(r) \/ AnswerArrives(r)
  PROVE  CallInv'
<1>1. CallOf(r) /\ endpoint' = endpoint /\ reads' = reads
  BY DEF CallInv, CallUpdate, CallDrop, CallCancelled, AnswerArrives, call
<1>2. CASE AnswerArrives(r)
  <2>1. Touches(r)
    BY <1>2 DEF AnswerArrives, Respond, Goto, call, world, CallInv, Touches, Untouched, IsMap
  <2>2. /\ pc[r] = "back" /\ pc'[r] = "done" /\ status'[r] = CodeOf(outcome[r])
        /\ owner' = owner /\ outcome' = outcome
    BY <1>2 DEF AnswerArrives, Respond, Goto, call, world, CallInv, IsMap
  <2>3. CallOf(r)'
    BY <1>1, <2>2, Codes DEF CallOf, UpdateCall, Told
  <2>. QED
    BY <2>1, <2>3, OneRequestMoves
<1>3. CASE CallUpdate(r) \/ CallDrop(r) \/ CallCancelled(r)
  <2>1. Touches(r)
    BY <1>3, OwnerAssumption
       DEF CallUpdate, CallDrop, CallCancelled, Decide, CallInv, CallOf, Touches, Untouched, IsMap
  <2>2. /\ status' = status /\ pc[r] \in {"call", "run", "back"}
        /\ \/ pc'[r] = "run" /\ owner' = r /\ outcome' = outcome
           \/ /\ pc'[r] = "back" /\ owner' # r
              /\ outcome'[r] \in {"refused", "ok", "error"}
    BY <1>1, <1>3, OwnerAssumption
       DEF CallUpdate, CallDrop, CallCancelled, Decide, CallInv, CallOf, IsMap
  <2>3. CallOf(r)'
    BY <1>1, <2>2 DEF CallOf, UpdateCall, Told
  <2>. QED
    BY <2>1, <2>3, OneRequestMoves
<1>. QED
  BY <1>2, <1>3

(* a run ends for the request that waits for it, or for none *)
LEMMA RunEndsForOne ==
  ASSUME CallInv, RunEnds
  PROVE  CallInv'
<1>1. CASE owner \in Requests
  <2>. PICK r \in Requests : r = owner
    BY <1>1
  <2>1. /\ CallOf(r) /\ pc[r] = "run" /\ owner' = Nobody
        /\ UNCHANGED <<endpoint, status, reads>>
        /\ \E o \in {"ok", "error"} : Decide(r, o)
    BY <1>1, OwnerAssumption DEF RunEnds, CallInv, CallOf
  <2>2. Touches(r)
    BY <1>1, <2>1, OwnerAssumption DEF Decide, CallInv, Touches, Untouched, IsMap
  <2>3. pc'[r] = "back" /\ outcome'[r] \in {"ok", "error"} /\ owner' # r
    BY <1>1, <2>1, OwnerAssumption DEF Decide, CallInv, IsMap
  <2>4. CallOf(r)'
    BY <2>1, <2>3 DEF CallOf, UpdateCall, Told
  <2>. QED
    BY <2>2, <2>4, OneRequestMoves
<1>2. CASE owner \notin Requests
  <2>1. UNCHANGED <<pc, endpoint, status, outcome, reads>> /\ owner' = Nobody
    BY <1>2 DEF RunEnds, CallInv
  <2>2. \A r \in Requests : Untouched(r)
    BY <1>2, <2>1, OwnerAssumption DEF Untouched
  <2>. QED
    BY <2>1, <2>2, UntouchedKeeps DEF CallInv, IsMap
<1>. QED
  BY <1>1, <1>2

LEMMA RequestEnds ==
  ASSUME CallInv, NEW r \in Requests, Finish(r)
  PROVE  CallInv'
<1>1. Touches(r)
  BY DEF Finish, Goto, world, CallInv, Touches, Untouched, IsMap
<1>2. /\ CallOf(r) /\ owner' = owner /\ pc[r] = "done" /\ pc'[r] = "idle"
      /\ endpoint'[r] = "ping" /\ status'[r] = 0 /\ outcome'[r] = "none" /\ reads'[r] = <<>>
  BY DEF Finish, Goto, world, CallInv, IsMap
<1>3. CallOf(r)'
  BY <1>2 DEF CallOf, Endpoints
<1>. QED
  BY <1>1, <1>3, OneRequestMoves

LEMMA DeathEndsCalls ==
  ASSUME CallInv, Dies
  PROVE  CallInv'
<1>1. owner' \in {Nobody, Orphan}
  BY DEF Dies, CallInv
<1>2. IsMap(pc)' /\ IsMap(endpoint)' /\ IsMap(status)' /\ IsMap(outcome)' /\ IsMap(reads)'
  BY DEF Dies, IsMap
<1>3. \A r \in Requests : CallOf(r)'
  BY <1>1, OwnerAssumption DEF Dies, CallOf, Endpoints
<1>. QED
  BY <1>1, <1>2, <1>3 DEF CallInv

LEMMA CallInvariant == CallInv /\ [Next]_vars => CallInv'
<1>. SUFFICES ASSUME CallInv, [Next]_vars PROVE CallInv'
  OBVIOUS
<1>1. ASSUME UNCHANGED <<pc, endpoint, status, outcome, reads, owner>> PROVE CallInv'
  BY <1>1, UntouchedKeeps DEF CallInv, IsMap, Untouched
<1>2. CASE Boot \/ ListenReturns \/ StopSearch \/ Draining \/ StopSearchReturns
           \/ StoreComic \/ NewComic \/ UNCHANGED vars
  BY <1>1, <1>2 DEF Boot, ListenReturns, StopSearch, Draining, StopSearchReturns,
                    StoreComic, NewComic, vars, call, world
<1>3. CASE Crash \/ Exit
  BY <1>3, DeathEndsCalls DEF Crash, Exit
<1>4. ASSUME NEW r \in Requests, Send(r) \/ HandlerStep(r) \/ TaskStep(r) \/ CallCancelled(r)
      PROVE  CallInv'
  <2>1. CASE TaskStep(r) \/ HandlerRan(r)
    BY <1>1, <2>1 DEF TaskStep, HandlerRan, call, world
  <2>. QED
    BY <1>4, <2>1, WaysIn, OtherCalls, UpdateCalls, RequestEnds DEF HandlerStep
<1>. QED
  BY <1>2, <1>3, <1>4, RunEndsForOne DEF Next, MainStep

(***************************************************************************)
(* The invariant and the theorems                                          *)
(***************************************************************************)
IInv == LimiterInv /\ StatsInv /\ CallInv

LEMMA InitIInv == Init => IInv
<1>. SUFFICES ASSUME Init PROVE IInv
  OBVIOUS
<1>1. LimiterInv
  BY LimiterStarts DEF Init, LimiterInv, DrainInv, Limiter!Init
<1>2. StatsInv
  BY MaxIDAssumption DEF Init, NoRequests, StatsInv, Readable
<1>3. CallInv
  BY OwnerAssumption DEF Init, NoRequests, CallInv, CallOf, IsMap, Endpoints
<1>. QED
  BY <1>1, <1>2, <1>3 DEF IInv

LEMMA IInvariant == Spec => []IInv
<1>1. IInv /\ [Next]_vars => IInv'
  BY LimiterInvariant, StatsInvariant, CallInvariant DEF IInv
<1>. QED
  BY <1>1, InitIInv, PTL DEF Spec

(* Every variable keeps its type: the table never holds more comics than     *)
(* upstream has, and Stats answers with four numbers in their ranges.        *)
THEOREM TypeCorrect == Spec => []TypeOK
<1>1. IInv => TypeOK
  <2>. SUFFICES ASSUME IInv PROVE TypeOK
    OBVIOUS
  <2>1. Limiter!TypeOK
    BY DEF IInv, LimiterInv, Proved!IInv, Proved!TypeOK, Limiter!TypeOK
  <2>2. /\ pc \in [Requests -> {"idle", "enter", "limited", "check", "call", "run", "back", "done"}]
        /\ endpoint \in [Requests -> Endpoints]
        /\ status \in [Requests -> {0, 200, 202, 400, 401, 500, 503}]
        /\ outcome \in [Requests -> {"none", "refused", "ok", "error"}]
    BY DEF IInv, CallInv, CallOf, IsMap
  <2>3. /\ owner \in Requests \cup {Nobody, Orphan}
        /\ \A r \in Requests : pc[r] = "idle" => status[r] = 0 /\ reads[r] = <<>>
    BY DEF IInv, CallInv, CallOf
  <2>4. /\ newest \in 0 .. MaxID /\ rows \in 0 .. newest /\ calm \in [Requests -> BOOLEAN]
        /\ \A r \in Requests : reads[r] \in Seq(-1 .. MaxID) /\ Len(reads[r]) <= 4
    BY DEF IInv, StatsInv, Readable
  <2>. QED
    BY <2>1, <2>2, <2>3, <2>4 DEF IInv, LimiterInv, DrainInv, TypeOK
<1>. QED
  BY <1>1, IInvariant, PTL

(* Main goes on to exit only after every search accepted before Stop. *)
THEOREM SearchesAreWaitedFor == Spec => []SearchesOutliveStop
<1>1. IInv => SearchesOutliveStop
  BY DEF IInv, LimiterInv, DrainInv, SearchesOutliveStop
<1>. QED
  BY <1>1, IInvariant, PTL

(* The status of POST /api/db/update tells what became of the update. *)
THEOREM OutcomeIsTold == Spec => []UpdateOutcomeTold
<1>1. IInv => UpdateOutcomeTold
  BY DEF IInv, CallInv, CallOf, UpdateCall, Told, UpdateOutcomeTold
<1>. QED
  BY <1>1, IInvariant, PTL

(* No answer of Stats claims more comics than there are. *)
THEOREM StatsAreOrdered == Spec => []StatsInOrder
<1>1. IInv => StatsInOrder
  BY DEF IInv, StatsInv, Readable, StatsInOrder
<1>. QED
  BY <1>1, IInvariant, PTL
=============================================================================

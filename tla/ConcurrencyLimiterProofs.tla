---------------------- MODULE ConcurrencyLimiterProofs ----------------------
(***************************************************************************)
(* Proofs about ConcurrencyLimiter for any number of requests and drainers *)
(* and any limit.  The count in the channel is the number of holders, so   *)
(* no more than Limit tasks run, and a drainer that holds every place      *)
(* leaves none for a task.                                                 *)
(***************************************************************************)
EXTENDS ConcurrencyLimiter, FiniteSetTheorems, TLAPS

(***************************************************************************)
(* Lemmas about the set of holders                                         *)
(***************************************************************************)
(* an element in, one out: the size stays *)
LEMMA SwapOne ==
  ASSUME NEW S, IsFiniteSet(S), NEW x \in S, NEW y, y \notin S
  PROVE  IsFiniteSet((S \ {x}) \cup {y}) /\ Cardinality((S \ {x}) \cup {y}) = Cardinality(S)
<1>1. IsFiniteSet(S \ {x}) /\ Cardinality(S \ {x}) = Cardinality(S) - 1
  BY FS_RemoveElement
<1>2. Cardinality(S) \in Nat
  BY FS_CardinalityType
<1>3. /\ IsFiniteSet((S \ {x}) \cup {y})
      /\ Cardinality((S \ {x}) \cup {y}) = Cardinality(S \ {x}) + 1
  <2>1. y \notin S \ {x}
    OBVIOUS
  <2>. QED
    BY <1>1, <2>1, FS_AddElement
<1>. QED
  BY <1>1, <1>2, <1>3

(* a drainer's next send, and its last one *)
LEMMA SendsGrow ==
  ASSUME TypeOK, NEW d \in Drainers, taken[d] < Limit,
         taken' = [taken EXCEPT ![d] = @ + 1]
  PROVE  /\ Sends' = Sends \cup {<<d, taken[d] + 1>>}
         /\ <<d, taken[d] + 1>> \notin Sends
<1>1. taken[d] + 1 \in 1 .. Limit
  BY LimitAssumption DEF TypeOK
<1>2. \A e \in Drainers, k \in 1 .. Limit :
         k <= taken'[e] <=> k <= taken[e] \/ <<e, k>> = <<d, taken[d] + 1>>
  BY LimitAssumption DEF TypeOK
<1>. QED
  BY <1>1, <1>2 DEF Sends, TypeOK

LEMMA SendsShrink ==
  ASSUME TypeOK, NEW d \in Drainers, taken[d] > 0,
         taken' = [taken EXCEPT ![d] = @ - 1]
  PROVE  /\ Sends' = Sends \ {<<d, taken[d]>>}
         /\ <<d, taken[d]>> \in Sends
<1>1. taken[d] \in 1 .. Limit
  BY LimitAssumption DEF TypeOK
<1>2. \A e \in Drainers, k \in 1 .. Limit :
         k <= taken'[e] <=> k <= taken[e] /\ <<e, k>> # <<d, taken[d]>>
  BY LimitAssumption DEF TypeOK
<1>. QED
  BY <1>1, <1>2 DEF Sends

(* the hand-over from one drainer to another *)
LEMMA SendsMove ==
  ASSUME TypeOK, NEW d \in Drainers, NEW h \in Drainers, d # h,
         taken[d] > 0, taken[h] < Limit,
         taken' = [taken EXCEPT ![d] = @ - 1, ![h] = @ + 1]
  PROVE  /\ Sends' = (Sends \ {<<d, taken[d]>>}) \cup {<<h, taken[h] + 1>>}
         /\ <<d, taken[d]>> \in Sends
         /\ <<h, taken[h] + 1>> \notin Sends
<1>1. taken[d] \in 1 .. Limit /\ taken[h] + 1 \in 1 .. Limit
  BY LimitAssumption DEF TypeOK
<1>2. \A e \in Drainers, k \in 1 .. Limit :
         k <= taken'[e] <=>
            \/ k <= taken[e] /\ <<e, k>> # <<d, taken[d]>>
            \/ <<e, k>> = <<h, taken[h] + 1>>
  BY LimitAssumption DEF TypeOK
<1>. QED
  BY <1>1, <1>2 DEF Sends, TypeOK

(***************************************************************************)
(* The inductive invariant                                                 *)
(***************************************************************************)
(* a request that has been let to the select has no task yet *)
ReqInv == \A r \in Requests : req[r] = "admit" => task[r] = "none"

(* The parked drainers are those in the queue, each once, each with a send   *)
(* still to do.                                                              *)
ParkedInv ==
    /\ \A d \in Drainers : drain[d] = "parked" <=> \E k \in DOMAIN parked : parked[k] = d
    /\ \A k, l \in DOMAIN parked : parked[k] = parked[l] => k = l
    /\ \A d \in Drainers : drain[d] = "parked" => taken[d] < Limit

PlacesInv == IsFiniteSet(Holders) /\ PlacesAccounted

(* what a drainer waits for is still running *)
OwedInv == \A d \in Drainers : owed[d] \subseteq Running

IInv == TypeOK /\ ReqInv /\ ParkedInv /\ PlacesInv /\ OwedInv /\ DrainCoversEarlier

LEMMA InitIInv == Init => IInv
<1>. SUFFICES ASSUME Init PROVE IInv
  OBVIOUS
<1>. USE LimitAssumption
<1>1. TypeOK
  <2>1. parked \in Seq(Drainers)
    BY DEF Init
  <2>2. semaphore \in 0 .. Limit /\ taken \in [Drainers -> 0 .. Limit]
    BY DEF Init
  <2>. QED
    BY <2>1, <2>2 DEF Init, TypeOK
<1>2. Holders = {}
  BY DEF Init, Holders, Running, Sends
<1>3. PlacesInv
  BY <1>2, FS_EmptySet DEF Init, PlacesInv, PlacesAccounted
<1>4. ReqInv /\ ParkedInv /\ OwedInv /\ DrainCoversEarlier
  BY DEF Init, ReqInv, ParkedInv, OwedInv, DrainCoversEarlier
<1>. QED
  BY <1>1, <1>3, <1>4 DEF IInv

(* the head of a non-empty queue is a drainer with a send to do; once it has *)
(* left, the rest of the queue is as it was                                  *)
LEMMA HeadParked ==
  ASSUME TypeOK, ParkedInv, parked # <<>>
  PROVE  /\ Head(parked) \in Drainers
         /\ drain[Head(parked)] = "parked"
         /\ taken[Head(parked)] < Limit
         /\ Tail(parked) \in Seq(Drainers)
         /\ \A d \in Drainers : (\E k \in DOMAIN Tail(parked) : Tail(parked)[k] = d)
                                <=> drain[d] = "parked" /\ d # Head(parked)
         /\ \A k, l \in DOMAIN Tail(parked) : Tail(parked)[k] = Tail(parked)[l] => k = l
<1>1. parked \in Seq(Drainers) /\ Len(parked) \in Nat /\ Len(parked) >= 1
  BY DEF TypeOK
<1>2. /\ Head(parked) = parked[1]
      /\ Tail(parked) \in Seq(Drainers)
      /\ DOMAIN Tail(parked) = 1 .. Len(parked) - 1
      /\ DOMAIN parked = 1 .. Len(parked)
      /\ \A k \in 1 .. Len(parked) - 1 : Tail(parked)[k] = parked[k + 1]
  BY <1>1
<1>3. Head(parked) \in Drainers /\ drain[Head(parked)] = "parked"
  BY <1>1, <1>2 DEF ParkedInv
<1>4. \A k, l \in DOMAIN Tail(parked) : Tail(parked)[k] = Tail(parked)[l] => k = l
  BY <1>1, <1>2 DEF ParkedInv
<1>5. ASSUME NEW d \in Drainers
      PROVE  (\E k \in DOMAIN Tail(parked) : Tail(parked)[k] = d)
                <=> drain[d] = "parked" /\ d # Head(parked)
  <2>1. ASSUME NEW k \in DOMAIN Tail(parked), Tail(parked)[k] = d
        PROVE  drain[d] = "parked" /\ d # Head(parked)
    BY <1>1, <1>2, <2>1 DEF ParkedInv
  <2>2. ASSUME drain[d] = "parked", d # Head(parked)
        PROVE  \E k \in DOMAIN Tail(parked) : Tail(parked)[k] = d
    <3>1. PICK k \in 1 .. Len(parked) : parked[k] = d
      BY <1>2, <2>2 DEF ParkedInv
    <3>2. k - 1 \in 1 .. Len(parked) - 1 /\ Tail(parked)[k - 1] = d
      BY <1>1, <1>2, <2>2, <3>1
    <3>. QED
      BY <1>2, <3>2
  <2>. QED
    BY <2>1, <2>2
<1>. QED
  BY <1>2, <1>3, <1>4, <1>5 DEF ParkedInv

(***************************************************************************)
(* Each action preserves the invariant                                     *)
(***************************************************************************)
(* steps that move a request or a task without touching a place *)
LEMMA QuietRequestStep ==
  ASSUME IInv, NEW r \in Requests, Arrive(r) \/ Serve(r) \/ Hand(r) \/ Answer(r)
  PROVE  IInv'
<1>1. UNCHANGED <<semaphore, parked, drain, taken, owed>>
  BY DEF Arrive, Serve, Hand, Answer
<1>2. TypeOK'
  BY <1>1 DEF IInv, TypeOK, Arrive, Serve, Hand, Answer
<1>3. Running' = Running
  BY DEF IInv, TypeOK, Running, Arrive, Serve, Hand, Answer
<1>4. ReqInv'
  BY DEF IInv, TypeOK, ReqInv, Arrive, Serve, Hand, Answer
<1>5. ParkedInv'
  BY <1>1 DEF IInv, ParkedInv
<1>6. PlacesInv'
  BY <1>1, <1>3 DEF IInv, PlacesInv, PlacesAccounted, Holders, Sends
<1>7. OwedInv' /\ DrainCoversEarlier'
  BY <1>1, <1>3 DEF IInv, OwedInv, DrainCoversEarlier
<1>. QED
  BY <1>2, <1>4, <1>5, <1>6, <1>7 DEF IInv

(* a task that starts adds a holder, one that ends takes one away *)
LEMMA TaskStarts ==
  ASSUME NEW r \in Requests, task \in [Requests -> {"none", "serving", "handing", "releasing"}],
         task[r] = "none", task' = [task EXCEPT ![r] = "serving"], UNCHANGED taken
  PROVE  /\ Running' = Running \cup {r}
         /\ Holders' = Holders \cup {<<r, 0>>}
         /\ <<r, 0>> \notin Holders
<1>1. Running' = Running \cup {r} /\ r \notin Running
  BY DEF Running
<1>2. Sends' = Sends /\ <<r, 0>> \notin Sends
  BY LimitAssumption DEF Sends
<1>. QED
  BY <1>1, <1>2 DEF Holders

LEMMA TaskEnds ==
  ASSUME NEW r \in Requests, task \in [Requests -> {"none", "serving", "handing", "releasing"}],
         task[r] # "none", task' = [task EXCEPT ![r] = "none"]
  PROVE  /\ Running' = Running \ {r}
         /\ Running' \X {0} = (Running \X {0}) \ {<<r, 0>>}
         /\ <<r, 0>> \in Holders /\ <<r, 0>> \notin Sends
<1>1. Running' = Running \ {r} /\ r \in Running
  BY DEF Running
<1>2. <<r, 0>> \notin Sends
  BY LimitAssumption DEF Sends
<1>. QED
  BY <1>1, <1>2 DEF Holders

LEMMA SubmitStep ==
  ASSUME IInv, NEW r \in Requests, Submit(r)
  PROVE  IInv'
<1>. USE LimitAssumption
<1>1. CASE semaphore = Limit
  <2>1. UNCHANGED <<semaphore, parked, task, drain, taken, owed>>
    BY <1>1 DEF Submit, IInv, TypeOK
  <2>2. TypeOK' /\ ReqInv'
    BY <2>1 DEF Submit, IInv, TypeOK, ReqInv
  <2>. QED
    BY <2>1, <2>2 DEF IInv, ParkedInv, PlacesInv, PlacesAccounted, Holders, Sends, Running,
                      OwedInv, DrainCoversEarlier
<1>2. CASE semaphore # Limit
  <2>1. /\ task[r] = "none"
        /\ semaphore' = semaphore + 1
        /\ task' = [task EXCEPT ![r] = "serving"]
        /\ req' = [req EXCEPT ![r] = "await"]
        /\ UNCHANGED <<stopped, parked, drain, taken, owed>>
    BY <1>2 DEF Submit, IInv, ReqInv
  <2>2. /\ Running' = Running \cup {r}
        /\ Holders' = Holders \cup {<<r, 0>>}
        /\ <<r, 0>> \notin Holders
    BY <2>1, TaskStarts DEF IInv, TypeOK
  <2>3. TypeOK'
    BY <1>2, <2>1 DEF IInv, TypeOK
  <2>4. ReqInv'
    BY <2>1 DEF IInv, TypeOK, ReqInv
  <2>5. PlacesInv'
    <3>1. parked = <<>>
      BY <1>2 DEF IInv, PlacesInv, PlacesAccounted
    <3>2. IsFiniteSet(Holders') /\ Cardinality(Holders') = Cardinality(Holders) + 1
      BY <2>2, FS_AddElement DEF IInv, PlacesInv
    <3>. QED
      BY <2>1, <3>1, <3>2 DEF IInv, PlacesInv, PlacesAccounted
  <2>6. ParkedInv' /\ OwedInv' /\ DrainCoversEarlier'
    BY <2>1, <2>2 DEF IInv, ParkedInv, OwedInv, DrainCoversEarlier
  <2>. QED
    BY <2>3, <2>4, <2>5, <2>6 DEF IInv
<1>. QED
  BY <1>1, <1>2

(* the queue moves up: who leaves it goes back to its loop *)
LEMMA QueueMoves ==
  ASSUME TypeOK, ParkedInv, parked # <<>>, parked' = Tail(parked),
         drain' = [drain EXCEPT ![Head(parked)] = "acquire"],
         \A d \in Drainers : d # Head(parked) => taken'[d] <= taken[d]
  PROVE  /\ parked' \in Seq(Drainers)
         /\ drain' \in [Drainers -> {"idle", "acquire", "parked", "release"}]
         /\ (taken' \in [Drainers -> 0 .. Limit] => ParkedInv')
<1>1. parked' \in Seq(Drainers)
  BY HeadParked
<1>2. drain' \in [Drainers -> {"idle", "acquire", "parked", "release"}]
  BY HeadParked DEF TypeOK
<1>3. ASSUME taken' \in [Drainers -> 0 .. Limit] PROVE ParkedInv'
  <2>1. \A d \in Drainers : drain'[d] = "parked" <=> drain[d] = "parked" /\ d # Head(parked)
    BY HeadParked DEF TypeOK
  <2>2. \A d \in Drainers : drain'[d] = "parked" => taken'[d] < Limit
    <3>1. ASSUME NEW d \in Drainers, drain'[d] = "parked" PROVE taken'[d] < Limit
      <4>1. taken'[d] <= taken[d] /\ taken[d] < Limit
        BY <2>1, <3>1 DEF ParkedInv
      <4>2. taken'[d] \in 0 .. Limit
        BY <1>3, <3>1
      <4>3. taken[d] \in 0 .. Limit
        BY <3>1 DEF TypeOK
      <4>. QED
        BY <4>1, <4>2, <4>3, LimitAssumption
    <3>. QED
      BY <3>1
  <2>. QED
    BY <2>1, <2>2, HeadParked DEF ParkedInv
<1>. QED
  BY <1>1, <1>2, <1>3

LEMMA ReleaseStep ==
  ASSUME IInv, NEW r \in Requests, Release(r)
  PROVE  IInv'
<1>. USE LimitAssumption
<1>1. /\ Running' = Running \ {r}
      /\ Running' \X {0} = (Running \X {0}) \ {<<r, 0>>}
      /\ <<r, 0>> \in Holders /\ <<r, 0>> \notin Sends
  BY TaskEnds DEF IInv, TypeOK, Release
<1>2. ReqInv' /\ OwedInv'
  BY <1>1 DEF IInv, TypeOK, Release, ReqInv, OwedInv
<1>3. task' \in [Requests -> {"none", "serving", "handing", "releasing"}]
      /\ owed' \in [Drainers -> SUBSET Requests]
      /\ UNCHANGED <<stopped, req>>
  BY DEF IInv, TypeOK, Release
<1>4. Cardinality(Holders) \in Nat /\ Cardinality(Holders) >= 1
  <2>1. Cardinality(Holders) # 0 /\ Cardinality(Holders) \in Nat
    BY <1>1, FS_EmptySet, FS_CardinalityType DEF IInv, PlacesInv
  <2>. QED
    BY <2>1
<1>5. CASE parked = <<>>
  <2>1. semaphore' = semaphore - 1 /\ UNCHANGED <<parked, drain, taken>>
    BY <1>5 DEF Release, Receive
  <2>2. Holders' = Holders \ {<<r, 0>>}
    BY <1>1, <2>1 DEF Holders, Sends
  <2>3. PlacesInv'
    <3>1. IsFiniteSet(Holders') /\ Cardinality(Holders') = Cardinality(Holders) - 1
      BY <1>1, <2>2, FS_RemoveElement DEF IInv, PlacesInv
    <3>. QED
      BY <1>5, <2>1, <3>1 DEF IInv, PlacesInv, PlacesAccounted
  <2>4. TypeOK'
    BY <1>3, <1>4, <2>1 DEF IInv, TypeOK, PlacesInv, PlacesAccounted
  <2>5. ParkedInv' /\ DrainCoversEarlier'
    BY <2>1 DEF IInv, ParkedInv, DrainCoversEarlier, Release
  <2>. QED
    BY <1>2, <2>3, <2>4, <2>5 DEF IInv
<1>6. CASE parked # <<>>
  <2>. DEFINE h == Head(parked)
  <2>1. /\ parked' = Tail(parked)
        /\ drain' = [drain EXCEPT ![h] = "acquire"]
        /\ taken' = [taken EXCEPT ![h] = @ + 1]
        /\ semaphore' = semaphore
    BY <1>6 DEF Release, Receive
  <2>2. h \in Drainers /\ taken[h] < Limit
    BY <1>6, HeadParked DEF IInv
  <2>3. Sends' = Sends \cup {<<h, taken[h] + 1>>} /\ <<h, taken[h] + 1>> \notin Sends
    BY <2>1, <2>2, SendsGrow DEF IInv
  <2>4. /\ Holders' = (Holders \ {<<r, 0>>}) \cup {<<h, taken[h] + 1>>}
        /\ <<h, taken[h] + 1>> \notin Holders
    <3>1. taken[h] + 1 # 0
      BY <2>2 DEF IInv, TypeOK
    <3>. QED
      BY <1>1, <2>3, <3>1 DEF Holders
  <2>5. PlacesInv'
    <3>1. IsFiniteSet(Holders') /\ Cardinality(Holders') = Cardinality(Holders)
      BY <1>1, <2>4, SwapOne DEF IInv, PlacesInv
    <3>. QED
      BY <1>6, <2>1, <3>1 DEF IInv, PlacesInv, PlacesAccounted
  <2>6. taken' \in [Drainers -> 0 .. Limit]
    BY <2>1, <2>2 DEF IInv, TypeOK
  <2>7. \A d \in Drainers : d # h => taken'[d] <= taken[d]
    BY <2>1 DEF IInv, TypeOK
  <2>8. TypeOK' /\ ParkedInv'
    <3>. HIDE DEF h
    <3>1. parked' \in Seq(Drainers) /\ ParkedInv'
          /\ drain' \in [Drainers -> {"idle", "acquire", "parked", "release"}]
      BY <1>6, <2>1, <2>6, <2>7, QueueMoves DEF IInv, h
    <3>. QED
      BY <1>3, <2>1, <2>6, <3>1 DEF IInv, TypeOK
  <2>9. DrainCoversEarlier'
    BY <2>1, <2>2 DEF IInv, TypeOK, DrainCoversEarlier, Release
  <2>. QED
    BY <1>2, <2>5, <2>8, <2>9 DEF IInv
<1>. QED
  BY <1>5, <1>6

LEMMA BeginWaitStep ==
  ASSUME IInv, NEW d \in Drainers, Stop(d) \/ Wait(d)
  PROVE  IInv'
<1>1. BeginWait(d) /\ stopped' \in BOOLEAN
  BY DEF Stop, Wait, IInv, TypeOK
<1>2. UNCHANGED <<semaphore, parked, req, task, taken>> /\ Running' = Running
  BY <1>1 DEF BeginWait, Running
<1>3. /\ drain' = [drain EXCEPT ![d] = "acquire"]
      /\ owed' = [owed EXCEPT ![d] = Running]
      /\ drain[d] = "idle"
  BY <1>1 DEF BeginWait
<1>4. TypeOK'
  BY <1>1, <1>2, <1>3 DEF IInv, TypeOK, Running
<1>5. ParkedInv'
  BY <1>2, <1>3 DEF IInv, TypeOK, ParkedInv
<1>6. PlacesInv' /\ ReqInv'
  BY <1>2 DEF IInv, PlacesInv, PlacesAccounted, Holders, Sends, ReqInv
<1>7. OwedInv' /\ DrainCoversEarlier'
  BY <1>2, <1>3 DEF IInv, TypeOK, OwedInv, DrainCoversEarlier
<1>. QED
  BY <1>4, <1>5, <1>6, <1>7 DEF IInv

(* a drainer that has done all its sends is alone in the channel *)
LEMMA FullDrainer ==
  ASSUME IInv, NEW d \in Drainers, taken[d] = Limit
  PROVE  Running = {}
<1>. USE LimitAssumption
<1>. DEFINE Own == {<<d, k>> : k \in 1 .. Limit}
            f == [k \in 1 .. Limit |-> <<d, k>>]
<1>1. Own \subseteq Sends
  BY DEF Sends
<1>2. IsFiniteSet(Holders) /\ Cardinality(Holders) <= Limit
  BY DEF IInv, PlacesInv, PlacesAccounted, TypeOK
<1>3. Own \in SUBSET Holders
  BY <1>1 DEF Holders
<1>4. IsFiniteSet(Own) /\ Cardinality(Own) <= Cardinality(Holders)
  BY <1>2, <1>3, FS_Subset
<1>5. f \in Injection(1 .. Limit, Own)
  BY DEF Injection, IsInjective
<1>6. Limit <= Cardinality(Own)
  <2>1. Cardinality(1 .. Limit) = Limit
    BY FS_Interval
  <2>2. Cardinality(1 .. Limit) <= Cardinality(Own)
    BY <1>4, <1>5, FS_Injection
  <2>. QED
    BY <2>1, <2>2
<1>7. Holders = Own
  <2>1. Cardinality(Own) \in Nat /\ Cardinality(Holders) \in Nat
    BY <1>2, <1>4, FS_CardinalityType
  <2>2. Cardinality(Holders) = Cardinality(Own)
    BY <1>2, <1>4, <1>6, <2>1
  <2>. QED
    BY <1>2, <1>3, <2>2, FS_Subset
<1>8. \A r \in Running : <<r, 0>> \in Holders
  BY DEF Holders
<1>9. \A r : <<r, 0>> \notin Own
  OBVIOUS
<1>. QED
  BY <1>7, <1>8, <1>9

LEMMA AcquireStep ==
  ASSUME IInv, NEW d \in Drainers, Acquire(d)
  PROVE  IInv'
<1>. USE LimitAssumption
<1>1. /\ UNCHANGED <<stopped, req, task, owed>>
      /\ Running' = Running
      /\ drain[d] = "acquire"
  BY DEF Acquire, Running
<1>2. ReqInv' /\ OwedInv'
  BY <1>1 DEF IInv, ReqInv, OwedInv
<1>3. CASE taken[d] < Limit /\ semaphore < Limit
  <2>1. /\ semaphore' = semaphore + 1
        /\ taken' = [taken EXCEPT ![d] = @ + 1]
        /\ UNCHANGED <<parked, drain>>
    BY <1>3 DEF Acquire, IInv, TypeOK
  <2>2. Sends' = Sends \cup {<<d, taken[d] + 1>>} /\ <<d, taken[d] + 1>> \notin Sends
    BY <1>3, <2>1, SendsGrow DEF IInv
  <2>3. Holders' = Holders \cup {<<d, taken[d] + 1>>} /\ <<d, taken[d] + 1>> \notin Holders
    <3>1. taken[d] + 1 # 0
      BY DEF IInv, TypeOK
    <3>. QED
      BY <1>1, <2>2, <3>1 DEF Holders
  <2>4. PlacesInv'
    <3>1. IsFiniteSet(Holders') /\ Cardinality(Holders') = Cardinality(Holders) + 1
      BY <2>3, FS_AddElement DEF IInv, PlacesInv
    <3>2. parked = <<>>
      BY <1>3 DEF IInv, PlacesInv, PlacesAccounted
    <3>. QED
      BY <2>1, <3>1, <3>2 DEF IInv, PlacesInv, PlacesAccounted
  <2>5. TypeOK'
    <3>1. semaphore' \in 0 .. Limit /\ taken' \in [Drainers -> 0 .. Limit]
      BY <1>3, <2>1 DEF IInv, TypeOK
    <3>. QED
      BY <1>1, <2>1, <3>1 DEF IInv, TypeOK
  <2>6. ParkedInv' /\ DrainCoversEarlier'
    BY <1>1, <2>1 DEF IInv, TypeOK, ParkedInv, DrainCoversEarlier
  <2>. QED
    BY <1>2, <2>4, <2>5, <2>6 DEF IInv
<1>4. CASE taken[d] < Limit /\ semaphore = Limit
  <2>1. /\ parked' = Append(parked, d)
        /\ drain' = [drain EXCEPT ![d] = "parked"]
        /\ UNCHANGED <<semaphore, taken>>
    BY <1>4 DEF Acquire, IInv, TypeOK
  <2>2. TypeOK'
    BY <1>1, <2>1 DEF IInv, TypeOK
  <2>3. PlacesInv' /\ DrainCoversEarlier'
    BY <1>1, <1>4, <2>1 DEF IInv, TypeOK, PlacesInv, PlacesAccounted, Holders, Sends,
                            DrainCoversEarlier
  <2>4. ParkedInv'
    <3>1. /\ DOMAIN parked' = 1 .. Len(parked) + 1
          /\ DOMAIN parked = 1 .. Len(parked)
          /\ Len(parked) \in Nat
          /\ parked'[Len(parked) + 1] = d
          /\ \A k \in DOMAIN parked : parked'[k] = parked[k]
      BY <2>1 DEF IInv, TypeOK
    <3>2. \A k \in DOMAIN parked : parked[k] # d
      BY <1>1 DEF IInv, ParkedInv
    <3>3. \A k, l \in DOMAIN parked' : parked'[k] = parked'[l] => k = l
      BY <3>1, <3>2 DEF IInv, ParkedInv
    <3>4. \A e \in Drainers : drain'[e] = "parked" <=> \E k \in DOMAIN parked' : parked'[k] = e
      <4>1. ASSUME NEW e \in Drainers, e # d
            PROVE  drain'[e] = "parked" <=> \E k \in DOMAIN parked' : parked'[k] = e
        BY <2>1, <3>1, <4>1 DEF IInv, TypeOK, ParkedInv
      <4>2. drain'[d] = "parked"
        BY <2>1 DEF IInv, TypeOK
      <4>3. Len(parked) + 1 \in DOMAIN parked' /\ parked'[Len(parked) + 1] = d
        BY <3>1
      <4>. QED
        BY <4>1, <4>2, <4>3
    <3>. QED
      BY <1>4, <2>1, <3>3, <3>4 DEF IInv, TypeOK, ParkedInv
  <2>. QED
    BY <1>2, <2>2, <2>3, <2>4 DEF IInv
<1>5. CASE taken[d] = Limit
  <2>1. drain' = [drain EXCEPT ![d] = "release"] /\ UNCHANGED <<semaphore, parked, taken>>
    BY <1>5 DEF Acquire
  <2>2. owed[d] = {}
    BY <1>5, FullDrainer DEF IInv, OwedInv
  <2>3. TypeOK' /\ DrainCoversEarlier'
    BY <1>1, <2>1, <2>2 DEF IInv, TypeOK, DrainCoversEarlier
  <2>4. PlacesInv' /\ ParkedInv'
    BY <1>1, <2>1 DEF IInv, TypeOK, PlacesInv, PlacesAccounted, Holders, Sends, ParkedInv
  <2>. QED
    BY <1>2, <2>3, <2>4 DEF IInv
<1>. QED
  BY <1>3, <1>4, <1>5 DEF Acquire

LEMMA FreeStep ==
  ASSUME IInv, NEW d \in Drainers, Free(d)
  PROVE  IInv'
<1>. USE LimitAssumption
<1>1. /\ UNCHANGED <<stopped, req, task, owed>>
      /\ Running' = Running
      /\ drain[d] = "release"
  BY DEF Free, Running
<1>2. ReqInv' /\ OwedInv'
  BY <1>1 DEF IInv, ReqInv, OwedInv
<1>3. CASE taken[d] > 0 /\ parked = <<>>
  <2>1. /\ semaphore' = semaphore - 1
        /\ taken' = [taken EXCEPT ![d] = @ - 1]
        /\ UNCHANGED <<parked, drain>>
    BY <1>3 DEF Free, IInv, TypeOK
  <2>2. Sends' = Sends \ {<<d, taken[d]>>} /\ <<d, taken[d]>> \in Sends
    BY <1>3, <2>1, SendsShrink DEF IInv
  <2>3. Holders' = Holders \ {<<d, taken[d]>>} /\ <<d, taken[d]>> \in Holders
    <3>1. taken[d] # 0
      BY <1>3 DEF IInv, TypeOK
    <3>. QED
      BY <1>1, <2>2, <3>1 DEF Holders
  <2>4. /\ IsFiniteSet(Holders') /\ Cardinality(Holders') = Cardinality(Holders) - 1
        /\ Cardinality(Holders) \in Nat /\ Cardinality(Holders) # 0
    BY <2>3, FS_RemoveElement, FS_CardinalityType, FS_EmptySet DEF IInv, PlacesInv
  <2>5. PlacesInv'
    BY <1>3, <2>1, <2>4 DEF IInv, PlacesInv, PlacesAccounted
  <2>6. TypeOK'
    <3>1. semaphore' \in 0 .. Limit
      BY <2>1, <2>4 DEF IInv, TypeOK, PlacesInv, PlacesAccounted
    <3>2. taken' \in [Drainers -> 0 .. Limit]
      BY <1>3, <2>1 DEF IInv, TypeOK
    <3>. QED
      BY <1>1, <2>1, <3>1, <3>2 DEF IInv, TypeOK
  <2>7. ParkedInv' /\ DrainCoversEarlier'
    BY <1>1, <2>1 DEF IInv, TypeOK, ParkedInv, DrainCoversEarlier
  <2>. QED
    BY <1>2, <2>5, <2>6, <2>7 DEF IInv
<1>4. CASE taken[d] > 0 /\ parked # <<>>
  <2>. DEFINE h == Head(parked)
  <2>1. /\ parked' = Tail(parked)
        /\ drain' = [drain EXCEPT ![h] = "acquire"]
        /\ taken' = [taken EXCEPT ![d] = @ - 1, ![h] = @ + 1]
        /\ semaphore' = semaphore
    BY <1>4 DEF Free, IInv, TypeOK
  <2>2. h \in Drainers /\ taken[h] < Limit /\ h # d
    BY <1>1, <1>4, HeadParked DEF IInv
  <2>3. /\ Sends' = (Sends \ {<<d, taken[d]>>}) \cup {<<h, taken[h] + 1>>}
        /\ <<d, taken[d]>> \in Sends /\ <<h, taken[h] + 1>> \notin Sends
    BY <1>4, <2>1, <2>2, SendsMove DEF IInv
  <2>4. /\ Holders' = (Holders \ {<<d, taken[d]>>}) \cup {<<h, taken[h] + 1>>}
        /\ <<d, taken[d]>> \in Holders /\ <<h, taken[h] + 1>> \notin Holders
    <3>1. taken[h] + 1 # 0 /\ taken[d] # 0
      BY <1>4, <2>2 DEF IInv, TypeOK
    <3>. QED
      BY <1>1, <2>3, <3>1 DEF Holders
  <2>5. PlacesInv'
    <3>1. IsFiniteSet(Holders') /\ Cardinality(Holders') = Cardinality(Holders)
      BY <2>4, SwapOne DEF IInv, PlacesInv
    <3>. QED
      BY <1>4, <2>1, <3>1 DEF IInv, PlacesInv, PlacesAccounted
  <2>6. taken' \in [Drainers -> 0 .. Limit]
    BY <1>4, <2>1, <2>2 DEF IInv, TypeOK
  <2>7. ASSUME NEW e \in Drainers, e # h PROVE taken'[e] <= taken[e]
    <3>. HIDE DEF h
    <3>1. taken[e] \in Nat
      BY DEF IInv, TypeOK
    <3>2. CASE e = d
      BY <2>1, <2>7, <3>1, <3>2 DEF IInv, TypeOK
    <3>3. CASE e # d
      BY <2>1, <2>7, <3>1, <3>3 DEF IInv, TypeOK
    <3>. QED
      BY <3>2, <3>3
  <2>8. TypeOK' /\ ParkedInv'
    <3>. HIDE DEF h
    <3>1. parked' \in Seq(Drainers) /\ ParkedInv'
          /\ drain' \in [Drainers -> {"idle", "acquire", "parked", "release"}]
      BY <1>4, <2>1, <2>6, <2>7, QueueMoves DEF IInv, h
    <3>. QED
      BY <1>1, <2>1, <2>6, <3>1 DEF IInv, TypeOK
  <2>9. DrainCoversEarlier'
    BY <1>1, <2>1, <2>2 DEF IInv, TypeOK, DrainCoversEarlier
  <2>. QED
    BY <1>2, <2>5, <2>8, <2>9 DEF IInv
<1>5. CASE taken[d] = 0
  <2>1. drain' = [drain EXCEPT ![d] = "idle"] /\ UNCHANGED <<semaphore, parked, taken>>
    BY <1>5 DEF Free
  <2>2. TypeOK' /\ DrainCoversEarlier'
    BY <1>1, <2>1 DEF IInv, TypeOK, DrainCoversEarlier
  <2>3. PlacesInv' /\ ParkedInv'
    BY <1>1, <2>1 DEF IInv, TypeOK, PlacesInv, PlacesAccounted, Holders, Sends, ParkedInv
  <2>. QED
    BY <1>2, <2>2, <2>3 DEF IInv
<1>. QED
  BY <1>3, <1>4, <1>5 DEF Free

LEMMA NextIInv == IInv /\ [Next]_vars => IInv'
<1>. SUFFICES ASSUME IInv, [Next]_vars PROVE IInv'
  OBVIOUS
<1>1. CASE Start \/ UNCHANGED vars
  <2>1. stopped' \in BOOLEAN /\ UNCHANGED <<semaphore, parked, req, task, drain, taken, owed>>
    BY <1>1 DEF Start, vars, IInv, TypeOK
  <2>2. TypeOK'
    BY <2>1 DEF IInv, TypeOK
  <2>3. PlacesInv' /\ OwedInv'
    BY <2>1 DEF IInv, PlacesInv, PlacesAccounted, Holders, Sends, Running, OwedInv
  <2>4. ReqInv' /\ ParkedInv' /\ DrainCoversEarlier'
    BY <2>1 DEF IInv, ReqInv, ParkedInv, DrainCoversEarlier
  <2>. QED
    BY <2>2, <2>3, <2>4 DEF IInv
<1>2. ASSUME NEW r \in Requests, Arrive(r) \/ RequestStep(r) \/ Release(r) PROVE IInv'
  BY <1>2, QuietRequestStep, SubmitStep, ReleaseStep DEF RequestStep
<1>3. ASSUME NEW d \in Drainers, Stop(d) \/ Wait(d) \/ DrainStep(d) PROVE IInv'
  BY <1>3, BeginWaitStep, AcquireStep, FreeStep DEF DrainStep
<1>. QED
  BY <1>1, <1>2, <1>3 DEF Next

LEMMA IInvariant == Spec => []IInv
<1>. QED
  BY InitIInv, NextIInv, PTL DEF Spec

(***************************************************************************)
(* The theorems                                                            *)
(***************************************************************************)
(* Every variable keeps its type: no receive finds the channel empty, so the *)
(* count never leaves 0 .. Limit.                                            *)
THEOREM TypeCorrect == Spec => []TypeOK
<1>. QED
  BY IInvariant, PTL DEF IInv

(* The channel is as full as there are tasks and unreturned sends, and a     *)
(* drainer is parked only on a full channel.                                 *)
THEOREM PlacesAreAccounted == Spec => []PlacesAccounted
<1>. QED
  BY IInvariant, PTL DEF IInv, PlacesInv

(* No more than Limit handlers of /api/search ever run at once. *)
THEOREM LimitHolds == Spec => []NeverOverLimit
<1>1. IInv => NeverOverLimit
  <2>. SUFFICES ASSUME IInv PROVE Cardinality(Running) <= Limit
    BY DEF NeverOverLimit
  <2>. DEFINE f == [r \in Running |-> <<r, 0>>]
  <2>1. f \in Injection(Running, Holders)
    BY DEF Injection, IsInjective, Holders
  <2>2. IsFiniteSet(Holders) /\ Cardinality(Holders) <= Limit
    BY LimitAssumption DEF IInv, PlacesInv, PlacesAccounted, TypeOK
  <2>3. IsFiniteSet(Running) /\ Cardinality(Running) <= Cardinality(Holders)
    BY <2>1, <2>2, FS_Injection
  <2>4. Cardinality(Running) \in Nat /\ Cardinality(Holders) \in Nat
    BY <2>2, <2>3, FS_CardinalityType
  <2>. QED
    BY <2>2, <2>3, <2>4, LimitAssumption
<1>. QED
  BY <1>1, IInvariant, PTL

(* When Stop or Wait holds the whole channel, all tasks of before are over. *)
THEOREM DrainWaitsForEarlier == Spec => []DrainCoversEarlier
<1>. QED
  BY IInvariant, PTL DEF IInv
=============================================================================

------------------------- MODULE RateLimiterProofs -------------------------
(***************************************************************************)
(* Proofs about RateLimiter for any number of requests, controllers and    *)
(* restarts: one generator, no lost wakeup, bounded bursts.                *)
(***************************************************************************)
EXTENDS RateLimiter, TLAPS

(* A Stop that waits holds the mutex, and the limiter is stopped meanwhile. *)
MutexInv ==
    /\ \A d \in Controllers : ctl[d] = "drain" => mu = d
    /\ mu # NoController => stopped

(* The stop channels are closed in the order they were made: the current one *)
(* is open while the limiter runs, and closed after that.                    *)
ClosedInv ==
    /\ \A k \in closed : k <= stopCh
    /\ stopCh \in closed => stopped
    /\ stopped /\ stopCh # 0 => stopCh \in closed
    /\ ~stopped => stopCh # 0

(* A generator that is alive belongs to the current channel and watches it. *)
GeneratorInv ==
    /\ \A g \in Generators : gen[g] # "off" => g = stopCh
    /\ \A g \in Generators : gen[g] = "select" => watch[g] = stopCh
    /\ ~stopped => gen[stopCh] # "off"
    /\ stopped /\ mu = NoController => \A g \in Generators : gen[g] = "off"
    /\ \A g \in ticked : gen[g] # "off"

(* What a request read of stopCh is not forgotten by a later Stop: it is the *)
(* open channel of a running limiter, or already closed.                     *)
ChannelInv ==
    /\ \A r \in Requests : req[r] = "look" => stopCh # 0
    /\ \A r \in Requests :
          req[r] = "select" => chan[r] \in closed \/ (chan[r] = stopCh /\ ~stopped)
    /\ NobodyOversleeps

InHand == IF \E g \in Generators : gen[g] = "send" THEN 1 ELSE 0
Unseen == IF ticked = {} THEN 0 ELSE 1

(* the tokens given, kept, in the generator's hand, and still to be made *)
BurstInv == burst + tokens + InHand + Unseen <= 3

IInv == TypeOK /\ MutexInv /\ ClosedInv /\ GeneratorInv /\ ChannelInv /\ BurstInv

LEMMA InitIInv == Init => IInv
<1>. USE MaxStartsAssumption
<1>. SUFFICES ASSUME Init PROVE IInv
  OBVIOUS
<1>1. TypeOK
  BY DEF Init, TypeOK, Channels
<1>2. MutexInv /\ ClosedInv /\ ChannelInv
  BY DEF Init, MutexInv, ClosedInv, ChannelInv, NobodyOversleeps
<1>3. GeneratorInv
  BY DEF Init, GeneratorInv
<1>4. InHand = 0 /\ Unseen = 0
  BY DEF Init, InHand, Unseen
<1>. QED
  BY <1>1, <1>2, <1>3, <1>4 DEF Init, IInv, BurstInv

(* while a generator lives it is the only one *)
LEMMA OnlyGenerator ==
  ASSUME IInv, NEW g \in Generators, gen[g] # "off"
  PROVE  /\ g = stopCh
         /\ \A h \in Generators : h # g => gen[h] = "off"
         /\ ticked \subseteq {g}
         /\ InHand = IF gen[g] = "send" THEN 1 ELSE 0
<1>1. g = stopCh /\ \A h \in Generators : h # g => gen[h] = "off"
  BY DEF IInv, GeneratorInv
<1>2. ticked \subseteq {g}
  BY <1>1 DEF IInv, GeneratorInv, TypeOK
<1>. QED
  BY <1>1, <1>2 DEF InHand

(* sleepers that wake up leave typed queues, and change no other request *)
LEMMA WakeKeeps ==
  ASSUME TypeOK, NEW woken \in SUBSET Requests, NEW to \in {"serve", "idle"}, Wake(woken, to)
  PROVE  /\ req' \in [Requests -> {"idle", "enter", "look", "select", "asleep", "serve"}]
         /\ ahead' \in [Requests -> SUBSET Requests]
         /\ \A r \in Requests : req'[r] \in {"look", "select", "asleep"} =>
               req'[r] = req[r] /\ r \notin woken
<1>1. req' \in [Requests -> {"idle", "enter", "look", "select", "asleep", "serve"}]
  BY DEF TypeOK, Wake
<1>2. ahead' \in [Requests -> SUBSET Requests]
  BY DEF TypeOK, Wake
<1>3. \A r \in Requests : req'[r] = IF r \in woken THEN to ELSE req[r]
  BY DEF Wake
<1>. QED
  BY <1>1, <1>2, <1>3

(***************************************************************************)
(* The generator                                                           *)
(***************************************************************************)
LEMMA TickIInv ==
  ASSUME IInv, NEW g \in Generators, Tick(g)
  PROVE  IInv'
<1>. USE DEF Tick, limiter, requests
<1>1. TypeOK'
  BY DEF IInv, TypeOK
<1>2. MutexInv' /\ ClosedInv' /\ ChannelInv'
  BY DEF IInv, MutexInv, ClosedInv, ChannelInv, NobodyOversleeps
<1>3. GeneratorInv'
  BY DEF IInv, GeneratorInv
<1>4. BurstInv'
  <2>1. (tokens' = 0 \/ tokens' = 1) /\ burst' = 0
    BY DEF IInv, TypeOK
  <2>2. (InHand' = 0 \/ InHand' = 1) /\ (Unseen' = 0 \/ Unseen' = 1)
    BY DEF InHand, Unseen
  <2>. QED
    BY <2>1, <2>2 DEF BurstInv
<1>. QED
  BY <1>1, <1>2, <1>3, <1>4 DEF IInv

LEMMA GeneratorIInv ==
  ASSUME IInv, NEW g \in Generators, GeneratorStep(g) \/ Quit(g)
  PROVE  IInv'
<1>. USE DEF limiter, Move
<1>1. gen[g] # "off"
  BY DEF GeneratorStep, Loop, TakeTick, Send, Quit
<1>2. /\ g = stopCh /\ ticked \subseteq {g}
      /\ \A h \in Generators : h # g => gen[h] = "off"
      /\ InHand = IF gen[g] = "send" THEN 1 ELSE 0
  BY <1>1, OnlyGenerator
<1>3. /\ gen \in [Generators -> {"off", "loop", "select", "send"}]
      /\ gen' = [gen EXCEPT ![g] = gen'[g]]
      /\ UNCHANGED <<limiter, chan, expired, ctl>>
  BY DEF IInv, TypeOK, GeneratorStep, Loop, TakeTick, Send, Deliver, Quit, requests
<1>4. InHand' = IF gen'[g] = "send" THEN 1 ELSE 0
  BY <1>2, <1>3 DEF InHand
<1>5. MutexInv' /\ ClosedInv'
  BY <1>3 DEF IInv, MutexInv, ClosedInv
<1>6. CASE Loop(g)
  <2>1. TypeOK'
    BY <1>6 DEF Loop, IInv, TypeOK, requests
  <2>2. GeneratorInv'
    BY <1>2, <1>6 DEF Loop, IInv, GeneratorInv, TypeOK
  <2>3. ChannelInv'
    BY <1>6 DEF Loop, IInv, ChannelInv, NobodyOversleeps, requests
  <2>4. BurstInv'
    <3>1. InHand = 0 /\ InHand' = 0 /\ Unseen' = Unseen
      BY <1>2, <1>4, <1>6 DEF Loop, IInv, TypeOK, Unseen
    <3>. QED
      BY <1>6, <3>1 DEF Loop, IInv, BurstInv
  <2>. QED
    BY <1>5, <2>1, <2>2, <2>3, <2>4 DEF IInv
<1>7. CASE TakeTick(g)
  <2>1. TypeOK'
    BY <1>7 DEF TakeTick, IInv, TypeOK, requests
  <2>2. GeneratorInv'
    BY <1>2, <1>7 DEF TakeTick, IInv, GeneratorInv, TypeOK
  <2>3. ChannelInv'
    BY <1>7 DEF TakeTick, IInv, ChannelInv, NobodyOversleeps, requests
  <2>4. BurstInv'
    <3>1. InHand = 0 /\ InHand' = 1
      BY <1>2, <1>4, <1>7 DEF TakeTick, IInv, TypeOK
    <3>2. Unseen = 1 /\ Unseen' = 0
      BY <1>2, <1>7 DEF TakeTick, Unseen
    <3>. QED
      BY <1>7, <3>1, <3>2 DEF TakeTick, IInv, BurstInv, TypeOK
  <2>. QED
    BY <1>5, <2>1, <2>2, <2>3, <2>4 DEF IInv
<1>8. CASE Send(g)
  <2>1. InHand = 1 /\ InHand' = 0 /\ Unseen' = Unseen
    BY <1>2, <1>4, <1>8 DEF Send, IInv, TypeOK, Unseen
  <2>2. GeneratorInv'
    BY <1>2, <1>8 DEF Send, IInv, GeneratorInv, TypeOK
  <2>3. CASE /\ \E r \in Asleep : ahead[r] = {} /\ Wake({r}, "serve")
             /\ burst' = burst + 1
             /\ UNCHANGED tokens
    <3>1. PICK r \in Asleep : Wake({r}, "serve")
      BY <2>3
    <3>2. /\ req' \in [Requests -> {"idle", "enter", "look", "select", "asleep", "serve"}]
          /\ ahead' \in [Requests -> SUBSET Requests]
          /\ \A q \in Requests : req'[q] \in {"look", "select", "asleep"} => req'[q] = req[q]
      <4>1. {r} \in SUBSET Requests
        BY DEF Asleep
      <4>. QED
        BY <3>1, <4>1, WakeKeeps DEF IInv
    <3>3. TypeOK'
      BY <1>8, <2>3, <3>2 DEF Send, IInv, TypeOK
    <3>4. ChannelInv'
      BY <1>8, <2>3, <3>2 DEF Send, IInv, ChannelInv, NobodyOversleeps
    <3>5. BurstInv'
      BY <2>1, <2>3 DEF IInv, BurstInv, TypeOK, Unseen
    <3>. QED
      BY <1>5, <2>2, <3>3, <3>4, <3>5 DEF IInv
  <2>4. CASE /\ Asleep = {}
             /\ tokens' = 1
             /\ UNCHANGED <<req, ahead, burst>>
    <3>1. TypeOK'
      BY <1>8, <2>4 DEF Send, IInv, TypeOK
    <3>2. ChannelInv'
      BY <1>8, <2>4 DEF Send, IInv, ChannelInv, NobodyOversleeps, Asleep
    <3>3. BurstInv'
      BY <2>1, <2>4 DEF IInv, BurstInv, TypeOK, Unseen
    <3>. QED
      BY <1>5, <2>2, <3>1, <3>2, <3>3 DEF IInv
  <2>. QED
    BY <1>8, <2>3, <2>4 DEF Send, Deliver
<1>9. CASE Quit(g)
  <2>1. stopped /\ TypeOK'
    BY <1>2, <1>9 DEF Quit, IInv, GeneratorInv, ClosedInv, TypeOK, requests
  <2>2. GeneratorInv'
    BY <1>2, <1>9, <2>1 DEF Quit, IInv, GeneratorInv, TypeOK
  <2>3. ChannelInv'
    BY <1>9 DEF Quit, IInv, ChannelInv, NobodyOversleeps, requests
  <2>4. BurstInv'
    <3>1. InHand = 0 /\ InHand' = 0 /\ Unseen' <= Unseen
      BY <1>2, <1>4, <1>9 DEF Quit, IInv, TypeOK, Unseen
    <3>. QED
      BY <1>9, <3>1 DEF Quit, IInv, BurstInv, TypeOK, Unseen
  <2>. QED
    BY <1>5, <2>1, <2>2, <2>3, <2>4 DEF IInv
<1>. QED
  BY <1>6, <1>7, <1>8, <1>9 DEF GeneratorStep

(***************************************************************************)
(* Requests                                                                *)
(***************************************************************************)
(* Most steps of a request leave the limiter, the clock and the tokens alone *)
(* and put no one else to sleep.                                             *)
LEMMA RequestKeeps ==
  ASSUME IInv, UNCHANGED <<limiter, clock, ctl>>
  PROVE  /\ MutexInv' /\ ClosedInv' /\ GeneratorInv'
         /\ InHand' = InHand /\ Unseen' = Unseen
BY DEF IInv, MutexInv, ClosedInv, GeneratorInv, InHand, Unseen, limiter, clock

LEMMA RequestIInv ==
  ASSUME IInv, NEW r \in Requests, Submit(r) \/ Check(r) \/ RequestStep(r) \/ Expire(r)
  PROVE  IInv'
<1>1. UNCHANGED <<limiter, clock, ctl>>
  BY DEF Submit, Check, RequestStep, Look, TakeToken, SeeStop, SeeExpiry, Sleep, Finish, Expire
<1>2. MutexInv' /\ ClosedInv' /\ GeneratorInv' /\ InHand' = InHand /\ Unseen' = Unseen
  BY <1>1, RequestKeeps
<1>. USE <1>1 DEF Goto, limiter, clock
<1>3. CASE TakeToken(r)
  <2>1. TypeOK'
    BY <1>3 DEF TakeToken, IInv, TypeOK
  <2>2. ChannelInv'
    BY <1>3 DEF TakeToken, IInv, ChannelInv, NobodyOversleeps, TypeOK
  <2>3. BurstInv'
    BY <1>2, <1>3 DEF TakeToken, IInv, BurstInv, TypeOK, InHand, Unseen
  <2>. QED
    BY <1>2, <2>1, <2>2, <2>3 DEF IInv
<1>4. ASSUME UNCHANGED <<tokens, burst>>, TypeOK', ChannelInv'
      PROVE  IInv'
  <2>1. BurstInv'
    BY <1>2, <1>4 DEF IInv, BurstInv
  <2>. QED
    BY <1>2, <1>4, <2>1 DEF IInv
<1>5. CASE Submit(r) \/ SeeStop(r) \/ SeeExpiry(r) \/ Finish(r)
  <2>1. TypeOK'
    BY <1>5 DEF Submit, SeeStop, SeeExpiry, Finish, IInv, TypeOK
  <2>2. ChannelInv'
    BY <1>5 DEF Submit, SeeStop, SeeExpiry, Finish, IInv, ChannelInv, NobodyOversleeps, TypeOK
  <2>. QED
    BY <1>4, <1>5, <2>1, <2>2 DEF Submit, SeeStop, SeeExpiry, Finish
<1>6. CASE Check(r)
  <2>1. TypeOK'
    BY <1>6 DEF Check, IInv, TypeOK
  <2>2. ChannelInv'
    BY <1>6 DEF Check, IInv, ChannelInv, ClosedInv, NobodyOversleeps, TypeOK
  <2>. QED
    BY <1>4, <1>6, <2>1, <2>2 DEF Check
<1>7. CASE Look(r)
  <2>1. TypeOK'
    BY <1>7 DEF Look, IInv, TypeOK
  <2>2. ChannelInv'
    BY <1>7 DEF Look, IInv, ChannelInv, ClosedInv, NobodyOversleeps, TypeOK
  <2>. QED
    BY <1>4, <1>7, <2>1, <2>2 DEF Look
<1>8. CASE Sleep(r)
  <2>1. TypeOK'
    BY <1>8 DEF Sleep, IInv, TypeOK, Asleep
  <2>2. ChannelInv'
    BY <1>8 DEF Sleep, IInv, ChannelInv, ClosedInv, NobodyOversleeps, TypeOK
  <2>. QED
    BY <1>4, <1>8, <2>1, <2>2 DEF Sleep
<1>9. CASE Expire(r)
  <2>1. CASE Wake({r}, "idle") /\ UNCHANGED expired
    <3>1. /\ req' \in [Requests -> {"idle", "enter", "look", "select", "asleep", "serve"}]
          /\ ahead' \in [Requests -> SUBSET Requests]
          /\ \A q \in Requests : req'[q] \in {"look", "select", "asleep"} => req'[q] = req[q]
      BY <2>1, WakeKeeps DEF IInv
    <3>2. TypeOK'
      BY <1>9, <2>1, <3>1 DEF Expire, IInv, TypeOK
    <3>3. ChannelInv'
      BY <1>9, <3>1 DEF Expire, IInv, ChannelInv, NobodyOversleeps
    <3>. QED
      BY <1>4, <1>9, <3>2, <3>3 DEF Expire
  <2>2. CASE expired' = expired \cup {r} /\ UNCHANGED <<req, ahead>>
    <3>1. TypeOK'
      BY <1>9, <2>2 DEF Expire, IInv, TypeOK
    <3>2. ChannelInv'
      BY <1>9, <2>2 DEF Expire, IInv, ChannelInv, NobodyOversleeps
    <3>. QED
      BY <1>4, <1>9, <3>1, <3>2 DEF Expire
  <2>. QED
    BY <1>9, <2>1, <2>2 DEF Expire
<1>. QED
  BY <1>3, <1>5, <1>6, <1>7, <1>8, <1>9 DEF RequestStep

(***************************************************************************)
(* Start and Stop                                                          *)
(***************************************************************************)
LEMMA StartIInv == ASSUME IInv, Start PROVE IInv'
<1>. USE MaxStartsAssumption DEF Start, requests
<1>1. /\ stopCh + 1 \in Generators /\ stopCh + 1 \in Channels
      /\ \A g \in Generators : gen[g] = "off"
      /\ \A g \in Generators : gen'[g] = IF g = stopCh + 1 THEN "loop" ELSE "off"
  BY DEF IInv, TypeOK, GeneratorInv, Channels, Generators
<1>2. TypeOK'
  BY <1>1 DEF IInv, TypeOK
<1>3. MutexInv' /\ ClosedInv'
  BY DEF IInv, TypeOK, MutexInv, ClosedInv, Channels
<1>4. GeneratorInv'
  BY <1>1 DEF IInv, TypeOK, GeneratorInv
<1>5. ChannelInv'
  BY <1>1 DEF IInv, TypeOK, ChannelInv, NobodyOversleeps, Channels
<1>6. BurstInv'
  <2>1. InHand' = InHand /\ Unseen' = Unseen
    BY <1>1 DEF InHand, Unseen
  <2>. QED
    BY <2>1 DEF IInv, BurstInv
<1>. QED
  BY <1>2, <1>3, <1>4, <1>5, <1>6 DEF IInv

LEMMA StopIInv ==
  ASSUME IInv, NEW d \in Controllers, Stop(d) \/ Locked(d) \/ Drained(d)
  PROVE  IInv'
<1>. USE NoControllerAssumption DEF limiter, clock, requests
<1>1. CASE Stop(d) \/ AlreadyStopped(d)
  <2>1. TypeOK' /\ MutexInv'
    BY <1>1 DEF Stop, AlreadyStopped, IInv, TypeOK, MutexInv
  <2>2. ClosedInv' /\ GeneratorInv' /\ ChannelInv'
    BY <1>1 DEF Stop, AlreadyStopped, IInv, ClosedInv, GeneratorInv, ChannelInv, NobodyOversleeps
  <2>3. BurstInv'
    BY <1>1 DEF Stop, AlreadyStopped, IInv, BurstInv, InHand, Unseen
  <2>. QED
    BY <2>1, <2>2, <2>3 DEF IInv
<1>2. CASE Shut(d)
  <2>1. PICK woken \in SUBSET Requests :
           woken = {r \in Asleep : chan[r] = stopCh} /\ Wake(woken, "serve")
    <3>1. {r \in Asleep : chan[r] = stopCh} \in SUBSET Requests
      BY DEF Asleep
    <3>. QED
      BY <1>2, <3>1 DEF Shut
  <2>2. /\ req' \in [Requests -> {"idle", "enter", "look", "select", "asleep", "serve"}]
        /\ ahead' \in [Requests -> SUBSET Requests]
        /\ \A r \in Requests : req'[r] \in {"look", "select", "asleep"} =>
               req'[r] = req[r] /\ r \notin woken
    BY <2>1, WakeKeeps DEF IInv
  <2>3. TypeOK' /\ MutexInv'
    BY <1>2, <2>2 DEF Shut, IInv, TypeOK, MutexInv
  <2>4. ClosedInv' /\ GeneratorInv'
    BY <1>2 DEF Shut, IInv, TypeOK, ClosedInv, GeneratorInv, Channels
  <2>5. ChannelInv'
    BY <1>2, <2>1, <2>2 DEF Shut, IInv, ChannelInv, NobodyOversleeps, Asleep
  <2>6. BurstInv'
    BY <1>2 DEF Shut, IInv, BurstInv, InHand, Unseen
  <2>. QED
    BY <2>3, <2>4, <2>5, <2>6 DEF IInv
<1>3. CASE Drained(d)
  <2>1. mu = d /\ stopped
    BY <1>3 DEF Drained, IInv, MutexInv
  <2>2. TypeOK'
    BY <1>3 DEF Drained, IInv, TypeOK
  <2>3. MutexInv'
    BY <1>3, <2>1 DEF Drained, IInv, TypeOK, MutexInv
  <2>4. ClosedInv' /\ GeneratorInv' /\ ChannelInv'
    BY <1>3 DEF Drained, IInv, ClosedInv, GeneratorInv, ChannelInv, NobodyOversleeps
  <2>5. BurstInv'
    BY <1>3 DEF Drained, IInv, BurstInv, InHand, Unseen
  <2>. QED
    BY <2>2, <2>3, <2>4, <2>5 DEF IInv
<1>. QED
  BY <1>1, <1>2, <1>3 DEF Locked

LEMMA NextIInv == IInv /\ [Next]_vars => IInv'
<1>. SUFFICES ASSUME IInv, [Next]_vars PROVE IInv'
  OBVIOUS
<1>1. CASE UNCHANGED vars
  BY <1>1 DEF vars, limiter, clock, requests, IInv, TypeOK, MutexInv, ClosedInv, GeneratorInv,
              ChannelInv, NobodyOversleeps, BurstInv, InHand, Unseen
<1>. QED
  BY <1>1, TickIInv, GeneratorIInv, RequestIInv, StopIInv, StartIInv DEF Next

LEMMA Invariant == Spec => []IInv
<1>. QED
  BY InitIInv, NextIInv, PTL DEF Spec

(* Every variable keeps its type: there is never more than one token.        *)
THEOREM TypeCorrect == Spec => []TypeOK
<1>1. IInv => TypeOK
  BY DEF IInv
<1>. QED
  BY <1>1, Invariant, PTL

(* However many goroutines start and stop the limiter, it has exactly one    *)
(* generator while it runs and none once a Stop has returned.                *)
THEOREM GeneratorIsUnique == Spec => []OneGenerator
<1>1. IInv => OneGenerator
  <2>. SUFFICES ASSUME IInv PROVE OneGenerator
    OBVIOUS
  <2>1. ~stopped => stopCh \in Generators
    BY DEF IInv, TypeOK, ClosedInv, Channels, Generators
  <2>. QED
    BY <2>1 DEF IInv, GeneratorInv, OneGenerator, Alive
<1>. QED
  BY <1>1, Invariant, PTL

(* A sleeping request is always reached by the next Stop, although it read    *)
(* stopCh without the mutex, and no token is left beside it.                  *)
THEOREM NoLostWakeup == Spec => []NobodyOversleeps
<1>1. IInv => NobodyOversleeps
  BY DEF IInv, ChannelInv
<1>. QED
  BY <1>1, Invariant, PTL

(* Between two ticks at most three requests get a token, for any number of    *)
(* requests, stops and restarts.                                              *)
THEOREM BurstsAreBounded == Spec => []BurstBounded
<1>1. IInv => BurstBounded
  BY DEF IInv, TypeOK, BurstInv, BurstBounded, InHand, Unseen
<1>. QED
  BY <1>1, Invariant, PTL
=============================================================================

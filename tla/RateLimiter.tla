---------------------------- MODULE RateLimiter ----------------------------
(***************************************************************************)
(* The limiter of GET /api/isearch: RateLimiterHandler                     *)
(* (api/core/rate_limiter_service.go), used by the Rate middleware         *)
(* (api/adapters/rest/middleware/rate.go).                                 *)
(*                                                                         *)
(* A generator goroutine turns the ticks of a clock into tokens, of which  *)
(* one can be kept.  A request takes a token, or sleeps until one comes,   *)
(* its context is done, or the limiter is stopped, which closes the        *)
(* channel stopCh.  Start makes a new stopCh; a request that read the      *)
(* field before may still hold the old one, for Wait reads it without the  *)
(* mutex.                                                                  *)
(*                                                                         *)
(* A sender of Go's channels hands its value to the receiver that sleeps   *)
(* longest, so each sleeping request knows which ones are ahead of it.     *)
(***************************************************************************)
EXTENDS Integers

CONSTANTS
    Requests,     \* requests that may be open at the same time
    Impatient,    \* those whose context may end; Submit itself passes one that never does
    Controllers,  \* goroutines that call Stop; main is the only one in the program
    NoController, \* the mutex is free
    MaxStarts     \* bound on the number of times the limiter is started

ASSUME ImpatientAssumption    == Impatient \subseteq Requests
ASSUME NoControllerAssumption == NoController \notin Controllers
ASSUME MaxStartsAssumption    == MaxStarts \in Nat

(* The stopCh of NewRateLimiterHandler is 0, later ones are counted by Start, *)
(* which also starts one generator each.                                      *)
Channels   == 0 .. MaxStarts
Generators == 1 .. MaxStarts

VARIABLES
    stopped,  \* rl.stopped
    stopCh,   \* rl.stopCh
    closed,   \* the stop channels that are closed
    mu,       \* rl.mu, when held for longer than a step: by a Stop that waits
    tokens,   \* how many tokens the channel of capacity 1 keeps
    gen,      \* each generator goroutine
    watch,    \* the stopCh a generator's select looks at
    ticked,   \* generators whose ticker channel holds a tick
    req,      \* each request in Submit and Wait
    chan,     \* the stopCh a request's select looks at
    ahead,    \* for a sleeping request, those that have slept longer
    expired,  \* requests whose context is done
    ctl,      \* each controller in Stop
    burst     \* history: tokens given to requests since the clock last ticked

limiter  == <<stopped, stopCh, closed, mu>>
clock    == <<gen, watch, ticked>>
requests == <<req, chan, ahead, expired>>
vars     == <<limiter, tokens, clock, requests, ctl, burst>>

TypeOK ==
    /\ stopped \in BOOLEAN
    /\ stopCh \in Channels
    /\ closed \subseteq Channels
    /\ mu \in Controllers \cup {NoController}
    /\ tokens \in 0 .. 1
    /\ gen \in [Generators -> {"off", "loop", "select", "send"}]
    /\ watch \in [Generators -> Channels]
    /\ ticked \subseteq Generators
    /\ req \in [Requests -> {"idle", "enter", "look", "select", "asleep", "serve"}]
    /\ chan \in [Requests -> Channels]
    /\ ahead \in [Requests -> SUBSET Requests]
    /\ expired \subseteq Impatient
    /\ ctl \in [Controllers -> {"idle", "lock", "drain"}]
    /\ burst \in Nat

Init ==
    /\ stopped = TRUE
    /\ stopCh = 0
    /\ closed = {}
    /\ mu = NoController
    /\ tokens = 1
    /\ gen = [g \in Generators |-> "off"]
    /\ watch = [g \in Generators |-> 0]
    /\ ticked = {}
    /\ req = [r \in Requests |-> "idle"]
    /\ chan = [r \in Requests |-> 0]
    /\ ahead = [r \in Requests |-> {}]
    /\ expired = {}
    /\ ctl = [d \in Controllers |-> "idle"]
    /\ burst = 0

Asleep == {r \in Requests : req[r] = "asleep"}

(* the sleepers of a set wake up, and go on to a position *)
Wake(woken, to) ==
    /\ req' = [r \in Requests |-> IF r \in woken THEN to ELSE req[r]]
    /\ ahead' = [r \in Requests |-> IF r \in woken THEN {} ELSE ahead[r] \ woken]

(***************************************************************************)
(* The generator and its clock                                             *)
(***************************************************************************)
Move(g, from, to) == gen[g] = from /\ gen' = [gen EXCEPT ![g] = to]

(* the ticker's channel keeps one tick and drops further ones *)
Tick(g) ==
    /\ gen[g] # "off"
    /\ ticked' = ticked \cup {g}
    /\ burst' = 0
    /\ UNCHANGED <<limiter, tokens, gen, watch, requests, ctl>>

(* a turn of the loop begins: the select evaluates rl.stopCh *)
Loop(g) ==
    /\ Move(g, "loop", "select")
    /\ watch' = [watch EXCEPT ![g] = stopCh]
    /\ UNCHANGED <<limiter, tokens, ticked, requests, ctl, burst>>

TakeTick(g) ==
    /\ Move(g, "select", "send")
    /\ g \in ticked
    /\ ticked' = ticked \ {g}
    /\ UNCHANGED <<limiter, tokens, watch, requests, ctl, burst>>

(* a token goes to the longest sleeper, or is kept *)
Deliver(kept) ==
    \/ /\ \E r \in Asleep : ahead[r] = {} /\ Wake({r}, "serve")
       /\ burst' = burst + 1
       /\ UNCHANGED tokens
    \/ /\ Asleep = {}
       /\ tokens' = kept
       /\ UNCHANGED <<req, ahead, burst>>

(* mutant: the channel has room for more tokens *)
SendAlways(g) ==
    /\ Move(g, "send", "loop")
    /\ Deliver(tokens + 1)
    /\ UNCHANGED <<limiter, watch, ticked, chan, expired, ctl>>

(* mutant: the generator ends when its token is not wanted *)
SendOrQuit(g) ==
    /\ Move(g, "send", IF tokens = 1 THEN "off" ELSE "loop")
    /\ Deliver(1)
    /\ UNCHANGED <<limiter, watch, ticked, chan, expired, ctl>>

(* the send with a default: when the channel is full the token is dropped *)
Send(g) ==
    /\ Move(g, "send", "loop")
    /\ Deliver(1)
    /\ UNCHANGED <<limiter, watch, ticked, chan, expired, ctl>>

(* the other branch of the select: wg.Done, and the ticker is stopped *)
Quit(g) ==
    /\ Move(g, "select", "off")
    /\ watch[g] \in closed
    /\ ticked' = ticked \ {g}
    /\ UNCHANGED <<limiter, tokens, watch, requests, ctl, burst>>

(***************************************************************************)
(* Submit and Wait                                                         *)
(***************************************************************************)
Goto(r, from, to) == req[r] = from /\ req' = [req EXCEPT ![r] = to]

Submit(r) ==
    /\ Goto(r, "idle", "enter")
    /\ UNCHANGED <<limiter, tokens, clock, chan, ahead, expired, ctl, burst>>

(* stopped is read under the mutex: a stopped limiter lets everything through *)
Check(r) ==
    /\ mu = NoController
    /\ Goto(r, "enter", IF stopped THEN "serve" ELSE "look")
    /\ UNCHANGED <<limiter, tokens, clock, chan, ahead, expired, ctl, burst>>

(* mutant: the channel is read once, when the limiter is made *)
LookAtFirst(r) ==
    /\ req[r] = "look"
    /\ req' = [req EXCEPT ![r] = "select"]
    /\ chan' = [chan EXCEPT ![r] = 0]
    /\ UNCHANGED <<limiter, tokens, clock, ahead, expired, ctl, burst>>

(* the operands of the select are evaluated, rl.stopCh without the mutex *)
Look(r) ==
    /\ Goto(r, "look", "select")
    /\ chan' = [chan EXCEPT ![r] = stopCh]
    /\ UNCHANGED <<limiter, tokens, clock, ahead, expired, ctl, burst>>

TakeToken(r) ==
    /\ Goto(r, "select", "serve")
    /\ tokens = 1
    /\ tokens' = 0
    /\ burst' = burst + 1
    /\ UNCHANGED <<limiter, clock, chan, ahead, expired, ctl>>

SeeStop(r) ==
    /\ Goto(r, "select", "serve")
    /\ chan[r] \in closed
    /\ UNCHANGED <<limiter, tokens, clock, chan, ahead, expired, ctl, burst>>

SeeExpiry(r) ==
    /\ Goto(r, "select", "idle")
    /\ r \in expired
    /\ expired' = expired \ {r}
    /\ UNCHANGED <<limiter, tokens, clock, chan, ahead, ctl, burst>>

(* nothing is ready *)
Sleep(r) ==
    /\ Goto(r, "select", "asleep")
    /\ tokens = 0
    /\ chan[r] \notin closed
    /\ r \notin expired
    /\ ahead' = [ahead EXCEPT ![r] = Asleep]
    /\ UNCHANGED <<limiter, tokens, clock, chan, expired, ctl, burst>>

(* f has run and the request is answered *)
Finish(r) ==
    /\ Goto(r, "serve", "idle")
    /\ expired' = expired \ {r}
    /\ UNCHANGED <<limiter, tokens, clock, chan, ahead, ctl, burst>>

(* a context ends; a sleeper wakes up with ctx.Err() and is rejected *)
Expire(r) ==
    /\ r \in Impatient
    /\ \/ /\ req[r] \in {"enter", "look", "select"}
          /\ expired' = expired \cup {r}
          /\ UNCHANGED <<req, ahead>>
       \/ /\ r \in Asleep
          /\ Wake({r}, "idle")
          /\ UNCHANGED expired
    /\ UNCHANGED <<limiter, tokens, clock, chan, ctl, burst>>

(***************************************************************************)
(* Start and Stop                                                          *)
(***************************************************************************)
(* mutant: Start does not look at stopped *)
StartAgain ==
    /\ mu = NoController
    /\ stopCh < MaxStarts
    /\ stopCh' = stopCh + 1
    /\ stopped' = FALSE
    /\ gen' = [gen EXCEPT ![stopCh + 1] = "loop"]
    /\ UNCHANGED <<closed, mu, tokens, watch, ticked, requests, ctl, burst>>

Start ==
    /\ mu = NoController
    /\ stopped
    /\ stopCh < MaxStarts
    /\ stopCh' = stopCh + 1
    /\ stopped' = FALSE
    /\ gen' = [gen EXCEPT ![stopCh + 1] = "loop"]
    /\ UNCHANGED <<closed, mu, tokens, watch, ticked, requests, ctl, burst>>

Stop(d) ==
    /\ ctl[d] = "idle"
    /\ ctl' = [ctl EXCEPT ![d] = "lock"]
    /\ UNCHANGED <<limiter, tokens, clock, requests, burst>>

(* mutant: the channel is not closed *)
ShutWithoutClose(d) ==
    /\ ctl[d] = "lock"
    /\ mu = NoController
    /\ ~stopped
    /\ stopped' = TRUE
    /\ mu' = d
    /\ ctl' = [ctl EXCEPT ![d] = "drain"]
    /\ UNCHANGED <<stopCh, closed, tokens, clock, requests, burst>>

(* stopped is set and stopCh closed, which wakes all that sleep on it *)
Shut(d) ==
    /\ ctl[d] = "lock"
    /\ mu = NoController
    /\ ~stopped
    /\ stopped' = TRUE
    /\ closed' = closed \cup {stopCh}
    /\ Wake({r \in Asleep : chan[r] = stopCh}, "serve")
    /\ mu' = d
    /\ ctl' = [ctl EXCEPT ![d] = "drain"]
    /\ UNCHANGED <<stopCh, tokens, clock, chan, expired, burst>>

AlreadyStopped(d) ==
    /\ ctl[d] = "lock"
    /\ mu = NoController
    /\ stopped
    /\ ctl' = [ctl EXCEPT ![d] = "idle"]
    /\ UNCHANGED <<limiter, tokens, clock, requests, burst>>

(* rl.wg.Wait under the mutex *)
Drained(d) ==
    /\ ctl[d] = "drain"
    /\ \A g \in Generators : gen[g] = "off"
    /\ mu' = NoController
    /\ ctl' = [ctl EXCEPT ![d] = "idle"]
    /\ UNCHANGED <<stopped, stopCh, closed, tokens, clock, requests, burst>>

GeneratorStep(g) == Loop(g) \/ TakeTick(g) \/ Send(g)
RequestStep(r)   ==
    Look(r) \/ TakeToken(r) \/ SeeStop(r) \/ SeeExpiry(r) \/ Sleep(r) \/ Finish(r)
Locked(d)        == Shut(d) \/ AlreadyStopped(d)

Next ==
    \/ \E g \in Generators : Tick(g) \/ GeneratorStep(g) \/ Quit(g)
    \/ \E r \in Requests : Submit(r) \/ Check(r) \/ RequestStep(r) \/ Expire(r)
    \/ \E d \in Controllers : Stop(d) \/ Locked(d) \/ Drained(d)
    \/ Start

(* Goroutines run, tickers tick and handlers return.  A mutex is not withheld *)
(* from a waiter for ever, and a select chooses at random among what is       *)
(* ready, so a branch that is ready again and again is taken.                 *)
Fairness ==
    /\ \A g \in Generators : WF_vars(Tick(g)) /\ WF_vars(GeneratorStep(g)) /\ SF_vars(Quit(g))
    /\ \A r \in Requests : WF_vars(RequestStep(r)) /\ SF_vars(Check(r))
    /\ \A d \in Controllers : SF_vars(Locked(d)) /\ WF_vars(Drained(d))

Spec == Init /\ [][Next]_vars /\ Fairness

(***************************************************************************)
(* Properties                                                              *)
(***************************************************************************)
Alive == {g \in Generators : gen[g] # "off"}

(* One generator, no leak: while the limiter runs exactly the generator of    *)
(* the current stopCh is alive, and none outlives the Stop that closed its    *)
(* channel, however Start and Stop of several goroutines interleave (83-112). *)
OneGenerator ==
    /\ ~stopped => Alive = {stopCh}
    /\ stopped /\ mu = NoController => Alive = {}

(* Nobody oversleeps: a sleeping request has a running limiter, whose next    *)
(* Stop closes the very channel it read without the mutex, and it does not    *)
(* sleep beside a token (52-68, 83-92, 105).                                  *)
NobodyOversleeps ==
    \A r \in Requests : req[r] = "asleep" =>
        ~stopped /\ chan[r] = stopCh /\ stopCh \notin closed /\ tokens = 0

(* The limit itself (docs/swagger.yaml:179): between two ticks of the clock   *)
(* at most three requests get a token, the one kept, the one the generator    *)
(* is about to send and the one of the tick it has not seen; idle time saves  *)
(* up no more, and a restart adds none.                                       *)
BurstBounded == burst <= 3

(* Every request of the middleware is answered: it gets a token in its turn,  *)
(* or passes when the limiter stops, and there is no refusal                  *)
(* (docs/swagger.yaml:179-180: requests over the limit are delayed).          *)
RequestsAnswered == \A r \in Requests : req[r] = "enter" ~> req[r] = "idle"

(* Stop returns although it waits for the generator with the mutex held.      *)
StopReturns == \A d \in Controllers : ctl[d] = "lock" ~> ctl[d] = "idle"
=============================================================================

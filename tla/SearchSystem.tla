---------------------------- MODULE SearchSystem ----------------------------
(***************************************************************************)
(* The update service and the search service together, with the table they *)
(* share and the event between them.  Of the update service only what      *)
(* UpdateFeed keeps of it matters here: UpdateService implements           *)
(* UpdateContract, and that UpdateFeed.  NATS delivers an event to whoever *)
(* is subscribed at that moment, at most once.                             *)
(***************************************************************************)
EXTENDS SearchService

VARIABLES
    pending,     \* comics stored since the last event
    dropped      \* history: comics that were stored and are not any more

Update == INSTANCE UpdateFeed

table == <<rows, pending, dropped>>
vars  == <<searchVars, table>>

TypeOK ==
    /\ ProcessTyped
    /\ RequestsTyped
    /\ rows \subseteq ComicIDs
    /\ pending \subseteq ComicIDs
    /\ dropped \subseteq ComicIDs \ rows
    /\ missed \subseteq rows

Init == SearchInit /\ Update!Init /\ dropped = {}

SearchStep == SearchNext /\ UNCHANGED table

(* a change of the table disturbs the searches that have begun *)
TableChanges ==
    /\ Disturb
    /\ UNCHANGED <<lifecycle, inbox, updater, snapshot, index,
                   call, mode, query, left, score, picked, answer>>

Store(id) ==
    /\ Update!Store(id)
    /\ dropped' = dropped \ {id}
    /\ TableChanges
    /\ UNCHANGED missed

(* nobody tells the search service *)
Drop ==
    /\ Update!Drop
    /\ dropped' = dropped \cup rows
    /\ missed' = {}
    /\ TableChanges

(* An update settles with an event; it may send one with nothing pending,    *)
(* when all the comics it handed out failed.                                 *)
Announce ==
    /\ Update!Announce
    /\ EventArrives(pending \cap rows)
    /\ UNCHANGED <<lifecycle, updater, snapshot, index, requests, dropped>>

Next ==
    \/ SearchStep
    \/ \E id \in ComicIDs : Store(id)
    \/ Drop \/ Announce

(* Goroutines run and adapter calls return.  Nothing obliges the update      *)
(* service, a client or an operator, and nobody has to restart a process.    *)
Quietly(A) == A /\ UNCHANGED table
Fairness ==
    /\ WF_vars(Quietly(CallbackStep))
    /\ WF_vars(Quietly(ProcessStep))
    /\ \A r \in Requests : WF_vars(Quietly(RequestStep(r)))

Spec == Init /\ [][Next]_vars /\ Fairness

(***************************************************************************)
(* Properties                                                              *)
(***************************************************************************)
Indexed(id) == \A w \in Words : Holds(StoredWords[id], w) => id \in index[w]

(* Where every row is: in the index or about to be merged, due to be loaded  *)
(* by an event that was delivered, not announced yet, or missed for a reason *)
(* the model names - an event nobody received, a failed FindAll, a restart.  *)
(* No interleaving of Add, event, FindAll and merge loses one otherwise.     *)
RowsAccountedFor ==
    \A id \in rows :
        \/ id \in pending \cup missed
        \/ inbox > 0 \/ updater = "load"
        \/ \A w \in Words : Holds(StoredWords[id], w) => id \in index[w] \cup snapshot[w]

(* Every copy derived from the table, through all its stages, holds only     *)
(* comics that have the word and were stored; those not stored any more were *)
(* removed by Drop, which is the one reason for a stale entry (100-113).     *)
DerivedFromRows ==
    /\ \A w \in Words : \A id \in index[w] \cup snapshot[w] :
        Holds(StoredWords[id], w) /\ id \in rows \cup dropped
    /\ \A r \in Requests, id \in ComicIDs :
        score[r][id] > 0 \/ Holds(picked[r], id) => id \in rows \cup dropped

(* A search that races with UpdateIndex may count too little, never too      *)
(* much: a score is at most the number of the phrase's words the comic has.  *)
ScoresSound ==
    \A r \in Requests, id \in ComicIDs :
        score[r][id] <= DistinctHits(StoredWords[id], query[r] \ left[r])

(* End to end: a SearchIndex that began with an index level with the table   *)
(* and met no change and no failure answers the best comics of the table,    *)
(* as many as the limit allows.                                              *)
ExactAnswer ==
    \A r \in Requests : call[r] = "reply" /\ exact[r] =>
        answer[r] \in RankResults(rows,
            [id \in ComicIDs |-> DistinctHits(StoredWords[id], query[r])], Limit)

(* What a client may rely on in spite of the stale index: SearchContract.    *)
(* GetById in the loop (106-113) is what keeps a comic out of the answer     *)
(* that was dropped before the call began.                                   *)
PhaseOf(place) == CASE place \in {"idle", "norm"} -> "free"
                    [] place = "reply"           -> "told"
                    [] OTHER                     -> "asked"
Phase == [r \in Requests |-> PhaseOf(call[r])]

Contract == INSTANCE SearchContract WITH phase <- Phase, phrase <- query, told <- answer

ImplementsSearchContract == Contract!Spec

(* from some point on the process lives, FindAll works and nobody drops *)
Undisturbed ==
    /\ process' = "down" => process = "down"
    /\ updater = "load" => updater' # "idle"
    /\ rows \subseteq rows'
    /\ subscription = "live" => subscription' = "live"

CalmAtLast == <>[][Undisturbed]_vars /\ []<>(inbox > 0)

(* One event repairs everything: once nothing disturbs the service and       *)
(* events still come, the index catches up with the whole table, whatever    *)
(* was missed before by a restart, a lost event or a failed FindAll.         *)
IndexCatchesUp == CalmAtLast => <>[](\A id \in rows : Indexed(id))

(* Every accepted call ends, in an answer or with its process, and a drained *)
(* process ends: GracefulStop cannot wait for ever.                          *)
CallsEnd ==
    /\ \A r \in Requests : call[r] # "idle" ~> call[r] = "idle"
    /\ process = "draining" ~> process = "down"

(***************************************************************************)
(* What the repository says of the service and the code does not keep      *)
(***************************************************************************)
(* README.md:435 promises an index built automatically at start.  A comic    *)
(* that was stored and announced before the process came up has to get into  *)
(* the index of a process that stays up, subscribed, and whose FindAll       *)
(* works.  Start (iniziator.go:34-63) only subscribes: without another       *)
(* event the index stays empty, and the TTL of README.md:437 is never read.  *)
UpForGood == <>[](process = "serving" /\ subscription = "live")
IndexBuiltAtStart ==
    UpForGood /\ (updater = "load" ~> updater = "merge") =>
        \A id \in ComicIDs :
            process = "down" /\ id \in rows \ pending ~> Indexed(id) \/ id \notin rows

(* The tests are run with the race detector (Makefile:21), so no write of a  *)
(* map may be due while another goroutine may read it.  UpdateIndex (24-33)  *)
(* and the loop of SearchIndex (71-77) share s.index and have no lock: Go's  *)
(* runtime may end the process at that moment, with every open call.         *)
NoIndexRace ==
    \A w, v \in Words, r \in Requests : ~(ENABLED Merge(w) /\ ENABLED LookUp(r, v))
=============================================================================

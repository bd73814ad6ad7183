--------------------------- MODULE SearchService ---------------------------
(***************************************************************************)
(* The search service: its core (search/core/service.go) with the database *)
(* adapter, the index initiator that subscribes to the update events, the  *)
(* gRPC handlers and the life of the process (search/main.go).             *)
(*                                                                         *)
(* One goroutine, the callback of the subscription, rebuilds the index one *)
(* event at a time and writes the map word by word; the handlers read the  *)
(* map with no lock.  The index is empty when the process starts and only  *)
(* grows.  One step is one call of an adapter or the work on one word.     *)
(***************************************************************************)
EXTENDS SearchRanking

CONSTANTS
    Requests,    \* gRPC calls of Search and SearchIndex that may be open
    Words,       \* normalised words
    Phrases,     \* the phrases of requests, as the set of words Norm makes of them
    MaxID,       \* bound on the number of comics
    StoredWords, \* the column `words` of each comic
    Limit,       \* the limit of every request; the gateway lets only limits over 0 pass
    MaxInbox     \* events the NATS client keeps for a busy subscriber

ComicIDs == 1 .. MaxID

ASSUME MaxIDAssumption    == MaxID \in Nat
ASSUME StoredAssumption   == StoredWords \in [ComicIDs -> Seq(Words)]
ASSUME PhrasesAssumption  == \A ws \in Phrases : ws \subseteq Words /\ IsFiniteSet(ws)
ASSUME LimitAssumption    == Limit \in Nat \ {0}
ASSUME MaxInboxAssumption == MaxInbox \in Nat \ {0}

VARIABLES
    rows,        \* table comics, which the update service writes
    process,     \* the search process: run of main.go
    subscription, \* of the goroutine of Start: none yet, live, over
    inbox,       \* events delivered and not yet taken by the callback
    updater,     \* the callback in UpdateIndex
    snapshot,    \* the result of FindAll still to be merged, per word
    index,       \* s.index
    call,        \* where each request is
    mode,        \* its method
    query,       \* its normalised words
    left,        \* the words its loop still has to look up
    score,       \* its comicsMatches
    picked,      \* the ids it still has to fetch
    answer,      \* the comics of its reply
    exact,       \* history: nothing has disturbed the request since it began to match
    missed       \* history: rows no event on its way, nor the index, will bring

lifecycle == <<process, subscription>>
feeding   == <<inbox, updater, snapshot, index, missed>>
requests  == <<call, mode, query, left, score, picked, answer, exact>>
searchVars == <<lifecycle, feeding, requests>>

NoScore == [id \in ComicIDs |-> 0]
NoIds   == [w \in Words |-> {}]
IdLists == [Words -> SUBSET ComicIDs]

ProcessTyped ==
    /\ process \in {"down", "connected", "serving", "draining", "closing"}
    /\ subscription \in {"none", "live", "over"}
    /\ inbox \in 0 .. MaxInbox
    /\ updater \in {"idle", "load", "merge"}
    /\ snapshot \in IdLists
    /\ index \in IdLists
    /\ missed \subseteq ComicIDs

RequestsTyped ==
    /\ call \in [Requests -> {"idle", "norm", "find", "match", "fetch", "reply"}]
    /\ mode \in [Requests -> {"Search", "SearchIndex"}]
    /\ query \in [Requests -> SUBSET Words]
    /\ left \in [Requests -> SUBSET Words]
    /\ score \in [Requests -> [ComicIDs -> Nat]]
    /\ picked \in [Requests -> Seq(ComicIDs)]
    /\ answer \in [Requests -> Seq(ComicIDs)]
    /\ exact \in [Requests -> BOOLEAN]

SearchInit ==
    /\ process = "down"
    /\ subscription = "none"
    /\ inbox = 0
    /\ updater = "idle"
    /\ snapshot = NoIds
    /\ index = NoIds
    /\ missed = {}
    /\ call = [r \in Requests |-> "idle"]
    /\ mode = [r \in Requests |-> "Search"]
    /\ query = [r \in Requests |-> {}]
    /\ left = [r \in Requests |-> {}]
    /\ score = [r \in Requests |-> NoScore]
    /\ picked = [r \in Requests |-> <<>>]
    /\ answer = [r \in Requests |-> <<>>]
    /\ exact = [r \in Requests |-> FALSE]

(* the index an undisturbed service would have for a table *)
IndexOf(ids) == [w \in Words |-> {id \in ids : Holds(StoredWords[id], w)}]

(***************************************************************************)
(* The process: run of search/main.go                                      *)
(***************************************************************************)
(* The process ends: subscription, index and open requests are gone; the     *)
(* container is restarted (compose.yaml), as a process in state down.        *)
Dies ==
    /\ process' = "down"
    /\ subscription' = "none"
    /\ inbox' = 0
    /\ updater' = "idle"
    /\ snapshot' = NoIds
    /\ index' = NoIds
    /\ missed' = rows
    /\ call' = [r \in Requests |-> "idle"]
    /\ mode' = [r \in Requests |-> "Search"]
    /\ query' = [r \in Requests |-> {}]
    /\ left' = [r \in Requests |-> {}]
    /\ score' = [r \in Requests |-> NoScore]
    /\ picked' = [r \in Requests |-> <<>>]
    /\ answer' = [r \in Requests |-> <<>>]
    /\ exact' = [r \in Requests |-> FALSE]

Enter(from, to) == process = from /\ process' = to

(* database, words and broker connections; a failure ends the new process *)
Connect ==
    /\ Enter("down", "connected")
    /\ UNCHANGED <<subscription, feeding, requests>>

(* the listener is up; the goroutine of Start may not have run yet *)
Listen ==
    /\ Enter("connected", "serving")
    /\ UNCHANGED <<subscription, feeding, requests>>

(* `go iniziator.Start`: subscribes whenever it gets to run, or panics *)
Subscribe ==
    /\ process # "down"
    /\ subscription = "none"
    /\ \/ subscription' = "live" /\ UNCHANGED <<process, feeding, requests>>
       \/ Dies

(* an interrupt: GracefulStop takes no new call and waits for the open ones *)
Interrupt ==
    /\ Enter("serving", "draining")
    /\ UNCHANGED <<subscription, feeding, requests>>

(* Serve returns only then; the defers run, iniziator.Stop closes stopCh *)
ServeReturns ==
    /\ Enter("draining", "closing")
    /\ \A r \in Requests : call[r] = "idle"
    /\ UNCHANGED <<subscription, feeding, requests>>

(* the goroutine of Start sees stopCh, if the process still gives it the time *)
Unsubscribe ==
    /\ process = "closing"
    /\ subscription = "live"
    /\ subscription' = "over"
    /\ inbox' = 0
    /\ missed' = missed \cup rows
    /\ UNCHANGED <<process, updater, snapshot, index, requests>>

Exit == process = "closing" /\ Dies

Crash == process # "down" /\ Dies

(***************************************************************************)
(* Events and UpdateIndex: the callback of the subscription                *)
(***************************************************************************)
(* mutant: the client queues without a bound *)
EventQueued(announced) ==
    /\ subscription = "live"
    /\ inbox' = inbox + 1
    /\ UNCHANGED missed

(* mutant: an event during a rebuild is taken for a repetition *)
EventUnlessBusy(announced) ==
    IF subscription = "live" /\ updater = "idle" /\ inbox < MaxInbox
    THEN inbox' = inbox + 1 /\ UNCHANGED missed
    ELSE UNCHANGED inbox /\ missed' = IF updater = "idle" THEN missed \cup announced ELSE missed

(* An event that announces some rows: NATS hands it to a subscriber that is  *)
(* there and has room, or to nobody.                                         *)
EventArrives(announced) ==
    \/ /\ subscription = "live"
       /\ inbox < MaxInbox
       /\ inbox' = inbox + 1
       /\ UNCHANGED missed
    \/ /\ missed' = missed \cup announced
       /\ UNCHANGED inbox

(* callbacks of one subscription run one after the other *)
TakeEvent ==
    /\ inbox > 0
    /\ updater = "idle"
    /\ inbox' = inbox - 1
    /\ updater' = "load"
    /\ UNCHANGED <<lifecycle, snapshot, index, missed, requests>>

(* writes to s.index, and to the table, disturb the searches that have begun *)
Disturb == exact' = [r \in Requests |-> FALSE]

(* FindAll: one query over the rows of this moment *)
FindAll ==
    /\ updater = "load"
    /\ updater' = "merge"
    /\ snapshot' = IndexOf(rows)
    /\ missed' = {}
    /\ Disturb
    /\ UNCHANGED <<lifecycle, inbox, index, call, mode, query, left, score, picked, answer>>

(* an error of FindAll is logged by the callback and forgotten *)
FindAllFails ==
    /\ updater = "load"
    /\ updater' = "idle"
    /\ missed' = missed \cup rows
    /\ UNCHANGED <<lifecycle, inbox, snapshot, index, requests>>

(* mutant: one map of ids is shared by all words *)
MergeShared(w) ==
    /\ updater = "merge"
    /\ snapshot[w] # {}
    /\ index' = [v \in Words |-> index[v] \cup snapshot[w]]
    /\ snapshot' = [snapshot EXCEPT ![w] = {}]
    /\ Disturb
    /\ UNCHANGED <<lifecycle, inbox, updater, missed, call, mode, query, left, score, picked, answer>>

(* mutant: a word the index has keeps its ids *)
MergeNewWords(w) ==
    /\ updater = "merge"
    /\ snapshot[w] # {}
    /\ index' = [index EXCEPT ![w] = IF @ = {} THEN snapshot[w] ELSE @]
    /\ snapshot' = [snapshot EXCEPT ![w] = {}]
    /\ Disturb
    /\ UNCHANGED <<lifecycle, inbox, updater, missed, call, mode, query, left, score, picked, answer>>

(* one turn of the loop: ids are added to a word, none is ever taken out *)
Merge(w) ==
    /\ updater = "merge"
    /\ snapshot[w] # {}
    /\ index' = [index EXCEPT ![w] = @ \cup snapshot[w]]
    /\ snapshot' = [snapshot EXCEPT ![w] = {}]
    /\ Disturb
    /\ UNCHANGED <<lifecycle, inbox, updater, missed, call, mode, query, left, score, picked, answer>>

Merged ==
    /\ updater = "merge"
    /\ snapshot = NoIds
    /\ updater' = "idle"
    /\ UNCHANGED <<lifecycle, inbox, snapshot, index, missed, requests>>

(***************************************************************************)
(* Search and SearchIndex: one request                                     *)
(***************************************************************************)
Goto(r, from, to) == call[r] = from /\ call' = [call EXCEPT ![r] = to]

Accept(r) ==
    /\ process = "serving"
    /\ Goto(r, "idle", "norm")
    /\ \E m \in {"Search", "SearchIndex"} : mode' = [mode EXCEPT ![r] = m]
    /\ UNCHANGED <<lifecycle, feeding, query, left, score, picked, answer, exact>>

(* words.Norm of the phrase, whose stop words may leave nothing *)
NormPhrase(r) ==
    /\ Goto(r, "norm", IF mode[r] = "Search" THEN "find" ELSE "match")
    /\ \E ws \in Phrases :
        /\ query' = [query EXCEPT ![r] = ws]
        /\ left' = [left EXCEPT ![r] = IF mode[r] = "Search" THEN {} ELSE ws]
    /\ exact' = [exact EXCEPT ![r] =
                    mode[r] = "SearchIndex" /\ updater # "merge" /\ index = IndexOf(rows)]
    /\ UNCHANGED <<lifecycle, feeding, mode, score, picked, answer>>

(* The rows are read one by one and rows.Err() is never asked: an error in   *)
(* between ends the loop, and the comics read so far are the whole answer.   *)
Find(r) ==
    /\ Goto(r, "find", "reply")
    /\ \E found \in FindResults(rows, StoredWords, query[r], Limit) :
        \E n \in 0 .. Len(found) : answer' = [answer EXCEPT ![r] = SubSeq(found, 1, n)]
    /\ UNCHANGED <<lifecycle, feeding, mode, query, left, score, picked, exact>>

(* mutant: a word is looked up once more *)
LookUpTwice(r, w) ==
    /\ call[r] = "match"
    /\ w \in left[r]
    /\ left' = [left EXCEPT ![r] = @ \ {w}]
    /\ score' = [score EXCEPT ![r] =
                    [id \in ComicIDs |-> @[id] + IF id \in index[w] THEN 2 ELSE 0]]
    /\ UNCHANGED <<lifecycle, feeding, call, mode, query, picked, answer, exact>>

(* Range over s.index[w].  While the callback writes the map the read is a   *)
(* race: it may see any part of what is there or comes, or Go's runtime      *)
(* detects it and ends the process.                                          *)
LookUp(r, w) ==
    /\ call[r] = "match"
    /\ w \in left[r]
    /\ \/ /\ \E seen \in IF updater = "merge" THEN SUBSET (index[w] \cup snapshot[w])
                         ELSE {index[w]} :
                score' = [score EXCEPT ![r] =
                            [id \in ComicIDs |-> @[id] + IF id \in seen THEN 1 ELSE 0]]
          /\ left' = [left EXCEPT ![r] = @ \ {w}]
          /\ UNCHANGED <<lifecycle, feeding, call, mode, query, picked, answer, exact>>
       \/ updater = "merge" /\ Dies

(* mutant: the ids are sorted, the scores are not looked at *)
PickById(r) ==
    /\ Goto(r, "match", "fetch")
    /\ left[r] = {}
    /\ \E ids \in RankResults(ComicIDs,
                      [id \in ComicIDs |-> IF score[r][id] > 0 THEN 1 ELSE 0], Limit) :
        picked' = [picked EXCEPT ![r] = ids]
    /\ UNCHANGED <<lifecycle, feeding, mode, query, left, score, answer, exact>>

(* sort by score, cut to the limit *)
Pick(r) ==
    /\ Goto(r, "match", "fetch")
    /\ left[r] = {}
    /\ \E ids \in RankResults(ComicIDs, score[r], Limit) : picked' = [picked EXCEPT ![r] = ids]
    /\ UNCHANGED <<lifecycle, feeding, mode, query, left, score, answer, exact>>

(* mutant: an id without a row is asked for again *)
GetByIdAgain(r) ==
    /\ call[r] = "fetch"
    /\ picked[r] # <<>>
    /\ Head(picked[r]) \in rows
    /\ picked' = [picked EXCEPT ![r] = Tail(@)]
    /\ answer' = [answer EXCEPT ![r] = Append(@, Head(picked[r]))]
    /\ UNCHANGED <<lifecycle, feeding, call, mode, query, left, score, exact>>

(* mutant: the ids of the index are answered without a look at the table *)
GetByIdBlind(r) ==
    /\ call[r] = "fetch"
    /\ picked[r] # <<>>
    /\ picked' = [picked EXCEPT ![r] = Tail(@)]
    /\ answer' = [answer EXCEPT ![r] = Append(@, Head(picked[r]))]
    /\ UNCHANGED <<lifecycle, feeding, call, mode, query, left, score, exact>>

(* GetById of one id: no row, or an error, and the id is left out *)
GetById(r) ==
    /\ call[r] = "fetch"
    /\ picked[r] # <<>>
    /\ picked' = [picked EXCEPT ![r] = Tail(@)]
    /\ \/ /\ Head(picked[r]) \in rows
          /\ answer' = [answer EXCEPT ![r] = Append(@, Head(picked[r]))]
          /\ UNCHANGED exact
       \/ /\ exact' = [exact EXCEPT ![r] = FALSE]
          /\ UNCHANGED answer
    /\ UNCHANGED <<lifecycle, feeding, call, mode, query, left, score>>

Fetched(r) ==
    /\ Goto(r, "fetch", "reply")
    /\ picked[r] = <<>>
    /\ UNCHANGED <<lifecycle, feeding, mode, query, left, score, picked, answer, exact>>

(* the handler returns, with an error if Norm or Find failed *)
Reply(r) ==
    /\ call[r] \in {"norm", "find", "reply"}
    /\ call' = [call EXCEPT ![r] = "idle"]
    /\ mode' = [mode EXCEPT ![r] = "Search"]
    /\ query' = [query EXCEPT ![r] = {}]
    /\ left' = [left EXCEPT ![r] = {}]
    /\ score' = [score EXCEPT ![r] = NoScore]
    /\ picked' = [picked EXCEPT ![r] = <<>>]
    /\ answer' = [answer EXCEPT ![r] = <<>>]
    /\ exact' = [exact EXCEPT ![r] = FALSE]
    /\ UNCHANGED <<lifecycle, feeding>>

CallbackStep == TakeEvent \/ FindAll \/ FindAllFails \/ Merged \/ \E w \in Words : Merge(w)

RequestStep(r) ==
    \/ NormPhrase(r) \/ Find(r) \/ Pick(r) \/ GetById(r) \/ Fetched(r) \/ Reply(r)
    \/ \E w \in Words : LookUp(r, w)

ProcessStep == ServeReturns \/ Exit

SearchNext ==
    \/ Connect \/ Listen \/ Subscribe \/ Interrupt \/ Unsubscribe \/ Crash \/ ProcessStep
    \/ CallbackStep
    \/ \E r \in Requests : Accept(r) \/ RequestStep(r)
=============================================================================

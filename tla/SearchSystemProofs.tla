------------------------- MODULE SearchSystemProofs -------------------------
(***************************************************************************)
(* Proofs about SearchSystem for any number of requests, words and comics: *)
(* where every row is, where every entry of the index comes from, and what *)
(* a score may be at most while the index is written beside the search.    *)
(***************************************************************************)
EXTENDS SearchSystem, FiniteSetTheorems, TLAPS

(***************************************************************************)
(* What a ranked list holds                                                *)
(***************************************************************************)
LEMMA CutList ==
  ASSUME NEW S, NEW n \in Nat, NEW s \in [1 .. n -> S], NEW limit \in Nat
  PROVE  Cut(s, limit) \in Seq(S)
<1>1. s \in Seq(S) /\ Len(s) = n
  OBVIOUS
<1>2. (IF limit < Len(s) THEN limit ELSE Len(s)) \in 0 .. Len(s)
  BY <1>1
<1>. QED
  BY <1>1, <1>2 DEF Cut

LEMMA ComicsFinite ==
  ASSUME NEW S \in SUBSET ComicIDs
  PROVE  IsFiniteSet(S) /\ Cardinality(S) \in Nat
<1>1. IsFiniteSet(ComicIDs)
  BY MaxIDAssumption, FS_Interval DEF ComicIDs
<1>. QED
  BY <1>1, FS_Subset, FS_CardinalityType

(* SearchIndex picks only what has a score *)
LEMMA RankedHaveScores ==
  ASSUME NEW scores \in [ComicIDs -> Nat],
         NEW ids \in RankResults(ComicIDs, scores, Limit)
  PROVE  ids \in Seq({id \in ComicIDs : scores[id] > 0})
<1>. DEFINE S == {id \in ComicIDs : scores[id] > 0}
<1>1. Cardinality(S) \in Nat
  BY ComicsFinite
<1>2. PICK s \in [1 .. Cardinality(S) -> S] : ids = Cut(s, Limit)
  BY DEF RankResults, Orderings
<1>. QED
  BY <1>1, <1>2, CutList, LimitAssumption

LEMMA FoundAreRows ==
  ASSUME rows \subseteq ComicIDs, NEW words,
         NEW found \in FindResults(rows, StoredWords, words, Limit)
  PROVE  found \in Seq(ComicIDs)
<1>. DEFINE S == Matching(rows, StoredWords, words)
<1>1. S \subseteq ComicIDs
  BY DEF Matching
<1>2. Cardinality(S) \in Nat
  BY <1>1, ComicsFinite
<1>3. PICK s \in [1 .. Cardinality(S) -> S] : found = Cut(s, Limit)
  BY DEF FindResults, Orderings
<1>4. s \in [1 .. Cardinality(S) -> ComicIDs]
  BY <1>1
<1>. HIDE DEF S
<1>. QED
  BY <1>2, <1>3, <1>4, CutList, LimitAssumption

(* the start of a list, as Find returns it when reading its rows breaks off *)
LEMMA PrefixList ==
  ASSUME NEW S, NEW s \in Seq(S), NEW n \in 0 .. Len(s)
  PROVE  SubSeq(s, 1, n) \in Seq(S)
<1>. QED
  OBVIOUS

(***************************************************************************)
(* The inductive invariant                                                 *)
(***************************************************************************)
(* A loop of SearchIndex has looked up the words of its phrase that it has   *)
(* left behind, and counts from nothing.                                     *)
LoopInv ==
    \A r \in Requests :
        /\ left[r] \subseteq query[r]
        /\ IsFiniteSet(query[r])
        /\ call[r] \in {"idle", "norm"} => score[r] = NoScore

IInv == TypeOK /\ LoopInv /\ RowsAccountedFor /\ DerivedFromRows /\ ScoresSound

LEMMA HitsCount ==
  ASSUME NEW list, NEW words, IsFiniteSet(words)
  PROVE  DistinctHits(list, words) \in Nat
<1>1. IsFiniteSet({w \in words : Holds(list, w)})
  BY FS_Subset
<1>. QED
  BY <1>1, FS_CardinalityType DEF DistinctHits

(* nothing is counted, so nothing is counted too high *)
LEMMA FreshRequests ==
  ASSUME \A r \in Requests : IsFiniteSet(query[r]) /\ score[r] = NoScore
  PROVE  ScoresSound
<1>. SUFFICES ASSUME NEW r \in Requests, NEW id \in ComicIDs
              PROVE  score[r][id] <= DistinctHits(StoredWords[id], query[r] \ left[r])
  BY DEF ScoresSound
<1>1. IsFiniteSet(query[r] \ left[r])
  BY FS_Subset
<1>. QED
  BY <1>1, HitsCount DEF NoScore

LEMMA InitIInv == Init => IInv
<1>. SUFFICES ASSUME Init PROVE IInv
  OBVIOUS
<1>. USE DEF Init, SearchInit, Update!Init
<1>1. TypeOK
  BY MaxInboxAssumption DEF TypeOK, ProcessTyped, RequestsTyped, NoIds, IdLists, NoScore
<1>2. LoopInv
  BY FS_EmptySet DEF LoopInv
<1>3. RowsAccountedFor
  BY DEF RowsAccountedFor
<1>4. DerivedFromRows
  BY DEF DerivedFromRows, NoIds, NoScore, Holds
<1>5. ScoresSound
  BY FS_EmptySet, FreshRequests
<1>. QED
  BY <1>1, <1>2, <1>3, <1>4, <1>5 DEF IInv

(***************************************************************************)
(* Steps that leave much alone                                             *)
(***************************************************************************)
LEMMA ScoresKept ==
  ASSUME LoopInv, ScoresSound, UNCHANGED <<call, query, left, score>>
  PROVE  LoopInv' /\ ScoresSound'
<1>. QED
  BY DEF LoopInv, ScoresSound

LEMMA PlacesKept ==
  ASSUME RowsAccountedFor, UNCHANGED <<rows, pending, inbox, updater, snapshot, index, missed>>
  PROVE  RowsAccountedFor'
<1>. QED
  BY DEF RowsAccountedFor

LEMMA SourcesKept ==
  ASSUME DerivedFromRows, UNCHANGED <<index, snapshot, score, picked>>,
         rows \cup dropped \subseteq rows' \cup dropped'
  PROVE  DerivedFromRows'
<1>. QED
  BY DEF DerivedFromRows

(***************************************************************************)
(* The process and the events                                              *)
(***************************************************************************)
LEMMA DiesStep ==
  ASSUME IInv, Dies, UNCHANGED <<rows, pending, dropped>>
  PROVE  IInv'
<1>. USE DEF Dies
<1>1. TypeOK'
  BY MaxInboxAssumption
     DEF IInv, TypeOK, ProcessTyped, RequestsTyped, NoIds, IdLists, NoScore
<1>2. LoopInv'
  BY FS_EmptySet DEF LoopInv
<1>3. RowsAccountedFor'
  BY DEF RowsAccountedFor
<1>4. DerivedFromRows'
  BY DEF DerivedFromRows, NoIds, NoScore, Holds
<1>5. ScoresSound'
  <2>. SUFFICES ASSUME NEW r \in Requests, NEW id \in ComicIDs
                PROVE  score'[r][id] <= DistinctHits(StoredWords[id], query'[r] \ left'[r])
    BY DEF ScoresSound
  <2>1. IsFiniteSet(query'[r] \ left'[r])
    BY FS_EmptySet
  <2>. QED
    BY <2>1, HitsCount DEF NoScore
<1>. QED
  BY <1>1, <1>2, <1>3, <1>4, <1>5 DEF IInv

(* the process moves, or nothing *)
LEMMA LifecycleStep ==
  ASSUME IInv, UNCHANGED <<feeding, requests, table>>,
         process' \in {"down", "connected", "serving", "draining", "closing"},
         subscription' \in {"none", "live", "over"}
  PROVE  IInv'
<1>. USE DEF feeding, requests, table
<1>1. TypeOK'
  BY DEF IInv, TypeOK, ProcessTyped, RequestsTyped
<1>2. LoopInv' /\ ScoresSound'
  BY ScoresKept DEF IInv
<1>3. RowsAccountedFor'
  BY PlacesKept DEF IInv
<1>4. DerivedFromRows'
  BY SourcesKept DEF IInv
<1>. QED
  BY <1>1, <1>2, <1>3, <1>4 DEF IInv

LEMMA ProcessStepIInv ==
  ASSUME IInv, UNCHANGED table,
         Connect \/ Listen \/ Subscribe \/ Interrupt \/ Crash \/ ProcessStep
  PROVE  IInv'
<1>1. CASE Dies
  BY <1>1, DiesStep DEF table
<1>2. ASSUME UNCHANGED <<feeding, requests>>,
             process' \in {"down", "connected", "serving", "draining", "closing"},
             subscription' \in {"none", "live", "over"}
      PROVE  IInv'
  BY <1>2, LifecycleStep DEF table
<1>3. process \in {"down", "connected", "serving", "draining", "closing"}
      /\ subscription \in {"none", "live", "over"}
  BY DEF IInv, TypeOK, ProcessTyped
<1>4. CASE Connect \/ Listen \/ Interrupt \/ ServeReturns
  BY <1>2, <1>3, <1>4 DEF Connect, Listen, Interrupt, ServeReturns, Enter
<1>5. CASE Subscribe
  BY <1>1, <1>2, <1>3, <1>5 DEF Subscribe
<1>6. CASE Crash \/ Exit
  BY <1>1, <1>6 DEF Crash, Exit
<1>. QED
  BY <1>4, <1>5, <1>6 DEF ProcessStep

(* the callback works on the index, the requests only lose their exactness *)
LEMMA FeedingKeepsRequests ==
  ASSUME IInv, UNCHANGED <<call, mode, query, left, score, picked, answer>>,
         exact' = exact \/ Disturb,
         ProcessTyped', UNCHANGED table, missed' \subseteq rows
  PROVE  TypeOK' /\ LoopInv' /\ ScoresSound'
<1>1. exact' \in [Requests -> BOOLEAN]
  BY DEF Disturb, IInv, TypeOK, RequestsTyped
<1>2. TypeOK'
  BY <1>1 DEF IInv, TypeOK, RequestsTyped, table
<1>. QED
  BY <1>2, ScoresKept DEF IInv

LEMMA CallbackStepIInv ==
  ASSUME IInv, UNCHANGED table, CallbackStep \/ Unsubscribe
  PROVE  IInv'
<1>. USE DEF lifecycle, feeding, requests, table
<1>. TypeOK /\ ProcessTyped /\ missed \subseteq rows /\ rows \subseteq ComicIDs
  BY DEF IInv, TypeOK
<1>1. CASE TakeEvent
  <2>1. ProcessTyped' /\ missed' \subseteq rows
    BY <1>1, MaxInboxAssumption DEF TakeEvent, ProcessTyped
  <2>2. TypeOK' /\ LoopInv' /\ ScoresSound'
    BY <1>1, <2>1, FeedingKeepsRequests DEF TakeEvent
  <2>3. RowsAccountedFor' /\ DerivedFromRows'
    BY <1>1, SourcesKept DEF TakeEvent, RowsAccountedFor, IInv
  <2>. QED
    BY <2>2, <2>3 DEF IInv
<1>2. CASE FindAll
  <2>1. snapshot' \in IdLists
    BY <1>2 DEF FindAll, IndexOf, IdLists
  <2>2. ProcessTyped' /\ missed' \subseteq rows
    BY <1>2, <2>1 DEF FindAll, ProcessTyped
  <2>3. TypeOK' /\ LoopInv' /\ ScoresSound'
    BY <1>2, <2>2, FeedingKeepsRequests DEF FindAll
  <2>4. RowsAccountedFor'
    BY <1>2 DEF FindAll, RowsAccountedFor, IndexOf
  <2>5. DerivedFromRows'
    BY <1>2 DEF FindAll, IndexOf, DerivedFromRows, IInv
  <2>. QED
    BY <2>3, <2>4, <2>5 DEF IInv
<1>3. CASE FindAllFails
  <2>1. ProcessTyped' /\ missed' \subseteq rows
    BY <1>3 DEF FindAllFails, ProcessTyped
  <2>2. TypeOK' /\ LoopInv' /\ ScoresSound'
    BY <1>3, <2>1, FeedingKeepsRequests DEF FindAllFails
  <2>3. RowsAccountedFor' /\ DerivedFromRows'
    BY <1>3, SourcesKept DEF FindAllFails, RowsAccountedFor, IInv
  <2>. QED
    BY <2>2, <2>3 DEF IInv
<1>4. ASSUME NEW w \in Words, Merge(w) PROVE IInv'
  <2>1. index' \in IdLists /\ snapshot' \in IdLists
    BY <1>4 DEF Merge, ProcessTyped, IdLists
  <2>2. ProcessTyped' /\ missed' \subseteq rows
    BY <1>4, <2>1 DEF Merge, ProcessTyped
  <2>3. TypeOK' /\ LoopInv' /\ ScoresSound'
    BY <1>4, <2>2, FeedingKeepsRequests DEF Merge
  <2>4. \A v \in Words : index'[v] \cup snapshot'[v] = index[v] \cup snapshot[v]
    BY <1>4 DEF Merge, ProcessTyped, IdLists
  <2>5. RowsAccountedFor'
    <3>1. UNCHANGED <<rows, pending, missed, inbox, updater>>
      BY <1>4 DEF Merge
    <3>. QED
      BY <2>4, <3>1 DEF RowsAccountedFor, IInv
  <2>6. DerivedFromRows'
    <3>1. UNCHANGED <<rows, dropped, score, picked>>
      BY <1>4 DEF Merge
    <3>. QED
      BY <2>4, <3>1 DEF DerivedFromRows, IInv
  <2>. QED
    BY <2>3, <2>5, <2>6 DEF IInv
<1>5. CASE Merged
  <2>1. ProcessTyped' /\ missed' \subseteq rows
    BY <1>5 DEF Merged, ProcessTyped
  <2>2. TypeOK' /\ LoopInv' /\ ScoresSound'
    BY <1>5, <2>1, FeedingKeepsRequests DEF Merged
  <2>3. RowsAccountedFor' /\ DerivedFromRows'
    BY <1>5, SourcesKept DEF Merged, RowsAccountedFor, IInv
  <2>. QED
    BY <2>2, <2>3 DEF IInv
<1>6. CASE Unsubscribe
  <2>1. ProcessTyped' /\ missed' \subseteq rows
    BY <1>6, MaxInboxAssumption DEF Unsubscribe, ProcessTyped
  <2>2. TypeOK' /\ LoopInv' /\ ScoresSound'
    BY <1>6, <2>1, FeedingKeepsRequests DEF Unsubscribe
  <2>3. RowsAccountedFor' /\ DerivedFromRows'
    BY <1>6, SourcesKept DEF Unsubscribe, RowsAccountedFor, IInv
  <2>. QED
    BY <2>2, <2>3 DEF IInv
<1>. QED
  BY <1>1, <1>2, <1>3, <1>4, <1>5, <1>6 DEF CallbackStep

(***************************************************************************)
(* Requests                                                                *)
(***************************************************************************)
LEMMA RequestKeepsRest ==
  ASSUME IInv, UNCHANGED <<lifecycle, feeding, table>>, RequestsTyped'
  PROVE  TypeOK' /\ RowsAccountedFor'
<1>. USE DEF lifecycle, feeding, table
<1>1. TypeOK'
  BY DEF IInv, TypeOK, ProcessTyped
<1>. QED
  BY <1>1, PlacesKept DEF IInv

(* the words looked up so far, and one more *)
LEMMA OneMoreHit ==
  ASSUME NEW list, NEW words, NEW rest, NEW w \in rest,
         rest \subseteq words, IsFiniteSet(words)
  PROVE  /\ DistinctHits(list, words \ (rest \ {w})) \in Nat
         /\ DistinctHits(list, words \ rest) \in Nat
         /\ DistinctHits(list, words \ (rest \ {w}))
               = DistinctHits(list, words \ rest) + (IF Holds(list, w) THEN 1 ELSE 0)
<1>. DEFINE S == {v \in words \ rest : Holds(list, v)}
            T == {v \in words \ (rest \ {w}) : Holds(list, v)}
<1>1. IsFiniteSet(words \ rest) /\ IsFiniteSet(words \ (rest \ {w}))
  BY FS_Subset
<1>2. IsFiniteSet(S) /\ w \notin S
  BY <1>1, FS_Subset
<1>3. T = IF Holds(list, w) THEN S \cup {w} ELSE S
  OBVIOUS
<1>4. Cardinality(T) = Cardinality(S) + (IF Holds(list, w) THEN 1 ELSE 0)
  <2>1. Cardinality(S) \in Nat
    BY <1>2, FS_CardinalityType
  <2>2. Cardinality(S \cup {w}) = Cardinality(S) + 1
    BY <1>2, FS_AddElement
  <2>. QED
    BY <1>3, <2>1, <2>2
<1>. QED
  BY <1>1, <1>4, HitsCount DEF DistinctHits

LEMMA LookUpStep ==
  ASSUME IInv, NEW r \in Requests, NEW w \in Words, LookUp(r, w), UNCHANGED table
  PROVE  IInv'
<1>1. CASE Dies
  BY <1>1, DiesStep DEF table
<1>2. CASE ~Dies
  <2>. USE DEF lifecycle, feeding, table
  <2>1. PICK seen \in SUBSET (index[w] \cup snapshot[w]) :
            score' = [score EXCEPT ![r] =
                         [id \in ComicIDs |-> @[id] + IF id \in seen THEN 1 ELSE 0]]
    BY <1>2 DEF LookUp
  <2>2. /\ w \in left[r] /\ call[r] = "match"
        /\ left' = [left EXCEPT ![r] = @ \ {w}]
        /\ UNCHANGED <<lifecycle, feeding, call, mode, query, picked, answer, exact>>
    BY <1>2 DEF LookUp
  <2>3. RequestsTyped
    BY DEF IInv, TypeOK
  <2>4. \A id \in ComicIDs : /\ score[r][id] \in Nat
                             /\ score'[r][id] = score[r][id] + IF id \in seen THEN 1 ELSE 0
    BY <2>1, <2>3 DEF RequestsTyped
  <2>5. score' \in [Requests -> [ComicIDs -> Nat]]
    BY <2>1, <2>3, <2>4 DEF RequestsTyped
  <2>6. \A q \in Requests : q # r => score'[q] = score[q] /\ left'[q] = left[q]
    BY <2>1, <2>2, <2>3 DEF RequestsTyped
  <2>7. left'[r] = left[r] \ {w}
    BY <2>2, <2>3 DEF RequestsTyped
  <2>8. RequestsTyped'
    BY <2>2, <2>3, <2>5 DEF RequestsTyped
  <2>9. LoopInv'
    BY <2>2, <2>6, <2>7 DEF IInv, LoopInv
  <2>10. \A id \in seen : Holds(StoredWords[id], w) /\ id \in rows \cup dropped
    BY <2>1 DEF IInv, DerivedFromRows
  <2>11. DerivedFromRows'
    <3>1. ASSUME NEW q \in Requests, NEW id \in ComicIDs, score'[q][id] > 0
          PROVE  id \in rows \cup dropped
      <4>1. CASE score[q][id] > 0
        BY <4>1 DEF IInv, DerivedFromRows
      <4>2. CASE ~(score[q][id] > 0)
        BY <2>4, <2>6, <2>10, <3>1, <4>2
      <4>. QED
        BY <4>1, <4>2
    <3>. QED
      BY <2>2, <3>1 DEF IInv, DerivedFromRows
  <2>12. ScoresSound'
    <3>. SUFFICES ASSUME NEW q \in Requests, NEW id \in ComicIDs
                  PROVE  score'[q][id] <= DistinctHits(StoredWords[id], query[q] \ left'[q])
      BY <2>2 DEF ScoresSound
    <3>1. score[q][id] <= DistinctHits(StoredWords[id], query[q] \ left[q])
      BY DEF IInv, ScoresSound
    <3>2. CASE q # r
      BY <2>6, <3>1, <3>2
    <3>3. CASE q = r
      <4>. DEFINE before == DistinctHits(StoredWords[id], query[r] \ left[r])
                  after  == DistinctHits(StoredWords[id], query[r] \ (left[r] \ {w}))
      <4>1. left[r] \subseteq query[r] /\ IsFiniteSet(query[r])
        BY DEF IInv, LoopInv
      <4>2. /\ before \in Nat /\ after \in Nat
            /\ after = before + (IF Holds(StoredWords[id], w) THEN 1 ELSE 0)
        BY <2>2, <4>1, OneMoreHit
      <4>3. score[r][id] \in Nat /\ score[r][id] <= before
        BY <2>4, <3>1, <3>3
      <4>4. score'[r][id] = score[r][id] + IF id \in seen THEN 1 ELSE 0
        BY <2>4
      <4>. HIDE DEF before, after
      <4>5. score'[r][id] <= after
        BY <2>10, <4>2, <4>3, <4>4
      <4>. QED
        BY <2>7, <3>3, <4>5 DEF after
    <3>. QED
      BY <3>2, <3>3
  <2>. QED
    BY <2>2, <2>8, <2>9, <2>11, <2>12, RequestKeepsRest DEF IInv
<1>. QED
  BY <1>1, <1>2

(* a request begins: it has its words and counts from nothing *)
LEMMA NormPhraseStep ==
  ASSUME IInv, NEW r \in Requests, NormPhrase(r), UNCHANGED table
  PROVE  IInv'
<1>. USE DEF lifecycle, feeding, table
<1>1. PICK ws \in Phrases :
         /\ query' = [query EXCEPT ![r] = ws]
         /\ left' = [left EXCEPT ![r] = IF mode[r] = "Search" THEN {} ELSE ws]
  BY DEF NormPhrase
<1>2. ws \subseteq Words /\ IsFiniteSet(ws)
  BY PhrasesAssumption
<1>3. /\ call[r] = "norm"
      /\ call' = [call EXCEPT ![r] = IF mode[r] = "Search" THEN "find" ELSE "match"]
      /\ UNCHANGED <<lifecycle, feeding, mode, score, picked, answer>>
      /\ exact' \in [Requests -> BOOLEAN]
  BY DEF NormPhrase, Goto, IInv, TypeOK, RequestsTyped
<1>4. RequestsTyped
  BY DEF IInv, TypeOK
<1>5. /\ query'[r] = ws /\ left'[r] \subseteq ws /\ call'[r] \in {"find", "match"}
      /\ \A q \in Requests : q # r => /\ query'[q] = query[q] /\ left'[q] = left[q]
                                      /\ call'[q] = call[q]
  BY <1>1, <1>3, <1>4 DEF RequestsTyped
<1>6. RequestsTyped'
  BY <1>1, <1>2, <1>3, <1>4 DEF RequestsTyped
<1>7. LoopInv'
  BY <1>2, <1>3, <1>5 DEF IInv, LoopInv
<1>8. DerivedFromRows'
  BY <1>3, SourcesKept DEF IInv
<1>9. ScoresSound'
  <2>. SUFFICES ASSUME NEW q \in Requests, NEW id \in ComicIDs
                PROVE  score[q][id] <= DistinctHits(StoredWords[id], query'[q] \ left'[q])
    BY <1>3 DEF ScoresSound
  <2>1. CASE q # r
    BY <1>5, <2>1 DEF IInv, ScoresSound
  <2>2. CASE q = r
    <3>1. score[r][id] = 0
      BY <1>3 DEF IInv, LoopInv, NoScore
    <3>2. IsFiniteSet(query'[r] \ left'[r])
      BY <1>2, <1>5, FS_Subset
    <3>. QED
      BY <2>2, <3>1, <3>2, HitsCount
  <2>. QED
    BY <2>1, <2>2
<1>. QED
  BY <1>3, <1>6, <1>7, <1>8, <1>9, RequestKeepsRest DEF IInv

(* the step changes neither the words nor the count of a request *)
LEMMA LaterRequestStep ==
  ASSUME IInv, NEW r \in Requests, UNCHANGED table,
         Accept(r) \/ Find(r) \/ Pick(r) \/ GetById(r) \/ Fetched(r)
  PROVE  IInv'
<1>. USE DEF lifecycle, feeding, table
<1>1. UNCHANGED <<lifecycle, feeding, query, left, score>>
  BY DEF Accept, Find, Pick, GetById, Fetched
<1>2. RequestsTyped /\ rows \subseteq ComicIDs
  BY DEF IInv, TypeOK
<1>4. call' \in [Requests -> {"idle", "norm", "find", "match", "fetch", "reply"}]
  BY <1>2 DEF Accept, Find, Pick, GetById, Fetched, Goto, RequestsTyped
<1>5. \A q \in Requests : call'[q] \in {"idle", "norm"} => call[q] \in {"idle", "norm"}
  BY <1>2 DEF Accept, Find, Pick, GetById, Fetched, Goto, RequestsTyped
<1>6. LoopInv' /\ ScoresSound'
  <2>1. LoopInv'
    BY <1>1, <1>5 DEF IInv, LoopInv
  <2>2. ScoresSound'
    BY <1>1 DEF IInv, ScoresSound
  <2>. QED
    BY <2>1, <2>2
<1>7. CASE Accept(r)
  <2>1. mode' \in [Requests -> {"Search", "SearchIndex"}] /\ UNCHANGED <<picked, answer, exact>>
    BY <1>2, <1>7 DEF Accept, RequestsTyped
  <2>2. RequestsTyped'
    BY <1>1, <1>2, <1>4, <2>1 DEF RequestsTyped
  <2>3. DerivedFromRows'
    BY <1>1, <2>1, SourcesKept DEF IInv
  <2>. QED
    BY <1>1, <1>6, <2>2, <2>3, RequestKeepsRest DEF IInv
<1>8. CASE Find(r)
  <2>. PICK found \in FindResults(rows, StoredWords, query[r], Limit) :
          \E n \in 0 .. Len(found) : answer' = [answer EXCEPT ![r] = SubSeq(found, 1, n)]
    BY <1>8 DEF Find
  <2>1. PICK n \in 0 .. Len(found) : answer' = [answer EXCEPT ![r] = SubSeq(found, 1, n)]
    OBVIOUS
  <2>2. SubSeq(found, 1, n) \in Seq(ComicIDs)
    BY <1>2, FoundAreRows, PrefixList
  <2>3. answer' \in [Requests -> Seq(ComicIDs)]
    BY <1>2, <2>1, <2>2 DEF RequestsTyped
  <2>4. UNCHANGED <<mode, picked, exact>>
    BY <1>8 DEF Find
  <2>5. RequestsTyped'
    BY <1>1, <1>2, <1>4, <2>3, <2>4 DEF RequestsTyped
  <2>6. DerivedFromRows'
    BY <1>1, <2>4, SourcesKept DEF IInv
  <2>. QED
    BY <1>1, <1>6, <2>5, <2>6, RequestKeepsRest DEF IInv
<1>9. CASE Pick(r)
  <2>1. PICK ids \in RankResults(ComicIDs, score[r], Limit) : picked' = [picked EXCEPT ![r] = ids]
    BY <1>9 DEF Pick
  <2>2. score[r] \in [ComicIDs -> Nat]
    BY <1>2 DEF RequestsTyped
  <2>3. ids \in Seq({id \in ComicIDs : score[r][id] > 0})
    BY <2>2, RankedHaveScores
  <2>4. ids \in Seq(ComicIDs) /\ \A id : Holds(ids, id) => id \in ComicIDs /\ score[r][id] > 0
    BY <2>3 DEF Holds
  <2>5. UNCHANGED <<mode, answer, exact>>
    BY <1>9 DEF Pick
  <2>6. /\ picked' \in [Requests -> Seq(ComicIDs)]
        /\ \A q \in Requests : picked'[q] = IF q = r THEN ids ELSE picked[q]
    BY <1>2, <2>1, <2>4 DEF RequestsTyped
  <2>7. RequestsTyped'
    BY <1>1, <1>2, <1>4, <2>5, <2>6 DEF RequestsTyped
  <2>8. DerivedFromRows'
    <3>1. ASSUME NEW q \in Requests, NEW id \in ComicIDs, Holds(picked'[q], id)
          PROVE  id \in rows \cup dropped
      <4>1. CASE q = r
        BY <2>4, <2>6, <3>1, <4>1 DEF IInv, DerivedFromRows
      <4>2. CASE q # r
        BY <2>6, <3>1, <4>2 DEF IInv, DerivedFromRows
      <4>. QED
        BY <4>1, <4>2
    <3>. QED
      BY <1>1, <3>1 DEF IInv, DerivedFromRows
  <2>. QED
    BY <1>1, <1>6, <2>7, <2>8, RequestKeepsRest DEF IInv
<1>10. CASE GetById(r)
  <2>1. /\ picked[r] \in Seq(ComicIDs) /\ picked[r] # <<>>
        /\ picked' = [picked EXCEPT ![r] = Tail(@)] /\ UNCHANGED mode
        /\ \/ answer' = answer
           \/ answer' = [answer EXCEPT ![r] = Append(@, Head(picked[r]))]
    BY <1>2, <1>10 DEF GetById, RequestsTyped
  <2>2. /\ Tail(picked[r]) \in Seq(ComicIDs) /\ Head(picked[r]) \in ComicIDs
        /\ \A id : Holds(Tail(picked[r]), id) => Holds(picked[r], id)
    <3>1. Tail(picked[r]) \in Seq(ComicIDs) /\ Head(picked[r]) \in ComicIDs
      BY <2>1
    <3>2. /\ DOMAIN Tail(picked[r]) = 1 .. Len(picked[r]) - 1
          /\ DOMAIN picked[r] = 1 .. Len(picked[r]) /\ Len(picked[r]) \in Nat
          /\ \A k \in 1 .. Len(picked[r]) - 1 : Tail(picked[r])[k] = picked[r][k + 1]
      BY <2>1
    <3>3. \A k \in 1 .. Len(picked[r]) - 1 : k + 1 \in 1 .. Len(picked[r])
      BY <3>2
    <3>. QED
      BY <3>1, <3>2, <3>3 DEF Holds
  <2>3. /\ picked' \in [Requests -> Seq(ComicIDs)]
        /\ \A q \in Requests : picked'[q] = IF q = r THEN Tail(picked[r]) ELSE picked[q]
    BY <1>2, <2>1, <2>2 DEF RequestsTyped
  <2>4. answer' \in [Requests -> Seq(ComicIDs)]
    <3>1. Append(answer[r], Head(picked[r])) \in Seq(ComicIDs)
      BY <1>2, <2>2 DEF RequestsTyped
    <3>. QED
      BY <1>2, <2>1, <3>1 DEF RequestsTyped
  <2>5. exact' \in [Requests -> BOOLEAN]
    BY <1>2, <1>10 DEF GetById, RequestsTyped
  <2>6. RequestsTyped'
    BY <1>1, <1>2, <1>4, <2>1, <2>3, <2>4, <2>5 DEF RequestsTyped
  <2>7. DerivedFromRows'
    BY <1>1, <2>2, <2>3 DEF IInv, DerivedFromRows
  <2>. QED
    BY <1>1, <1>6, <2>6, <2>7, RequestKeepsRest DEF IInv
<1>11. CASE Fetched(r)
  <2>1. UNCHANGED <<mode, picked, answer, exact>>
    BY <1>11 DEF Fetched
  <2>2. RequestsTyped'
    BY <1>1, <1>2, <1>4, <2>1 DEF RequestsTyped
  <2>3. DerivedFromRows'
    BY <1>1, <2>1, SourcesKept DEF IInv
  <2>. QED
    BY <1>1, <1>6, <2>2, <2>3, RequestKeepsRest DEF IInv
<1>. QED
  BY <1>7, <1>8, <1>9, <1>10, <1>11

LEMMA ReplyStep ==
  ASSUME IInv, NEW r \in Requests, Reply(r), UNCHANGED table
  PROVE  IInv'
<1>. USE DEF lifecycle, feeding, table
<1>1. RequestsTyped
  BY DEF IInv, TypeOK
<1>2. \A q \in Requests :
         \/ /\ call'[q] = "idle" /\ query'[q] = {} /\ left'[q] = {}
            /\ score'[q] = NoScore /\ picked'[q] = <<>>
         \/ /\ call'[q] = call[q] /\ query'[q] = query[q] /\ left'[q] = left[q]
            /\ score'[q] = score[q] /\ picked'[q] = picked[q]
  <2>1. ASSUME NEW q \in Requests, q = r
        PROVE  /\ call'[q] = "idle" /\ query'[q] = {} /\ left'[q] = {}
               /\ score'[q] = NoScore /\ picked'[q] = <<>>
    BY <1>1, <2>1 DEF Reply, RequestsTyped
  <2>2. ASSUME NEW q \in Requests, q # r
        PROVE  /\ call'[q] = call[q] /\ query'[q] = query[q] /\ left'[q] = left[q]
               /\ score'[q] = score[q] /\ picked'[q] = picked[q]
    BY <1>1, <2>2 DEF Reply, RequestsTyped
  <2>. QED
    BY <2>1, <2>2
<1>3. UNCHANGED <<lifecycle, feeding>>
  BY DEF Reply
<1>4. RequestsTyped'
  <2>1. NoScore \in [ComicIDs -> Nat]
    BY DEF NoScore
  <2>. QED
    BY <1>1, <2>1 DEF Reply, RequestsTyped
<1>5. LoopInv'
  BY <1>2, FS_EmptySet DEF IInv, LoopInv
<1>6. DerivedFromRows'
  BY <1>2, <1>3 DEF IInv, DerivedFromRows, NoScore, Holds
<1>7. ScoresSound'
  <2>. SUFFICES ASSUME NEW q \in Requests, NEW id \in ComicIDs
                PROVE  score'[q][id] <= DistinctHits(StoredWords[id], query'[q] \ left'[q])
    BY DEF ScoresSound
  <2>1. CASE query'[q] = query[q] /\ left'[q] = left[q] /\ score'[q] = score[q]
    BY <2>1 DEF IInv, ScoresSound
  <2>2. CASE query'[q] = {} /\ left'[q] = {} /\ score'[q] = NoScore
    <3>1. IsFiniteSet(query'[q] \ left'[q])
      BY <2>2, FS_EmptySet
    <3>. QED
      BY <2>2, <3>1, HitsCount DEF NoScore
  <2>. QED
    BY <1>2, <2>1, <2>2
<1>. QED
  BY <1>3, <1>4, <1>5, <1>6, <1>7, RequestKeepsRest DEF IInv

(***************************************************************************)
(* The update service                                                      *)
(***************************************************************************)
(* the table changes, or what is said of it; requests lose their exactness *)
LEMMA TableStep ==
  ASSUME IInv, UNCHANGED <<lifecycle, updater, snapshot, index,
                           call, mode, query, left, score, picked, answer>>,
         exact' = exact \/ Disturb,
         rows' \subseteq ComicIDs, pending' \subseteq ComicIDs,
         dropped' \subseteq ComicIDs \ rows', missed' \subseteq rows',
         inbox' \in 0 .. MaxInbox,
         rows \cup dropped \subseteq rows' \cup dropped', RowsAccountedFor'
  PROVE  IInv'
<1>1. exact' \in [Requests -> BOOLEAN]
  BY DEF Disturb, IInv, TypeOK, RequestsTyped
<1>2. TypeOK'
  BY <1>1 DEF IInv, TypeOK, ProcessTyped, RequestsTyped, lifecycle
<1>3. DerivedFromRows'
  BY SourcesKept DEF IInv
<1>. QED
  BY <1>2, <1>3, ScoresKept DEF IInv

LEMMA UpdateStepIInv ==
  ASSUME IInv, Drop \/ Announce \/ \E id \in ComicIDs : Store(id)
  PROVE  IInv'
<1>. USE DEF lifecycle, requests
<1>1. /\ rows \subseteq ComicIDs /\ pending \subseteq ComicIDs /\ missed \subseteq rows
      /\ dropped \subseteq ComicIDs \ rows /\ inbox \in 0 .. MaxInbox
  BY DEF IInv, TypeOK, ProcessTyped
<1>2. ASSUME NEW id \in ComicIDs, Store(id) PROVE IInv'
  <2>1. RowsAccountedFor'
    BY <1>2 DEF Store, Update!Store, TableChanges, IInv, RowsAccountedFor
  <2>. QED
    BY <1>1, <1>2, <2>1, TableStep DEF Store, Update!Store, TableChanges
<1>3. CASE Drop
  <2>1. RowsAccountedFor'
    BY <1>3 DEF Drop, Update!Drop, RowsAccountedFor
  <2>. QED
    BY <1>1, <1>3, <2>1, TableStep DEF Drop, Update!Drop, TableChanges
<1>4. CASE Announce
  <2>1. /\ inbox' \in 0 .. MaxInbox /\ missed' \subseteq rows
        /\ UNCHANGED <<rows, dropped, updater, snapshot, index>> /\ pending' = {}
    BY <1>1, <1>4, MaxInboxAssumption DEF Announce, Update!Announce, EventArrives
  <2>2. inbox' > 0 \/ (inbox' = inbox /\ missed' = missed \cup (pending \cap rows))
    BY <1>1, <1>4, MaxInboxAssumption DEF Announce, EventArrives
  <2>3. RowsAccountedFor'
    BY <2>1, <2>2 DEF IInv, RowsAccountedFor
  <2>. QED
    BY <1>1, <1>4, <2>1, <2>3, TableStep DEF Announce
<1>. QED
  BY <1>2, <1>3, <1>4

LEMMA NextIInv == IInv /\ [Next]_vars => IInv'
<1>. SUFFICES ASSUME IInv, [Next]_vars PROVE IInv'
  OBVIOUS
<1>1. CASE SearchStep
  <2>1. UNCHANGED table /\ SearchNext
    BY <1>1 DEF SearchStep
  <2>2. ASSUME NEW r \in Requests, Accept(r) \/ RequestStep(r) PROVE IInv'
    BY <2>1, <2>2, NormPhraseStep, LaterRequestStep, ReplyStep, LookUpStep DEF RequestStep
  <2>. QED
    BY <2>1, <2>2, ProcessStepIInv, CallbackStepIInv DEF SearchNext
<1>2. CASE UNCHANGED vars
  <2>1. UNCHANGED <<feeding, requests, table, process, subscription>>
    BY <1>2 DEF vars, searchVars, lifecycle
  <2>. QED
    BY <2>1, LifecycleStep DEF IInv, TypeOK, ProcessTyped
<1>. QED
  BY <1>1, <1>2, UpdateStepIInv DEF Next

LEMMA IInvariant == Spec => []IInv
<1>. QED
  BY InitIInv, NextIInv, PTL DEF Spec

(***************************************************************************)
(* Exact answers: the second inductive invariant, on top of the first      *)
(***************************************************************************)
Best(r) ==
    RankResults(rows, [id \in ComicIDs |-> DistinctHits(StoredWords[id], query[r])], Limit)

(* What holds of a request that nothing has disturbed: the index is level    *)
(* with the table, the scores count the words looked up, and what it has     *)
(* answered and will still fetch is the best there is.                       *)
ExactFor(r) ==
    /\ updater # "merge" /\ index = IndexOf(rows)
    /\ \/ /\ call[r] = "match"
          /\ \A id \in ComicIDs :
                score[r][id] = IF id \in rows
                               THEN DistinctHits(StoredWords[id], query[r] \ left[r]) ELSE 0
       \/ call[r] = "fetch" /\ answer[r] \o picked[r] \in Best(r)
       \/ call[r] = "reply" /\ answer[r] \in Best(r)

ExactInv ==
    \A r \in Requests :
        /\ call[r] \in {"idle", "norm", "match"} => answer[r] = <<>>
        /\ exact[r] => ExactFor(r)

(* picking by exact scores is picking the best rows *)
LEMMA BestPicked ==
  ASSUME NEW ids, ids \subseteq ComicIDs, NEW scores, NEW hits,
         \A id \in ComicIDs : hits[id] \in Nat,
         \A id \in ComicIDs : scores[id] = IF id \in ids THEN hits[id] ELSE 0
  PROVE  RankResults(ComicIDs, scores, Limit) = RankResults(ids, hits, Limit)
<1>. DEFINE S == {id \in ComicIDs : scores[id] > 0}
            T == {id \in ids : hits[id] > 0}
<1>1. S = T
  OBVIOUS
<1>2. \A id \in S : scores[id] = hits[id]
  OBVIOUS
<1>3. {p \in S \X S : \/ scores[p[1]] > scores[p[2]]
                      \/ scores[p[1]] = scores[p[2]] /\ p[1] < p[2]}
         = {p \in T \X T : \/ hits[p[1]] > hits[p[2]]
                           \/ hits[p[1]] = hits[p[2]] /\ p[1] < p[2]}
  <2>. HIDE DEF S, T
  <2>. QED
    BY <1>1, <1>2
<1>. QED
  BY <1>1, <1>3 DEF RankResults

(* an id that moves from the end of one list to the front of the other *)
LEMMA OneFetched ==
  ASSUME NEW S, NEW got \in Seq(S), NEW due \in Seq(S), due # <<>>
  PROVE  Append(got, Head(due)) \o Tail(due) = got \o due
<1>. QED
  OBVIOUS

LEMMA InitExact == Init => ExactInv
<1>. QED
  BY DEF Init, SearchInit, ExactInv

(* the process dies, and its requests with it *)
LEMMA DiesExact ==
  ASSUME Dies
  PROVE  ExactInv'
<1>. QED
  BY DEF Dies, ExactInv

(* what disturbs the searches leaves none of them exact *)
LEMMA DisturbExact ==
  ASSUME ExactInv, Disturb, UNCHANGED <<call, answer>>
  PROVE  ExactInv'
<1>. QED
  BY DEF ExactInv, Disturb

(* nothing happens that a search can see *)
LEMMA UnseenExact ==
  ASSUME ExactInv, UNCHANGED <<requests, rows, index>>,
         updater' = "merge" => updater = "merge"
  PROVE  ExactInv'
<1>. QED
  BY DEF ExactInv, ExactFor, Best, requests

(* one request moves *)
LEMMA OneMoves ==
  ASSUME ExactInv, NEW r \in Requests, UNCHANGED <<rows, index, updater>>,
         \A q \in Requests \ {r} :
            /\ call'[q] = call[q] /\ query'[q] = query[q] /\ left'[q] = left[q]
            /\ score'[q] = score[q] /\ picked'[q] = picked[q]
            /\ answer'[q] = answer[q] /\ exact'[q] = exact[q],
         call'[r] \in {"idle", "norm", "match"} => answer'[r] = <<>>,
         exact'[r] => ExactFor(r)'
  PROVE  ExactInv'
<1>. SUFFICES ASSUME NEW q \in Requests
              PROVE  /\ call'[q] \in {"idle", "norm", "match"} => answer'[q] = <<>>
                     /\ exact'[q] => ExactFor(q)'
  BY DEF ExactInv
<1>1. CASE q = r
  BY <1>1
<1>2. CASE q # r
  <2>1. /\ call'[q] = call[q] /\ query'[q] = query[q] /\ left'[q] = left[q]
        /\ score'[q] = score[q] /\ picked'[q] = picked[q]
        /\ answer'[q] = answer[q] /\ exact'[q] = exact[q]
    BY <1>2
  <2>2. Best(q)' = Best(q)
    BY <2>1 DEF Best
  <2>3. /\ call[q] \in {"idle", "norm", "match"} => answer[q] = <<>>
        /\ exact[q] => ExactFor(q)
    BY DEF ExactInv
  <2>4. ExactFor(q) => ExactFor(q)'
    BY <2>1, <2>2 DEF ExactFor, IndexOf
  <2>. QED
    BY <2>1, <2>3, <2>4
<1>. QED
  BY <1>1, <1>2

LEMMA LookUpExact ==
  ASSUME IInv, ExactInv, NEW r \in Requests, NEW w \in Words, LookUp(r, w), UNCHANGED table
  PROVE  ExactInv'
<1>1. CASE Dies
  BY <1>1, DiesExact
<1>2. CASE ~Dies
  <2>. USE DEF lifecycle, feeding, table
  <2>1. /\ RequestsTyped /\ rows \subseteq ComicIDs
        /\ exact[r] => ExactFor(r)
    BY DEF IInv, TypeOK, ExactInv
  <2>2. /\ w \in left[r] /\ call[r] = "match" /\ left' = [left EXCEPT ![r] = @ \ {w}]
        /\ UNCHANGED <<feeding, call, query, picked, answer, exact>>
    BY <1>2 DEF LookUp
  <2>3. \A id \in ComicIDs :
           LET before == DistinctHits(StoredWords[id], query[r] \ left[r])
               after  == DistinctHits(StoredWords[id], query[r] \ (left[r] \ {w}))
           IN  /\ before \in Nat /\ after \in Nat
               /\ after = before + (IF Holds(StoredWords[id], w) THEN 1 ELSE 0)
    <3>. DEFINE words == query[r]
                rest  == left[r]
    <3>1. rest \subseteq words /\ IsFiniteSet(words) /\ w \in rest
      BY <2>2 DEF IInv, LoopInv
    <3>. HIDE DEF words, rest
    <3>2. ASSUME NEW list
          PROVE  /\ DistinctHits(list, words \ (rest \ {w})) \in Nat
                 /\ DistinctHits(list, words \ rest) \in Nat
                 /\ DistinctHits(list, words \ (rest \ {w}))
                       = DistinctHits(list, words \ rest) + (IF Holds(list, w) THEN 1 ELSE 0)
      BY <3>1, OneMoreHit
    <3>. QED
      BY <3>2 DEF words, rest
  <2>4. PICK seen : /\ updater # "merge" => seen = index[w]
                    /\ score' = [score EXCEPT ![r] =
                          [id \in ComicIDs |-> @[id] + IF id \in seen THEN 1 ELSE 0]]
    BY <1>2 DEF LookUp
  <2>5. /\ left'[r] = left[r] \ {w}
        /\ \A id \in ComicIDs :
              score'[r][id] = score[r][id] + IF id \in seen THEN 1 ELSE 0
    BY <2>1, <2>2, <2>4 DEF RequestsTyped
  <2>6. ASSUME exact[r] PROVE ExactFor(r)'
    <3>1. /\ updater # "merge" /\ index = IndexOf(rows)
          /\ \A id \in ComicIDs :
                score[r][id] = IF id \in rows
                               THEN DistinctHits(StoredWords[id], query[r] \ left[r]) ELSE 0
      BY <2>1, <2>2, <2>6 DEF ExactFor
    <3>2. \A id \in ComicIDs : id \in seen <=> id \in rows /\ Holds(StoredWords[id], w)
      BY <2>1, <2>4, <3>1 DEF IndexOf
    <3>3. ASSUME NEW id \in ComicIDs
          PROVE  score'[r][id]
                   = IF id \in rows
                     THEN DistinctHits(StoredWords[id], query[r] \ (left[r] \ {w})) ELSE 0
      <4>. DEFINE before == DistinctHits(StoredWords[id], query[r] \ left[r])
                  after  == DistinctHits(StoredWords[id], query[r] \ (left[r] \ {w}))
      <4>1. /\ before \in Nat /\ after \in Nat
            /\ after = before + (IF Holds(StoredWords[id], w) THEN 1 ELSE 0)
        BY <2>3
      <4>2. score[r][id] = IF id \in rows THEN before ELSE 0
        BY <3>1
      <4>. HIDE DEF before, after
      <4>3. score'[r][id] = IF id \in rows THEN after ELSE 0
        BY <2>5, <3>2, <4>1, <4>2
      <4>. QED
        BY <4>3 DEF after
    <3>. QED
      BY <2>2, <2>5, <3>1, <3>3 DEF ExactFor, IndexOf
  <2>7. call'[r] = "match" /\ answer'[r] = <<>> /\ (exact'[r] => ExactFor(r)')
    BY <2>2, <2>6 DEF ExactInv
  <2>. QED
    BY <2>1, <2>2, <2>4, <2>7, OneMoves DEF RequestsTyped
<1>. QED
  BY <1>1, <1>2

LEMMA RequestExact ==
  ASSUME IInv, ExactInv, UNCHANGED table,
         NEW r \in Requests, Accept(r) \/ RequestStep(r)
  PROVE  ExactInv'
<1>. USE DEF lifecycle, feeding, table
<1>1. /\ RequestsTyped /\ rows \subseteq ComicIDs
      /\ left[r] \subseteq query[r] /\ IsFiniteSet(query[r])
      /\ call[r] \in {"idle", "norm"} => score[r] = NoScore
  BY DEF IInv, TypeOK, LoopInv
<1>2. /\ call[r] \in {"idle", "norm", "match"} => answer[r] = <<>>
      /\ exact[r] => ExactFor(r)
  BY DEF ExactInv
<1>3. CASE Accept(r)
  <2>1. call[r] = "idle" /\ call'[r] = "norm" /\ ~exact'[r] /\ answer'[r] = <<>>
    BY <1>1, <1>2, <1>3 DEF Accept, Goto, RequestsTyped, ExactFor
  <2>. QED
    BY <1>1, <1>3, <2>1, OneMoves DEF Accept, Goto, RequestsTyped
<1>4. CASE NormPhrase(r)
  <2>1. /\ call[r] = "norm" /\ answer'[r] = <<>> /\ score'[r] = NoScore
        /\ UNCHANGED <<rows, index, updater>>
    BY <1>1, <1>2, <1>4 DEF NormPhrase, Goto
  <2>2. exact'[r] => ExactFor(r)'
    <3>. SUFFICES ASSUME exact'[r] PROVE ExactFor(r)'
      OBVIOUS
    <3>1. mode[r] = "SearchIndex" /\ updater # "merge" /\ index = IndexOf(rows)
      BY <1>1, <1>4 DEF NormPhrase, RequestsTyped
    <3>2. call'[r] = "match" /\ query'[r] = left'[r]
      BY <1>1, <1>4, <3>1 DEF NormPhrase, Goto, RequestsTyped
    <3>3. \A id \in ComicIDs :
             score'[r][id] = 0 /\ DistinctHits(StoredWords[id], query'[r] \ left'[r]) = 0
      BY <2>1, <3>2, FS_EmptySet DEF NoScore, DistinctHits
    <3>. QED
      BY <2>1, <3>1, <3>2, <3>3 DEF ExactFor, IndexOf
  <2>. QED
    BY <1>1, <1>4, <2>1, <2>2, OneMoves DEF NormPhrase, Goto, RequestsTyped
<1>5. CASE Find(r)
  <2>1. call[r] = "find" /\ call'[r] = "reply" /\ ~exact'[r]
    BY <1>1, <1>2, <1>5 DEF Find, Goto, RequestsTyped, ExactFor
  <2>. QED
    BY <1>1, <1>5, <2>1, OneMoves DEF Find, Goto, RequestsTyped
<1>6. ASSUME NEW w \in Words, LookUp(r, w) PROVE ExactInv'
  BY <1>6, LookUpExact
<1>7. CASE Pick(r)
  <2>1. /\ call[r] = "match" /\ call'[r] = "fetch" /\ left[r] = {}
        /\ UNCHANGED <<rows, index, updater, query, score, left, answer, exact>>
    BY <1>1, <1>7 DEF Pick, Goto, RequestsTyped
  <2>2. PICK ids \in RankResults(ComicIDs, score[r], Limit) : picked' = [picked EXCEPT ![r] = ids]
    BY <1>7 DEF Pick
  <2>3. exact[r] => ExactFor(r)'
    <3>. SUFFICES ASSUME exact[r] PROVE ExactFor(r)'
      OBVIOUS
    <3>. DEFINE hits == [id \in ComicIDs |-> DistinctHits(StoredWords[id], query[r])]
    <3>1. /\ updater # "merge" /\ index = IndexOf(rows) /\ query[r] \ left[r] = query[r]
          /\ \A id \in ComicIDs :
                score[r][id] = IF id \in rows
                               THEN DistinctHits(StoredWords[id], query[r] \ left[r]) ELSE 0
      BY <1>2, <2>1 DEF ExactFor
    <3>2. \A id \in ComicIDs : hits[id] \in Nat
      BY <1>1, HitsCount
    <3>3. \A id \in ComicIDs : score[r][id] = IF id \in rows THEN hits[id] ELSE 0
      BY <3>1
    <3>4. ids \in Best(r)
      <4>. HIDE DEF hits
      <4>1. RankResults(ComicIDs, score[r], Limit) = RankResults(rows, hits, Limit)
        BY <1>1, <3>2, <3>3, BestPicked
      <4>. QED
        BY <2>2, <4>1 DEF hits, Best
    <3>5. score[r] \in [ComicIDs -> Nat]
      BY <1>1 DEF RequestsTyped
    <3>6. ids \in Seq(ComicIDs)
      <4>1. ids \in Seq({id \in ComicIDs : score[r][id] > 0})
        BY <2>2, <3>5, RankedHaveScores
      <4>. QED
        BY <4>1
    <3>7. answer'[r] = <<>> /\ picked'[r] = ids /\ <<>> \o ids = ids
      BY <1>1, <1>2, <2>1, <2>2, <3>6 DEF RequestsTyped
    <3>. QED
      BY <2>1, <3>1, <3>4, <3>7 DEF ExactFor, Best
  <2>. QED
    BY <1>1, <1>7, <2>1, <2>3, OneMoves DEF Pick, Goto, RequestsTyped
<1>8. CASE GetById(r)
  <2>1. /\ call[r] = "fetch" /\ picked[r] \in Seq(ComicIDs) /\ picked[r] # <<>>
        /\ answer[r] \in Seq(ComicIDs)
        /\ UNCHANGED <<rows, index, updater, call, query, left, score>>
    BY <1>1, <1>8 DEF GetById, RequestsTyped
  <2>2. exact'[r] => ExactFor(r)'
    <3>. SUFFICES ASSUME exact'[r] PROVE ExactFor(r)'
      OBVIOUS
    <3>1. /\ exact[r] /\ picked'[r] = Tail(picked[r])
          /\ answer'[r] = Append(answer[r], Head(picked[r]))
      BY <1>1, <1>8 DEF GetById, RequestsTyped
    <3>2. answer'[r] \o picked'[r] = answer[r] \o picked[r]
      <4>1. Append(answer[r], Head(picked[r])) \o Tail(picked[r]) = answer[r] \o picked[r]
        BY <2>1, OneFetched
      <4>. QED
        BY <3>1, <4>1
    <3>. QED
      BY <1>2, <2>1, <3>1, <3>2 DEF ExactFor, Best
  <2>. QED
    BY <1>1, <1>8, <2>1, <2>2, OneMoves DEF GetById, RequestsTyped
<1>9. CASE Fetched(r)
  <2>1. /\ call[r] = "fetch" /\ call'[r] = "reply" /\ picked[r] = <<>> /\ answer[r] \in Seq(ComicIDs)
        /\ UNCHANGED <<rows, index, updater, query, left, score, picked, answer, exact>>
    BY <1>1, <1>9 DEF Fetched, Goto, RequestsTyped
  <2>2. answer[r] \o picked[r] = answer[r]
    BY <2>1
  <2>3. exact[r] => ExactFor(r)'
    BY <1>2, <2>1, <2>2 DEF ExactFor, Best
  <2>. QED
    BY <1>1, <1>9, <2>1, <2>3, OneMoves DEF Fetched, Goto, RequestsTyped
<1>10. CASE Reply(r)
  <2>1. call'[r] = "idle" /\ answer'[r] = <<>> /\ ~exact'[r]
    BY <1>1, <1>10 DEF Reply, RequestsTyped
  <2>. QED
    BY <1>1, <1>10, <2>1, OneMoves DEF Reply, RequestsTyped
<1>. QED
  BY <1>3, <1>4, <1>5, <1>6, <1>7, <1>8, <1>9, <1>10 DEF RequestStep

LEMMA NextExact == IInv /\ ExactInv /\ [Next]_vars => ExactInv'
<1>. SUFFICES ASSUME IInv, ExactInv, [Next]_vars PROVE ExactInv'
  OBVIOUS
<1>. USE DEF lifecycle, feeding, table
<1>1. CASE UNCHANGED vars
  BY <1>1, UnseenExact DEF vars, searchVars
<1>2. CASE \/ Drop \/ \E id \in ComicIDs : Store(id)
  BY <1>2, DisturbExact DEF Drop, Store, TableChanges
<1>3. CASE Announce
  BY <1>3, UnseenExact DEF Announce, Update!Announce
<1>4. CASE SearchStep
  <2>1. UNCHANGED table /\ SearchNext
    BY <1>4 DEF SearchStep
  <2>2. CASE Dies
    BY <2>2, DiesExact
  <2>3. CASE ~Dies /\ (Connect \/ Listen \/ Subscribe \/ Interrupt \/ Crash \/ ProcessStep)
    BY <2>1, <2>3, UnseenExact
       DEF Connect, Listen, Subscribe, Interrupt, Crash, ProcessStep, ServeReturns, Exit, Enter
  <2>4. CASE Unsubscribe
    BY <2>1, <2>4, UnseenExact DEF Unsubscribe
  <2>5. CASE CallbackStep
    <3>1. CASE TakeEvent \/ FindAllFails \/ Merged
      BY <2>1, <3>1, UnseenExact DEF TakeEvent, FindAllFails, Merged
    <3>2. CASE FindAll \/ \E w \in Words : Merge(w)
      BY <3>2, DisturbExact DEF FindAll, Merge
    <3>. QED
      BY <2>5, <3>1, <3>2 DEF CallbackStep
  <2>6. CASE \E r \in Requests : Accept(r) \/ RequestStep(r)
    BY <2>1, <2>6, RequestExact
  <2>. QED
    BY <2>1, <2>2, <2>3, <2>4, <2>5, <2>6 DEF SearchNext
<1>. QED
  BY <1>1, <1>2, <1>3, <1>4 DEF Next

(***************************************************************************)
(* The refinement of SearchContract                                        *)
(***************************************************************************)
Distinct(s) == \A i, j \in 1 .. Len(s) : i # j => s[i] # s[j]

Matches(id, words) == \E w \in words : Holds(StoredWords[id], w)

(* what a request still has to fetch matches, is new, and fits the limit *)
FetchFor(words, got, due) ==
    /\ Distinct(due)
    /\ \A id : Holds(due, id) => Matches(id, words) /\ ~Holds(got, id)
    /\ Len(got) + Len(due) <= Limit

TellInv ==
    \A r \in Requests :
        /\ call[r] \in {"idle", "norm"} => query[r] = {}
        /\ call[r] \in {"idle", "norm", "find", "match"} => answer[r] = <<>>
        /\ call[r] = "fetch" => FetchFor(query[r], answer[r], picked[r])

(* a cut ordering repeats nothing and keeps to the limit *)
LEMMA CutIsDistinct ==
  ASSUME NEW S, S \subseteq ComicIDs, NEW before, NEW s \in Orderings(S, before)
  PROVE  Cut(s, Limit) \in Seq(S) /\ Distinct(Cut(s, Limit)) /\ Len(Cut(s, Limit)) <= Limit
<1>. DEFINE n == Cardinality(S)
            m == IF Limit < n THEN Limit ELSE n
<1>1. n \in Nat /\ m \in 0 .. n /\ m <= Limit
  BY ComicsFinite, LimitAssumption
<1>2. s \in [1 .. n -> S] /\ \A i, j \in 1 .. n : i < j => s[i] # s[j]
  BY DEF Orderings
<1>. HIDE DEF n
<1>3. s \in Seq(S) /\ Len(s) = n
  BY <1>1, <1>2
<1>4. Cut(s, Limit) = SubSeq(s, 1, m)
  BY <1>3 DEF Cut
<1>. HIDE DEF m
<1>5. /\ SubSeq(s, 1, m) \in Seq(S) /\ Len(SubSeq(s, 1, m)) = m
      /\ \A i \in 1 .. m : SubSeq(s, 1, m)[i] = s[i] /\ i \in 1 .. n
  BY <1>1, <1>3
<1>6. \A i, j \in 1 .. m : i # j => s[i] # s[j]
  <2>1. ASSUME NEW i \in 1 .. m, NEW j \in 1 .. m, i # j PROVE s[i] # s[j]
    <3>1. i \in 1 .. n /\ j \in 1 .. n /\ (i < j \/ j < i)
      BY <1>5, <2>1
    <3>. QED
      BY <1>2, <3>1
  <2>. QED
    BY <2>1
<1>. QED
  BY <1>1, <1>4, <1>5, <1>6 DEF Distinct

(* nor does the start of such a list *)
LEMMA PrefixIsDistinct ==
  ASSUME NEW S, NEW s \in Seq(S), Distinct(s), Len(s) <= Limit, NEW n \in 0 .. Len(s)
  PROVE  /\ SubSeq(s, 1, n) \in Seq(S)
         /\ Distinct(SubSeq(s, 1, n)) /\ Len(SubSeq(s, 1, n)) <= Limit
<1>1. /\ SubSeq(s, 1, n) \in Seq(S) /\ Len(SubSeq(s, 1, n)) = n
      /\ \A i \in 1 .. n : SubSeq(s, 1, n)[i] = s[i] /\ i \in 1 .. Len(s)
  OBVIOUS
<1>2. n <= Limit
  BY LimitAssumption
<1>. QED
  BY <1>1, <1>2 DEF Distinct

(* a comic with a count has one of the words *)
LEMMA CountedMatches ==
  ASSUME NEW id, NEW words, IsFiniteSet(words), DistinctHits(StoredWords[id], words) > 0
  PROVE  Matches(id, words)
<1>. DEFINE hits == {w \in words : Holds(StoredWords[id], w)}
<1>1. Cardinality(hits) # 0
  <2>1. Cardinality(hits) > 0
    BY DEF DistinctHits
  <2>. QED
    BY <2>1
<1>2. hits # {}
  BY <1>1, FS_EmptySet
<1>. QED
  BY <1>2 DEF Matches

LEMMA FoundMatches ==
  ASSUME rows \subseteq ComicIDs, NEW words,
         NEW found \in FindResults(rows, StoredWords, words, Limit)
  PROVE  /\ found \in Seq({id \in rows : Matches(id, words)})
         /\ Distinct(found) /\ Len(found) <= Limit
<1>. DEFINE S == Matching(rows, StoredWords, words)
            T == {id \in rows : Matches(id, words)}
            before == {p \in S \X S : FindPrecedes(StoredWords[p[1]], StoredWords[p[2]], words)}
<1>1. ASSUME NEW id \in S PROVE id \in rows /\ Matches(id, words)
  <2>1. id \in rows /\ Cardinality({k \in DOMAIN StoredWords[id] : StoredWords[id][k] \in words}) > 0
    BY DEF Matching, Occurrences
  <2>2. {k \in DOMAIN StoredWords[id] : StoredWords[id][k] \in words} # {}
    BY <2>1, FS_EmptySet
  <2>. QED
    BY <2>1, <2>2 DEF Matches, Holds
<1>2. S \subseteq ComicIDs /\ S \subseteq T
  BY <1>1
<1>3. PICK s \in Orderings(S, before) : found = Cut(s, Limit)
  BY DEF FindResults
<1>. HIDE DEF S, T, before
<1>4. found \in Seq(S) /\ Distinct(found) /\ Len(found) <= Limit
  BY <1>2, <1>3, CutIsDistinct
<1>5. found \in Seq(T)
  BY <1>2, <1>4
<1>. QED
  BY <1>4, <1>5 DEF T

LEMMA InitTell == Init => TellInv
<1>. QED
  BY DEF Init, SearchInit, TellInv

LEMMA TellKept ==
  ASSUME TellInv, UNCHANGED <<call, query, picked, answer>>
  PROVE  TellInv'
<1>. QED
  BY DEF TellInv, FetchFor, Distinct, Matches

LEMMA DiesTell ==
  ASSUME Dies
  PROVE  TellInv'
<1>. QED
  BY DEF Dies, TellInv

(* one request moves *)
LEMMA OneTells ==
  ASSUME TellInv, NEW r \in Requests,
         \A q \in Requests \ {r} : /\ call'[q] = call[q] /\ query'[q] = query[q]
                                   /\ picked'[q] = picked[q] /\ answer'[q] = answer[q],
         call'[r] \in {"idle", "norm"} => query'[r] = {},
         call'[r] \in {"idle", "norm", "find", "match"} => answer'[r] = <<>>,
         call'[r] = "fetch" => FetchFor(query'[r], answer'[r], picked'[r])
  PROVE  TellInv'
<1>. SUFFICES ASSUME NEW q \in Requests
              PROVE  /\ call'[q] \in {"idle", "norm"} => query'[q] = {}
                     /\ call'[q] \in {"idle", "norm", "find", "match"} => answer'[q] = <<>>
                     /\ call'[q] = "fetch" => FetchFor(query'[q], answer'[q], picked'[q])
  BY DEF TellInv, FetchFor, Distinct, Matches
<1>1. CASE q = r
  BY <1>1
<1>2. CASE q # r
  <2>1. /\ call'[q] = call[q] /\ query'[q] = query[q]
        /\ picked'[q] = picked[q] /\ answer'[q] = answer[q]
    BY <1>2
  <2>. QED
    BY <2>1 DEF TellInv
<1>. QED
  BY <1>1, <1>2

(* the first of what is due is fetched, or left out *)
LEMMA FetchGoesOn ==
  ASSUME NEW words, NEW got \in Seq(ComicIDs), NEW due \in Seq(ComicIDs), due # <<>>,
         FetchFor(words, got, due)
  PROVE  /\ FetchFor(words, got, Tail(due))
         /\ FetchFor(words, Append(got, Head(due)), Tail(due))
<1>. DEFINE rest == Tail(due)
            id   == Head(due)
            more == Append(got, id)
<1>1. /\ Len(due) \in Nat /\ Len(due) >= 1 /\ Len(got) \in Nat
      /\ rest \in Seq(ComicIDs) /\ Len(rest) = Len(due) - 1
      /\ \A k \in 1 .. Len(rest) : rest[k] = due[k + 1] /\ k + 1 \in 1 .. Len(due)
      /\ id = due[1] /\ 1 \in 1 .. Len(due)
      /\ DOMAIN due = 1 .. Len(due) /\ DOMAIN rest = 1 .. Len(rest)
  OBVIOUS
<1>2. /\ DOMAIN more = 1 .. Len(got) + 1 /\ DOMAIN got = 1 .. Len(got) /\ Len(more) = Len(got) + 1
      /\ \A k \in 1 .. Len(got) : more[k] = got[k]
      /\ more[Len(got) + 1] = id
  BY <1>1
<1>. HIDE DEF rest, id, more
<1>3. Distinct(rest)
  BY <1>1 DEF Distinct, FetchFor
<1>4. ASSUME NEW x, Holds(rest, x) PROVE Holds(due, x) /\ x # id
  <2>1. PICK k \in 1 .. Len(rest) : rest[k] = x
    BY <1>1, <1>4 DEF Holds
  <2>2. x = due[k + 1] /\ k + 1 \in 1 .. Len(due) /\ k + 1 # 1
    BY <1>1, <2>1
  <2>. QED
    BY <1>1, <2>2 DEF Holds, Distinct, FetchFor
<1>5. \A x : Holds(more, x) => Holds(got, x) \/ x = id
  BY <1>1, <1>2 DEF Holds
<1>6. ASSUME NEW x, Holds(rest, x)
      PROVE  Matches(x, words) /\ ~Holds(got, x) /\ ~Holds(more, x)
  <2>1. Holds(due, x) /\ x # id
    BY <1>4, <1>6
  <2>2. Matches(x, words) /\ ~Holds(got, x)
    BY <2>1 DEF FetchFor
  <2>. QED
    BY <1>5, <2>1, <2>2
<1>7. Len(got) + Len(due) <= Limit
  BY DEF FetchFor
<1>8. /\ Len(got) + Len(rest) <= Limit
      /\ Len(more) + Len(rest) <= Limit
  <2>1. Limit \in Nat
    BY LimitAssumption
  <2>2. Len(rest) \in Nat
    BY <1>1
  <2>. QED
    BY <1>1, <1>2, <1>7, <2>1, <2>2
<1>9. FetchFor(words, got, rest)
  BY <1>3, <1>6, <1>8 DEF FetchFor
<1>10. FetchFor(words, more, rest)
  BY <1>3, <1>6, <1>8 DEF FetchFor
<1>. QED
  BY <1>9, <1>10 DEF rest, more, id

LEMMA RequestTell ==
  ASSUME IInv, TellInv, NEW r \in Requests, Accept(r) \/ RequestStep(r)
  PROVE  TellInv'
<1>1. RequestsTyped /\ IsFiniteSet(query[r])
  BY DEF IInv, TypeOK, LoopInv
<1>2. /\ call[r] \in {"idle", "norm"} => query[r] = {}
      /\ call[r] \in {"idle", "norm", "find", "match"} => answer[r] = <<>>
      /\ call[r] = "fetch" => FetchFor(query[r], answer[r], picked[r])
  BY DEF TellInv
<1>3. CASE Accept(r)
  BY <1>1, <1>2, <1>3, OneTells DEF Accept, Goto, RequestsTyped
<1>4. CASE NormPhrase(r)
  <2>1. call[r] = "norm" /\ call'[r] \in {"find", "match"} /\ answer'[r] = <<>>
    BY <1>1, <1>2, <1>4 DEF NormPhrase, Goto, RequestsTyped
  <2>. QED
    BY <1>1, <1>4, <2>1, OneTells DEF NormPhrase, Goto, RequestsTyped
<1>5. CASE Find(r)
  <2>1. call'[r] = "reply"
    BY <1>1, <1>5 DEF Find, Goto, RequestsTyped
  <2>. QED
    BY <1>1, <1>5, <2>1, OneTells DEF Find, Goto, RequestsTyped
<1>6. ASSUME NEW w \in Words, LookUp(r, w) PROVE TellInv'
  BY <1>6, DiesTell, TellKept DEF LookUp
<1>7. CASE Pick(r)
  <2>1. PICK ids \in RankResults(ComicIDs, score[r], Limit) : picked' = [picked EXCEPT ![r] = ids]
    BY <1>7 DEF Pick
  <2>2. /\ call[r] = "match" /\ call'[r] = "fetch" /\ answer'[r] = <<>> /\ left[r] = {}
        /\ picked'[r] = ids /\ query' = query
    BY <1>1, <1>2, <1>7, <2>1 DEF Pick, Goto, RequestsTyped
  <2>. DEFINE S == {id \in ComicIDs : score[r][id] > 0}
              before == {p \in S \X S : \/ score[r][p[1]] > score[r][p[2]]
                                        \/ score[r][p[1]] = score[r][p[2]] /\ p[1] < p[2]}
  <2>3. PICK s \in Orderings(S, before) : ids = Cut(s, Limit)
    BY DEF RankResults
  <2>4. S \subseteq ComicIDs
    OBVIOUS
  <2>5. ids \in Seq(S) /\ Distinct(ids) /\ Len(ids) <= Limit
    <3>. HIDE DEF S, before
    <3>. QED
      BY <2>3, <2>4, CutIsDistinct
  <2>6. ASSUME NEW id \in S PROVE Matches(id, query[r])
    <3>1. query[r] \ left[r] = query[r]
      BY <2>2
    <3>2. score[r][id] <= DistinctHits(StoredWords[id], query[r]) /\ score[r][id] > 0
      BY <3>1 DEF IInv, ScoresSound
    <3>3. score[r][id] \in Nat /\ DistinctHits(StoredWords[id], query[r]) \in Nat
      BY <1>1, HitsCount DEF RequestsTyped
    <3>4. DistinctHits(StoredWords[id], query[r]) > 0
      BY <3>2, <3>3
    <3>. QED
      BY <1>1, <3>4, CountedMatches
  <2>7. FetchFor(query'[r], answer'[r], picked'[r])
    <3>1. \A id : Holds(ids, id) => id \in S
      <4>. HIDE DEF S
      <4>. QED
        BY <2>5 DEF Holds
    <3>2. Len(<<>>) + Len(ids) <= Limit /\ \A id : ~Holds(<<>>, id)
      BY <2>5, LimitAssumption DEF Holds
    <3>. HIDE DEF S
    <3>. QED
      BY <2>2, <2>5, <2>6, <3>1, <3>2 DEF FetchFor
  <2>. QED
    BY <1>1, <1>7, <2>2, <2>7, OneTells DEF Pick, Goto, RequestsTyped
<1>8. CASE GetById(r)
  <2>1. /\ call[r] = "fetch" /\ picked[r] \in Seq(ComicIDs) /\ picked[r] # <<>>
        /\ answer[r] \in Seq(ComicIDs) /\ call' = call /\ query' = query
        /\ picked'[r] = Tail(picked[r])
        /\ answer'[r] \in {answer[r], Append(answer[r], Head(picked[r]))}
    BY <1>1, <1>8 DEF GetById, RequestsTyped
  <2>2. FetchFor(query[r], answer[r], picked[r])
    BY <1>2, <2>1
  <2>3. /\ FetchFor(query[r], answer[r], Tail(picked[r]))
        /\ FetchFor(query[r], Append(answer[r], Head(picked[r])), Tail(picked[r]))
    <3>. DEFINE got == answer[r]
                due == picked[r]
    <3>1. got \in Seq(ComicIDs) /\ due \in Seq(ComicIDs) /\ due # <<>>
          /\ FetchFor(query[r], got, due)
      BY <2>1, <2>2
    <3>. HIDE DEF got, due
    <3>2. /\ FetchFor(query[r], got, Tail(due))
          /\ FetchFor(query[r], Append(got, Head(due)), Tail(due))
      BY <3>1, FetchGoesOn
    <3>. QED
      BY <3>2 DEF got, due
  <2>4. FetchFor(query'[r], answer'[r], picked'[r])
    BY <2>1, <2>3
  <2>. QED
    BY <1>1, <1>8, <2>1, <2>4, OneTells DEF GetById, RequestsTyped
<1>9. CASE Fetched(r)
  <2>1. call'[r] = "reply"
    BY <1>1, <1>9 DEF Fetched, Goto, RequestsTyped
  <2>. QED
    BY <1>1, <1>9, <2>1, OneTells DEF Fetched, Goto, RequestsTyped
<1>10. CASE Reply(r)
  BY <1>1, <1>10, OneTells DEF Reply, RequestsTyped
<1>. QED
  BY <1>3, <1>4, <1>5, <1>6, <1>7, <1>8, <1>9, <1>10 DEF RequestStep

LEMMA NextTell == IInv /\ TellInv /\ [Next]_vars => TellInv'
<1>. SUFFICES ASSUME IInv, TellInv, [Next]_vars PROVE TellInv'
  OBVIOUS
<1>. USE DEF lifecycle, feeding, requests, table
<1>1. CASE UNCHANGED vars
  BY <1>1, TellKept DEF vars, searchVars
<1>2. CASE \/ Drop \/ Announce \/ \E id \in ComicIDs : Store(id)
  BY <1>2, TellKept DEF Drop, Announce, Store, TableChanges
<1>3. CASE SearchStep
  <2>1. UNCHANGED table /\ SearchNext
    BY <1>3 DEF SearchStep
  <2>2. CASE Dies
    BY <2>2, DiesTell
  <2>3. CASE ~Dies /\ (Connect \/ Listen \/ Subscribe \/ Interrupt \/ Crash \/ ProcessStep)
    BY <2>1, <2>3, TellKept
       DEF Connect, Listen, Subscribe, Interrupt, Crash, ProcessStep, ServeReturns, Exit, Enter
  <2>4. CASE Unsubscribe
    BY <2>1, <2>4, TellKept DEF Unsubscribe
  <2>5. CASE CallbackStep
    BY <2>1, <2>5, TellKept DEF CallbackStep, TakeEvent, FindAll, FindAllFails, Merge, Merged
  <2>6. CASE \E r \in Requests : Accept(r) \/ RequestStep(r)
    BY <2>6, RequestTell
  <2>. QED
    BY <2>1, <2>2, <2>3, <2>4, <2>5, <2>6 DEF SearchNext
<1>. QED
  BY <1>1, <1>2, <1>3 DEF Next

(* a step the client cannot see *)
LEMMA UnseenContract ==
  ASSUME UNCHANGED <<call, query, answer, rows>>
  PROVE  UNCHANGED Contract!vars
<1>1. Phase' = Phase
  BY DEF Phase
<1>. QED
  BY <1>1 DEF Contract!vars

LEMMA DiesContract ==
  ASSUME Dies, UNCHANGED rows
  PROVE  Contract!Restart
<1>1. Phase' = [r \in Requests |-> "free"]
  BY DEF Dies, Phase, PhaseOf
<1>. QED
  BY <1>1 DEF Dies, Contract!Restart

LEMMA PhaseMoves ==
  ASSUME NEW r \in Requests, NEW to, RequestsTyped, call' = [call EXCEPT ![r] = to]
  PROVE  /\ Phase[r] = PhaseOf(call[r])
         /\ Phase' = [Phase EXCEPT ![r] = PhaseOf(to)]
<1>1. \A q \in Requests : call'[q] = IF q = r THEN to ELSE call[q]
  BY DEF RequestsTyped
<1>2. Phase' = [q \in Requests |-> PhaseOf(call'[q])]
  BY DEF Phase, PhaseOf
<1>3. \A q \in Requests : PhaseOf(call'[q]) = IF q = r THEN PhaseOf(to) ELSE PhaseOf(call[q])
  BY <1>1
<1>. HIDE DEF PhaseOf
<1>. QED
  BY <1>2, <1>3 DEF Phase

(* a list the contract lets a request tell next *)
LEMMA MayTell ==
  ASSUME NEW r \in Requests, NEW ids \in Seq(Contract!Due(r)), Distinct(ids),
         answer[r] \in Seq(ComicIDs), Len(answer[r]) + Len(ids) <= Limit
  PROVE  ids \in Contract!Listings(Contract!Due(r), Limit - Len(answer[r]))
<1>. DEFINE n == Len(ids)
            due == Contract!Due(r)
            most == Limit - Len(answer[r])
<1>1. n \in Nat /\ most \in Int /\ n <= most
  <2>1. Limit \in Nat /\ Len(answer[r]) \in Nat /\ n \in Nat
    BY LimitAssumption
  <2>. QED
    BY <2>1
<1>2. n \in 0 .. most
  BY <1>1
<1>3. ids \in [1 .. n -> due] /\ \A i, j \in 1 .. n : i # j => ids[i] # ids[j]
  BY DEF Distinct
<1>. HIDE DEF n, due, most
<1>4. ids \in Contract!Listings(due, most)
  BY <1>2, <1>3 DEF Contract!Listings
<1>. QED
  BY <1>4 DEF due, most

LEMMA TellsContract ==
  ASSUME NEW r \in Requests, RequestsTyped, PhaseOf(call[r]) = "asked",
         NEW to, call' = [call EXCEPT ![r] = to], PhaseOf(to) \in {"asked", "told"},
         NEW ids \in Seq(Contract!Due(r)), Distinct(ids), Len(answer[r]) + Len(ids) <= Limit,
         answer' = [answer EXCEPT ![r] = @ \o ids], UNCHANGED <<rows, query>>
  PROVE  Contract!Tell(r)
<1>1. answer[r] \in Seq(ComicIDs)
  BY DEF RequestsTyped
<1>2. ids \in Contract!Listings(Contract!Due(r), Limit - Len(answer[r]))
  BY <1>1, MayTell
<1>3. Phase[r] = "asked" /\ Phase' = [Phase EXCEPT ![r] = PhaseOf(to)]
  BY PhaseMoves
<1>. HIDE DEF PhaseOf
<1>. QED
  BY <1>2, <1>3 DEF Contract!Tell

LEMMA RequestContract ==
  ASSUME IInv, TellInv, NEW r \in Requests, Accept(r) \/ RequestStep(r), UNCHANGED table
  PROVE  [Contract!Next]_(Contract!vars)
<1>1. RequestsTyped /\ rows \subseteq ComicIDs /\ UNCHANGED rows
  BY DEF IInv, TypeOK, table
<1>2. /\ call[r] \in {"idle", "norm", "find", "match"} => answer[r] = <<>>
      /\ call[r] = "fetch" => FetchFor(query[r], answer[r], picked[r])
  BY DEF TellInv
<1>3. CASE Accept(r)
  <2>1. call[r] = "idle" /\ call' = [call EXCEPT ![r] = "norm"]
    BY <1>3 DEF Accept, Goto
  <2>2. Phase[r] = PhaseOf("idle") /\ Phase' = [Phase EXCEPT ![r] = PhaseOf("norm")]
    BY <1>1, <2>1, PhaseMoves
  <2>3. Phase' = Phase
    BY <2>2 DEF Phase, PhaseOf
  <2>. QED
    BY <1>1, <1>3, <2>3 DEF Accept, Contract!vars
<1>4. CASE NormPhrase(r)
  <2>1. PICK to \in {"find", "match"} : call[r] = "norm" /\ call' = [call EXCEPT ![r] = to]
    BY <1>4 DEF NormPhrase, Goto
  <2>2. Phase[r] = "free" /\ Phase' = [Phase EXCEPT ![r] = "asked"]
    BY <1>1, <2>1, PhaseMoves DEF PhaseOf
  <2>3. Contract!Ask(r)
    BY <1>1, <1>4, <2>2 DEF NormPhrase, Contract!Ask
  <2>. QED
    BY <2>3 DEF Contract!Next
<1>5. CASE Find(r)
  <2>1. call[r] = "find" /\ call' = [call EXCEPT ![r] = "reply"] /\ UNCHANGED query
    BY <1>5 DEF Find, Goto
  <2>. PICK found \in FindResults(rows, StoredWords, query[r], Limit) :
          \E n \in 0 .. Len(found) : answer' = [answer EXCEPT ![r] = SubSeq(found, 1, n)]
    BY <1>5 DEF Find
  <2>2. PICK n \in 0 .. Len(found) : answer' = [answer EXCEPT ![r] = SubSeq(found, 1, n)]
    OBVIOUS
  <2>. DEFINE read == SubSeq(found, 1, n)
  <2>3. answer[r] = <<>>
    BY <1>2, <2>1
  <2>4. /\ read \in Seq({id \in rows : Matches(id, query[r])})
        /\ Distinct(read) /\ Len(read) <= Limit
    BY <1>1, FoundMatches, PrefixIsDistinct
  <2>5. Contract!Due(r) = {id \in rows : Matches(id, query[r])}
    BY <2>3 DEF Contract!Due, Matches, Holds, Contract!Holds
  <2>6. answer' = [answer EXCEPT ![r] = read]
    BY <2>2
  <2>. HIDE DEF read
  <2>7. answer' = [answer EXCEPT ![r] = @ \o read]
    <3>1. <<>> \o read = read
      BY <2>4
    <3>. QED
      BY <2>6, <2>3, <3>1
  <2>8. Len(answer[r]) + Len(read) <= Limit
    BY <2>3, <2>4, LimitAssumption
  <2>9. Contract!Tell(r)
    BY <1>1, <2>1, <2>4, <2>5, <2>7, <2>8, TellsContract DEF PhaseOf
  <2>. QED
    BY <2>9 DEF Contract!Next
<1>6. ASSUME NEW w \in Words, LookUp(r, w) PROVE [Contract!Next]_(Contract!vars)
  BY <1>1, <1>6, DiesContract, UnseenContract DEF LookUp, Contract!Next
<1>7. CASE Pick(r)
  <2>1. call[r] = "match" /\ call' = [call EXCEPT ![r] = "fetch"]
    BY <1>7 DEF Pick, Goto
  <2>2. Phase[r] = PhaseOf("match") /\ Phase' = [Phase EXCEPT ![r] = PhaseOf("fetch")]
    BY <1>1, <2>1, PhaseMoves
  <2>3. Phase' = Phase
    BY <2>2 DEF Phase, PhaseOf
  <2>. QED
    BY <1>1, <1>7, <2>3 DEF Pick, Contract!vars
<1>8. CASE GetById(r)
  <2>1. /\ call[r] = "fetch" /\ picked[r] \in Seq(ComicIDs) /\ picked[r] # <<>>
        /\ answer[r] \in Seq(ComicIDs) /\ call' = call /\ query' = query
    BY <1>1, <1>8 DEF GetById, RequestsTyped
  <2>2. FetchFor(query[r], answer[r], picked[r])
    BY <1>2, <2>1
  <2>3. CASE UNCHANGED answer
    BY <1>1, <2>1, <2>3, UnseenContract
  <2>4. CASE /\ Head(picked[r]) \in rows
             /\ answer' = [answer EXCEPT ![r] = Append(@, Head(picked[r]))]
    <3>. DEFINE id == Head(picked[r])
    <3>1. id = picked[r][1] /\ Len(picked[r]) \in Nat /\ Len(picked[r]) >= 1
          /\ 1 \in DOMAIN picked[r]
      BY <2>1
    <3>2. Matches(id, query[r]) /\ ~Holds(answer[r], id)
      BY <2>2, <3>1 DEF FetchFor, Holds
    <3>3. id \in Contract!Due(r)
      BY <2>4, <3>2 DEF Contract!Due, Matches, Holds, Contract!Holds
    <3>. HIDE DEF id
    <3>4. <<id>> \in Seq(Contract!Due(r)) /\ Len(<<id>>) = 1 /\ Distinct(<<id>>)
      BY <3>3 DEF Distinct
    <3>5. Append(answer[r], id) = answer[r] \o <<id>>
      BY <2>1
    <3>6. answer' = [answer EXCEPT ![r] = @ \o <<id>>]
      BY <2>4, <3>5 DEF id
    <3>7. Len(answer[r]) + Len(<<id>>) <= Limit
      <4>. DEFINE m == Len(answer[r])
                  n == Len(picked[r])
      <4>1. m + n <= Limit
        BY <2>2 DEF FetchFor
      <4>2. m \in Nat /\ n \in Nat /\ n >= 1 /\ Limit \in Nat
        BY <2>1, <3>1, LimitAssumption
      <4>3. m + 1 <= Limit
        <5>. HIDE DEF m, n
        <5>. QED
          BY <4>1, <4>2
      <4>. QED
        BY <3>4, <4>3
    <3>8. call' = [call EXCEPT ![r] = "fetch"]
      BY <1>1, <2>1 DEF RequestsTyped
    <3>9. Contract!Tell(r)
      BY <1>1, <2>1, <3>4, <3>6, <3>7, <3>8, TellsContract DEF PhaseOf
    <3>. QED
      BY <3>9 DEF Contract!Next
  <2>. QED
    BY <1>8, <2>3, <2>4 DEF GetById
<1>9. CASE Fetched(r)
  <2>1. /\ call[r] = "fetch" /\ call' = [call EXCEPT ![r] = "reply"] /\ UNCHANGED <<query, answer>>
        /\ answer[r] \in Seq(ComicIDs) /\ picked[r] = <<>>
    BY <1>1, <1>9 DEF Fetched, Goto, RequestsTyped
  <2>2. <<>> \in Seq(Contract!Due(r)) /\ Distinct(<<>>) /\ Len(<<>>) = 0
    BY DEF Distinct
  <2>3. Len(answer[r]) + Len(<<>>) <= Limit
    BY <1>2, <2>1, <2>2 DEF FetchFor
  <2>4. answer' = [answer EXCEPT ![r] = @ \o <<>>]
    <3>1. answer[r] \o <<>> = answer[r]
      BY <2>1
    <3>2. answer' = [answer EXCEPT ![r] = answer[r]]
      BY <1>1, <2>1 DEF RequestsTyped
    <3>. QED
      BY <3>1, <3>2
  <2>5. Contract!Tell(r)
    BY <1>1, <2>1, <2>2, <2>3, <2>4, TellsContract DEF PhaseOf
  <2>. QED
    BY <2>5 DEF Contract!Next
<1>10. CASE Reply(r)
  <2>1. Phase' = [Phase EXCEPT ![r] = "free"]
    BY <1>1, <1>10, PhaseMoves DEF Reply, PhaseOf
  <2>2. Contract!End(r)
    BY <1>1, <1>10, <2>1 DEF Reply, Contract!End
  <2>. QED
    BY <2>2 DEF Contract!Next
<1>. QED
  BY <1>3, <1>4, <1>5, <1>6, <1>7, <1>8, <1>9, <1>10 DEF RequestStep

LEMMA NextContract ==
  ASSUME IInv, TellInv, [Next]_vars
  PROVE  [Contract!Next]_(Contract!vars)
<1>. USE DEF lifecycle, feeding, requests, table
<1>1. CASE UNCHANGED vars
  BY <1>1, UnseenContract DEF vars, searchVars
<1>2. ASSUME NEW id \in ComicIDs, Store(id) PROVE [Contract!Next]_(Contract!vars)
  <2>1. UNCHANGED Phase
    BY <1>2 DEF Store, TableChanges, Phase
  <2>2. Contract!Store(id)
    BY <1>2, <2>1 DEF Store, TableChanges, Update!Store, Contract!Store
  <2>. QED
    BY <2>2 DEF Contract!Next
<1>3. CASE Drop
  <2>1. UNCHANGED Phase
    BY <1>3 DEF Drop, TableChanges, Phase
  <2>2. Contract!Drop
    BY <1>3, <2>1 DEF Drop, TableChanges, Update!Drop, Contract!Drop
  <2>. QED
    BY <2>2 DEF Contract!Next
<1>4. CASE Announce
  BY <1>4, UnseenContract DEF Announce, Update!Announce
<1>5. CASE SearchStep
  <2>1. UNCHANGED table /\ SearchNext
    BY <1>5 DEF SearchStep
  <2>2. CASE Dies
    BY <2>1, <2>2, DiesContract DEF Contract!Next
  <2>3. CASE ~Dies /\ (Connect \/ Listen \/ Subscribe \/ Interrupt \/ Crash \/ ProcessStep)
    BY <2>1, <2>3, UnseenContract
       DEF Connect, Listen, Subscribe, Interrupt, Crash, ProcessStep, ServeReturns, Exit, Enter
  <2>4. CASE Unsubscribe
    BY <2>1, <2>4, UnseenContract DEF Unsubscribe
  <2>5. CASE CallbackStep
    BY <2>1, <2>5, UnseenContract
       DEF CallbackStep, TakeEvent, FindAll, FindAllFails, Merge, Merged
  <2>6. CASE \E r \in Requests : Accept(r) \/ RequestStep(r)
    BY <2>1, <2>6, RequestContract
  <2>. QED
    BY <2>1, <2>2, <2>3, <2>4, <2>5, <2>6 DEF SearchNext
<1>. QED
  BY <1>1, <1>2, <1>3, <1>4, <1>5 DEF Next

(***************************************************************************)
(* The theorems                                                            *)
(***************************************************************************)
(* every variable keeps its type, whatever races and restarts there are *)
THEOREM TypeCorrect == Spec => []TypeOK
<1>. QED
  BY IInvariant, PTL DEF IInv

(* No row is lost to the index but for a lost event, a failed FindAll or a   *)
(* restart: all others are indexed, about to be merged or on their way.      *)
THEOREM NoRowIsLost == Spec => []RowsAccountedFor
<1>. QED
  BY IInvariant, PTL DEF IInv

(* What the index, a snapshot or a search holds was a row once and has the   *)
(* word; only Drop can have made it stale.                                   *)
THEOREM NothingIsInvented == Spec => []DerivedFromRows
<1>. QED
  BY IInvariant, PTL DEF IInv

(* No race with UpdateIndex makes a search count a word a comic has not. *)
THEOREM ScoresAreSound == Spec => []ScoresSound
<1>. QED
  BY IInvariant, PTL DEF IInv

(* A SearchIndex that found the index level with the table, and met no       *)
(* change and no failure, answers the best rows there are, whatever else     *)
(* runs beside it.                                                           *)
THEOREM AnswersAreExact == Spec => []ExactAnswer
<1>1. ExactInv => ExactAnswer
  BY DEF ExactInv, ExactFor, Best, ExactAnswer
<1>. QED
  BY <1>1, InitIInv, NextIInv, InitExact, NextExact, PTL DEF Spec

(* Every behaviour of the two services, with its races, failures and         *)
(* restarts, is one SearchContract allows: what a search tells a client was  *)
(* in the table during the call, matches, comes once, and fits the limit.    *)
THEOREM SearchImplementsContract == Spec => ImplementsSearchContract
<1>1. Init => Contract!Init
  BY DEF Init, SearchInit, Update!Init, Contract!Init, Phase, PhaseOf
<1>. QED
  BY <1>1, InitIInv, NextIInv, InitTell, NextTell, NextContract, PTL
     DEF Spec, ImplementsSearchContract, Contract!Spec
=============================================================================

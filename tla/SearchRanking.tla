--------------------------- MODULE SearchRanking ---------------------------
(***************************************************************************)
(* What the two searches return for a set of words, as pure operators: the *)
(* order of the query in search/adapters/db/storage.go and the order of    *)
(* SearchIndex in search/core/service.go.  A comic is a number; its column *)
(* `words` is a sequence, for a comic of several chunks holds a word more  *)
(* than once.                                                              *)
(***************************************************************************)
EXTENDS Integers, FiniteSets, Sequences

(* every way to list a set so that nobody is preceded by one that comes later; *)
(* `before` has the pairs whose order is fixed                                 *)
Orderings(S, before) ==
    {s \in [1 .. Cardinality(S) -> S] :
        \A i, j \in 1 .. Cardinality(S) : i < j => s[i] # s[j] /\ <<s[j], s[i]>> \notin before}

(* min(len, limit) of a list *)
Cut(s, limit) == SubSeq(s, 1, IF limit < Len(s) THEN limit ELSE Len(s))

Holds(list, word) == \E k \in DOMAIN list : list[k] = word

(* SELECT COUNT ( * ) FROM unnest(words) AS word WHERE word = ANY(query) *)
Occurrences(list, query) == Cardinality({k \in DOMAIN list : list[k] \in query})

Matching(ids, lists, query) == {id \in ids : Occurrences(lists[id], query) > 0}

(* mutant: the count is ordered ascending *)
FindPrecedesAscending(l, m, query) ==
    LET full(list) == Occurrences(list, query) = Cardinality(query)
    IN  \/ full(l) /\ ~full(m)
        \/ full(l) = full(m) /\ Occurrences(l, query) < Occurrences(m, query)

(* ORDER BY full match, count of occurrences DESC, array_length ASC *)
FindPrecedes(l, m, query) ==
    LET full(list) == Occurrences(list, query) = Cardinality(query)
    IN  \/ full(l) /\ ~full(m)
        \/ /\ full(l) = full(m)
           /\ \/ Occurrences(l, query) > Occurrences(m, query)
              \/ /\ Occurrences(l, query) = Occurrences(m, query)
                 /\ Len(l) < Len(m)

(* What Find may return: the database is free to order the comics its        *)
(* ORDER BY does not tell apart.                                             *)
FindResults(ids, lists, query, limit) ==
    LET hits   == Matching(ids, lists, query)
        before == {p \in hits \X hits : FindPrecedes(lists[p[1]], lists[p[2]], query)}
    IN  {Cut(s, limit) : s \in Orderings(hits, before)}

(* what SearchIndex picks: score first, then the smaller id *)
RankResults(ids, score, limit) ==
    LET hits   == {id \in ids : score[id] > 0}
        before == {p \in hits \X hits :
                       \/ score[p[1]] > score[p[2]]
                       \/ score[p[1]] = score[p[2]] /\ p[1] < p[2]}
    IN  {Cut(s, limit) : s \in Orderings(hits, before)}

(* how many words of the query a comic really has *)
DistinctHits(list, query) == Cardinality({word \in query : Holds(list, word)})
=============================================================================

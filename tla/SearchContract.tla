--------------------------- MODULE SearchContract ---------------------------
(***************************************************************************)
(* What the search service promises a client, by either of its methods and *)
(* whatever its index, its events and the table do meanwhile: every comic  *)
(* of an answer has a word of the phrase and was in the table at a moment  *)
(* of the call, none comes twice, and there are no more than the limit.    *)
(* An answer need not be complete, nor of one moment; a call may fail.     *)
(***************************************************************************)
EXTENDS SearchRanking

CONSTANTS Requests, Phrases, ComicIDs, StoredWords, Limit

VARIABLES
    rows,    \* the comics stored
    phase,   \* of each call: free, asked, told
    phrase,  \* what it asked for
    told     \* its answer, as far as it has been found

vars == <<rows, phase, phrase, told>>

Init ==
    /\ rows = {}
    /\ phase = [r \in Requests |-> "free"]
    /\ phrase = [r \in Requests |-> {}]
    /\ told = [r \in Requests |-> <<>>]

Store(id) ==
    /\ rows' = rows \cup {id}
    /\ UNCHANGED <<phase, phrase, told>>

Drop ==
    /\ rows' = {}
    /\ UNCHANGED <<phase, phrase, told>>

Ask(r) ==
    /\ phase[r] = "free"
    /\ phase' = [phase EXCEPT ![r] = "asked"]
    /\ \E ws \in Phrases : phrase' = [phrase EXCEPT ![r] = ws]
    /\ UNCHANGED <<rows, told>>

(* lists without repetition of at most n of S *)
Listings(S, n) ==
    UNION {{s \in [1 .. k -> S] : \A i, j \in 1 .. k : i # j => s[i] # s[j]} : k \in 0 .. n}

(* comics that are in the table now, match, and have not been told *)
Due(r) == {id \in rows : /\ \E w \in phrase[r] : Holds(StoredWords[id], w)
                         /\ ~Holds(told[r], id)}

Tell(r) ==
    /\ phase[r] = "asked"
    /\ \E p \in {"asked", "told"} : phase' = [phase EXCEPT ![r] = p]
    /\ \E ids \in Listings(Due(r), Limit - Len(told[r])) :
        told' = [told EXCEPT ![r] = @ \o ids]
    /\ UNCHANGED <<rows, phrase>>

(* the answer arrives, or the call fails *)
End(r) ==
    /\ phase' = [phase EXCEPT ![r] = "free"]
    /\ phrase' = [phrase EXCEPT ![r] = {}]
    /\ told' = [told EXCEPT ![r] = <<>>]
    /\ UNCHANGED rows

Restart ==
    /\ phase' = [r \in Requests |-> "free"]
    /\ phrase' = [r \in Requests |-> {}]
    /\ told' = [r \in Requests |-> <<>>]
    /\ UNCHANGED rows

Next ==
    \/ \E id \in ComicIDs : Store(id)
    \/ \E r \in Requests : Ask(r) \/ Tell(r) \/ End(r)
    \/ Drop \/ Restart

Spec == Init /\ [][Next]_vars
=============================================================================

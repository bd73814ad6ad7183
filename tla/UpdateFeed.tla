----------------------------- MODULE UpdateFeed -----------------------------
(***************************************************************************)
(* What is left of the update service for a reader of its table and of its *)
(* events: comics are added one by one, an event comes at some time after  *)
(* a comic was added or never, Drop empties the table and tells nobody.    *)
(* UpdateContract implements this, hiding who updates and in which phase.  *)
(***************************************************************************)
EXTENDS Integers

CONSTANT MaxID

VARIABLES
    rows,    \* the comics stored
    pending  \* comics stored since the last event

vars == <<rows, pending>>

Init == rows = {} /\ pending = {}

Store(id) ==
    /\ id \notin rows
    /\ rows' = rows \cup {id}
    /\ pending' = pending \cup {id}

Announce == pending' = {} /\ UNCHANGED rows

Drop == rows' = {} /\ UNCHANGED pending

Next == (\E id \in 1 .. MaxID : Store(id)) \/ Announce \/ Drop

Spec == Init /\ [][Next]_vars
=============================================================================

--------------------------- MODULE UpdateContract ---------------------------
(***************************************************************************)
(* What the update service promises the rest of the system, without its    *)
(* channel, its workers or its program counters: one update at a time; the *)
(* table grows only while the update is reported to run, by comics it does *)
(* not hold yet; when an update settles, what it stored is announced by an *)
(* event or known to be lost; nothing is stored after that; then the       *)
(* report ends, and only then may the next update begin.                   *)
(***************************************************************************)
EXTENDS Integers

CONSTANTS Callers, NoCaller, MaxID

VARIABLES
    owner,     \* the call that runs the update
    phase,     \* free, starting, filling, settled, leaving
    reported,  \* what Status answers
    rows,      \* the comics stored
    pending,   \* comics stored since the last event
    lost       \* pending comics whose event will not come

vars == <<owner, phase, reported, rows, pending, lost>>

Init ==
    /\ owner = NoCaller
    /\ phase = "free"
    /\ reported = FALSE
    /\ rows = {}
    /\ pending = {}
    /\ lost = FALSE

Move(from, to) == phase = from /\ phase' = to

Begin(c) ==
    /\ Move("free", "starting")
    /\ owner' = c
    /\ UNCHANGED <<reported, rows, pending, lost>>

Report ==
    /\ Move("starting", "filling")
    /\ reported' = TRUE
    /\ UNCHANGED <<owner, rows, pending, lost>>

Store(id) ==
    /\ phase = "filling"
    /\ id \notin rows
    /\ rows' = rows \cup {id}
    /\ pending' = pending \cup {id}
    /\ UNCHANGED <<owner, phase, reported, lost>>

Settle ==
    /\ Move("filling", "settled")
    /\ \/ pending' = {} /\ lost' = FALSE
       \/ pending' = pending /\ lost' = (pending # {})
    /\ UNCHANGED <<owner, reported, rows>>

Withdraw ==
    /\ Move("settled", "leaving")
    /\ reported' = FALSE
    /\ UNCHANGED <<owner, rows, pending, lost>>

End ==
    /\ Move("leaving", "free")
    /\ owner' = NoCaller
    /\ UNCHANGED <<reported, rows, pending, lost>>

Drop ==
    /\ rows' = {}
    /\ UNCHANGED <<owner, phase, reported, pending, lost>>

Restart ==
    /\ owner' = NoCaller
    /\ phase' = "free"
    /\ reported' = FALSE
    /\ lost' = (pending # {})
    /\ UNCHANGED <<rows, pending>>

Next ==
    \/ \E c \in Callers : Begin(c)
    \/ \E id \in 1 .. MaxID : Store(id)
    \/ Report \/ Settle \/ Withdraw \/ End \/ Drop \/ Restart

Spec == Init /\ [][Next]_vars
=============================================================================

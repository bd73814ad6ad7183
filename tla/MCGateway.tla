------------------------------ MODULE MCGateway ------------------------------
(* Two requests: between them they ask for every endpoint, and both for the *)
(* limited search.  An update meets another one when it finds an Orphan.    *)
EXTENDS Gateway

CONSTANTS r1, r2

TwoClients == [r \in {r1, r2} |->
    IF r = r1 THEN {"search", "update", "stats"}
    ELSE {"search", "drop", "words", "isearch", "login", "ping", "status"}]
=============================================================================

-------------------------- MODULE UpdateFeedProofs --------------------------
(***************************************************************************)
(* The second refinement: what UpdateContract promises is, for a reader of *)
(* the table and of the events, UpdateFeed, on which SearchSystem builds.  *)
(***************************************************************************)
EXTENDS UpdateWorkProofs

TableFeed == INSTANCE UpdateFeed WITH pending <- unannounced

LEMMA ContractStepFeeds ==
  ASSUME [Contract!Next]_(Contract!vars)
  PROVE  [TableFeed!Next]_(TableFeed!vars)
<1>1. ASSUME NEW id \in 1 .. MaxID, Contract!Store(id) PROVE TableFeed!Next
  BY <1>1 DEF Contract!Store, TableFeed!Store, TableFeed!Next
<1>2. CASE Contract!Settle
  <2>1. UNCHANGED rows /\ (unannounced' = {} \/ unannounced' = unannounced)
    BY <1>2 DEF Contract!Settle
  <2>. QED
    BY <2>1 DEF TableFeed!Announce, TableFeed!Next, TableFeed!vars
<1>3. CASE Contract!Drop
  BY <1>3 DEF Contract!Drop, TableFeed!Drop, TableFeed!Next
<1>4. ASSUME UNCHANGED <<rows, unannounced>> PROVE [TableFeed!Next]_(TableFeed!vars)
  BY <1>4 DEF TableFeed!vars
<1>5. ASSUME NEW c \in Callers, Contract!Begin(c) PROVE [TableFeed!Next]_(TableFeed!vars)
  BY <1>4, <1>5 DEF Contract!Begin
<1>6. CASE Contract!Report \/ Contract!Withdraw \/ Contract!End \/ Contract!Restart
  BY <1>4, <1>6 DEF Contract!Report, Contract!Withdraw, Contract!End, Contract!Restart
<1>7. CASE UNCHANGED Contract!vars
  BY <1>4, <1>7 DEF Contract!vars
<1>. QED
  BY <1>1, <1>2, <1>3, <1>5, <1>6, <1>7 DEF Contract!Next

(* The table and the events of the update service, with all its races,       *)
(* failures and restarts, are those of UpdateFeed.                           *)
THEOREM ServiceImplementsFeed == Spec => TableFeed!Spec
<1>1. Contract!Init => TableFeed!Init
  BY DEF Contract!Init, TableFeed!Init
<1>. QED
  BY <1>1, ContractStepFeeds, ServiceImplementsContract, PTL
     DEF ImplementsContract, Contract!Spec, TableFeed!Spec
=============================================================================

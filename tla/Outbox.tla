------------------------------- MODULE Outbox -------------------------------
(***************************************************************************)
(* What the transactional outbox of README.md ("One transaction, end to    *)
(* end", steps 2 and 4) promises: storing a transaction and owing its      *)
(* projection are one step, and the debt is settled only once the          *)
(* projection is there.  EnrichmentQueue implements this.                  *)
(***************************************************************************)
EXTENDS Naturals

CONSTANT Item

VARIABLES
    stored,     \* committed to PostgreSQL
    owed,       \* the queue still holds a job for it
    delivered   \* projected into the graph

outboxVars == <<stored, owed, delivered>>

Init == stored = {} /\ owed = {} /\ delivered = {}

\* new items are committed with their jobs; again are stored items queued once more.
Commit(new, again) ==
    /\ new \cap stored = {}
    /\ again \subseteq stored
    /\ stored' = stored \cup new
    /\ owed' = owed \cup new \cup again
    /\ UNCHANGED delivered

Deliver(i) ==
    /\ i \in stored
    /\ delivered' = delivered \cup {i}
    /\ UNCHANGED <<stored, owed>>

Settle(i) ==
    /\ i \in owed \cap delivered
    /\ owed' = owed \ {i}
    /\ UNCHANGED <<stored, delivered>>

Next ==
    \/ \E new, again \in SUBSET Item : Commit(new, again)
    \/ \E i \in Item : Deliver(i) \/ Settle(i)

Spec == Init /\ [][Next]_outboxVars
=============================================================================

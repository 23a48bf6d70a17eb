----------------------------- MODULE GraphRepair -----------------------------
(***************************************************************************)
(* The repair of a graph that holds several nodes for one account:         *)
(* RepairDuplicateAccounts and ensureSchema of store/neo4j.go, run by      *)
(* runNeo4jRepair of main.go or by the connect of a starting listener.     *)
(*                                                                         *)
(* Such a graph was written before the uniqueness constraint existed; also *)
(* its addresses need not be normalised.  One process repairs at a time,   *)
(* and nothing else writes: a listener gets a graph only with the          *)
(* constraint.                                                             *)
(***************************************************************************)
EXTENDS Naturals, FiniteSetsExt

CONSTANTS
    Node,           \* ids of account nodes
    Spelling,       \* addresses as stored
    Normal,         \* spelling -> NormalizeAddress of it
    Blank,          \* the empty address
    Key,            \* what MERGE identifies an edge by: hash, or tx_hash and log_index
    Graph,          \* the graphs to repair
    BatchSizes,     \* NEO4J_REPAIR_BATCH_SIZE: how many groups are read at once
    MaxStops,       \* bound: failed calls and killed processes
    MaxRuns         \* bound: processes started

Edge == [key : Key, from : Node, to : Node]

ASSUME RepairAssumption ==
    /\ Node \subseteq Nat /\ IsFiniteSet(Node)
    /\ Blank \in Spelling
    /\ Normal \in [Spelling -> Spelling]
    /\ \A a \in Spelling : Normal[Normal[a]] = Normal[a]
    /\ Graph \subseteq [address : [Node -> Spelling], contracts : SUBSET Node, edges : SUBSET Edge]
    /\ BatchSizes \subseteq Nat \ {0}
    /\ {MaxStops, MaxRuns} \subseteq Nat

VARIABLES
    accounts,       \* the :Account nodes
    address,        \* node -> its address
    contracts,      \* nodes with is_contract
    edges,          \* :SENT and :TRANSFERRED
    constraint,     \* account_address_unique exists
    repairer,       \* the process: where it is, its mode, the groups of its batch still to do
    stops, runs

graphVars == <<accounts, address, contracts, edges>>
repairVars == <<graphVars, constraint, repairer, stops, runs>>

\* A group carries the normalised address and the ids of its nodes.
Group == [address : Spelling, ids : SUBSET Node]

\* mode: "repair" for NEO4J_REPAIR_ONLY, "start" for a starting listener.
Repairer ==
    [pc : {"off", "groups", "merge", "schema", "ready", "failed"}, mode : {"repair", "start"},
     limit : BatchSizes, batch : SUBSET Group]

RepairInit ==
    /\ accounts = Node
    /\ \E g \in Graph : address = g.address /\ contracts = g.contracts /\ edges = g.edges
    /\ constraint = FALSE
    /\ \E size \in BatchSizes :
          repairer = [pc |-> "off", mode |-> "start", limit |-> size, batch |-> {}]
    /\ stops = 0 /\ runs = 0

Holders(a) == {n \in accounts : address[n] = a}

\* Addresses of more than one node, letter for letter.
Duplicated == {a \in Spelling : Cardinality(Holders(a)) > 1}
-----------------------------------------------------------------------------
(***************************************************************************)
(* repairAccountGroup: one write transaction.                              *)
(***************************************************************************)

\* MERGE of the outgoing edges of the duplicates on the node that is kept.
Outgoing(E, keep, dups) == E \cup {[e EXCEPT !.from = keep] : e \in {d \in E : d.from \in dups}}

Incoming(E, keep, dups) == E \cup {[e EXCEPT !.to = keep] : e \in {d \in E : d.to \in dups}}

\* Mutant of Merged: incoming edges are matched before the outgoing ones are moved.
MergedApart(keep, dups) ==
    {e \in Outgoing(edges, keep, dups) \cup Incoming(edges, keep, dups) :
        e.from \notin dups /\ e.to \notin dups}

\* The incoming ones follow, which by then include those the duplicates had among
\* themselves; DETACH DELETE takes what still touches a duplicate.
Merged(keep, dups) ==
    {e \in Incoming(Outgoing(edges, keep, dups), keep, dups) : e.from \notin dups /\ e.to \notin dups}

MergedContracts(keep, dups) ==
    (contracts \ dups) \cup IF contracts \cap dups = {} THEN {} ELSE {keep}

\* The node with the smallest id is kept, under the normalised address.
MergeGroup(a, ids) ==
    LET keep == Min(ids)
        dups == ids \ {keep}
    IN
    /\ accounts' = accounts \ dups
    /\ address' = [address EXCEPT ![keep] = a]
    /\ contracts' = MergedContracts(keep, dups)
    /\ edges' = Merged(keep, dups)
-----------------------------------------------------------------------------
Idle == {"off", "ready", "failed"}

\* A process starts: the operator's repair (which first reports DuplicateAccountSummary),
\* or the listener, whose connect only ensures the schema.
Start(mode) ==
    /\ repairer.pc \in {"off", "failed"}
    /\ runs < MaxRuns /\ runs' = runs + 1
    /\ repairer' = [repairer EXCEPT !.pc = IF mode = "repair" THEN "groups" ELSE "schema",
                                   !.mode = mode]
    /\ UNCHANGED <<graphVars, constraint, stops>>

\* The largest groups first, up to the limit.
Batches ==
    {B \in SUBSET Duplicated :
        /\ Cardinality(B) = Min({repairer.limit, Cardinality(Duplicated)})
        /\ \A a \in B, c \in Duplicated \ B : Cardinality(Holders(a)) >= Cardinality(Holders(c))}

\* Mutant of Usable: groups without an address are tried too.
UsableAll(B) == {[address |-> Normal[a], ids |-> Holders(a)] : a \in B}

\* Groups without an address are left out after the limit.
Usable(B) == {[address |-> Normal[a], ids |-> Holders(a)] : a \in {b \in B : Normal[b] # Blank}}

\* duplicateAccountGroups; the repair ends when it returns no group.
LoadGroups ==
    /\ repairer.pc = "groups"
    /\ \E B \in Batches :
          repairer' = IF Usable(B) = {} THEN [repairer EXCEPT !.pc = "schema"]
                                        ELSE [repairer EXCEPT !.pc = "merge", !.batch = Usable(B)]
    /\ UNCHANGED <<graphVars, constraint, stops, runs>>

\* Mutants of RepairGroup: a repaired group stays in the batch, and after one batch the schema
\* follows.
RepairGroupAgain(g) ==
    LET rest == repairer.batch \ {g} IN
    /\ repairer.pc = "merge" /\ g \in repairer.batch
    /\ IF g.address = Blank THEN UNCHANGED graphVars ELSE MergeGroup(g.address, g.ids)
    /\ repairer' = [repairer EXCEPT !.pc = IF rest = {} THEN "groups" ELSE "merge"]
    /\ UNCHANGED <<constraint, stops, runs>>

RepairGroupOnce(g) ==
    LET rest == repairer.batch \ {g} IN
    /\ repairer.pc = "merge" /\ g \in repairer.batch
    /\ IF g.address = Blank THEN UNCHANGED graphVars ELSE MergeGroup(g.address, g.ids)
    /\ repairer' = [repairer EXCEPT !.pc = IF rest = {} THEN "schema" ELSE "merge", !.batch = rest]
    /\ UNCHANGED <<constraint, stops, runs>>

\* One group of the batch.  A blank address changes nothing.
RepairGroup(g) ==
    LET rest == repairer.batch \ {g} IN
    /\ repairer.pc = "merge" /\ g \in repairer.batch
    /\ IF g.address = Blank THEN UNCHANGED graphVars ELSE MergeGroup(g.address, g.ids)
    /\ repairer' = [repairer EXCEPT !.pc = IF rest = {} THEN "groups" ELSE "merge", !.batch = rest]
    /\ UNCHANGED <<constraint, stops, runs>>

\* CREATE CONSTRAINT succeeds once addresses are unique.
CreateConstraint ==
    /\ repairer.pc = "schema"
    /\ Duplicated = {}
    /\ constraint' = TRUE
    /\ repairer' = [repairer EXCEPT !.pc = "ready"]
    /\ UNCHANGED <<graphVars, stops, runs>>

\* Otherwise its error names one of the duplicated addresses, and the nodes that hold the
\* normalised address, which may be others, are merged.
RepairNamed(a) ==
    /\ repairer.pc = "schema"
    /\ a \in Duplicated
    /\ Normal[a] # Blank
    /\ Cardinality(Holders(Normal[a])) > 1
    /\ MergeGroup(Normal[a], Holders(Normal[a]))
    /\ UNCHANGED <<constraint, repairer, stops, runs>>

\* Nothing to merge: the error of CREATE CONSTRAINT is final.
GiveUp(a) ==
    /\ repairer.pc = "schema"
    /\ a \in Duplicated
    /\ Normal[a] = Blank \/ Cardinality(Holders(Normal[a])) <= 1
    /\ repairer' = [repairer EXCEPT !.pc = "failed"]
    /\ UNCHANGED <<graphVars, constraint, stops, runs>>

\* A call fails, the time for the schema is up, or the process is killed: what was committed
\* stays.
Stop ==
    /\ repairer.pc \notin Idle
    /\ stops < MaxStops /\ stops' = stops + 1
    /\ repairer' = [repairer EXCEPT !.pc = "off", !.batch = {}]
    /\ UNCHANGED <<graphVars, constraint, runs>>

EnsureSchema == CreateConstraint \/ \E a \in Spelling : RepairNamed(a) \/ GiveUp(a)

Repair == LoadGroups \/ (\E g \in repairer.batch : RepairGroup(g)) \/ EnsureSchema

RepairNext == (\E mode \in {"repair", "start"} : Start(mode)) \/ Repair \/ Stop

RepairSpec == RepairInit /\ [][RepairNext]_repairVars

\* The process runs; nobody has to start it again.
FairRepairSpec == RepairSpec /\ WF_repairVars(Repair)
-----------------------------------------------------------------------------
(***************************************************************************)
(* Properties.                                                             *)
(***************************************************************************)

\* No edge dangles, and the groups still to do are there as they were read, whatever the
\* groups before them changed.
RepairTypeOK ==
    /\ accounts \subseteq Node
    /\ address \in [Node -> Spelling]
    /\ contracts \subseteq accounts
    /\ edges \subseteq [key : Key, from : accounts, to : accounts]
    /\ constraint \in BOOLEAN
    /\ repairer \in Repairer
    /\ \A g \in repairer.batch : g.ids # {} /\ g.ids \subseteq accounts
    /\ \A g \in repairer.batch : \A n \in g.ids : Normal[address[n]] = g.address
    /\ \A g, h \in repairer.batch : g # h => g.ids \cap h.ids = {}

AccountOf(n) == Normal[address[n]]

Flows == {[key |-> e.key, from |-> AccountOf(e.from), to |-> AccountOf(e.to)] : e \in edges}

KnownAccounts == {AccountOf(n) : n \in accounts}

KnownContracts == {AccountOf(n) : n \in contracts}

\* Who paid whom, who is known, and who is known as a contract is not changed by any step of a
\* repair, complete or interrupted: edges between duplicates, loops, and edges that duplicates
\* share included.
FlowsKept ==
    [][Flows' = Flows /\ KnownAccounts' = KnownAccounts /\ KnownContracts' = KnownContracts]_repairVars

\* A repair that is not interrupted ends with the constraint unless nodes without an address
\* are in the way, also when merging under normalised addresses made new duplicates.  A
\* starting listener also fails on duplicates of a spelling that is not normalised.
FailsOnlyUnrepairable ==
    repairer.pc = "failed" =>
        \E a \in Duplicated : Normal[a] = Blank \/ (repairer.mode = "start" /\ Normal[a] # a)

\* Every run ends: each batch and each error that is answered removes a node.
RepairTerminates == repairer.pc \notin Idle ~> repairer.pc \in Idle
=============================================================================

-------------------------- MODULE EnrichmentQueue --------------------------
(***************************************************************************)
(* The enrichment workers of ingestion/enrichment.go over the tables of    *)
(* ChainStore: a worker claims a job, projects its transaction and token   *)
(* transfers into Neo4j, analyses the contract it reveals, and completes   *)
(* the job.  Every call a worker makes is a step of its own, so workers,   *)
(* block saves, lease expiry, the pruning of maintenance.go, outages of    *)
(* Neo4j and restarts of the process interleave between any two of them.   *)
(*                                                                         *)
(* The loop detector's errors are only logged (detectLoop), so detection   *)
(* cannot change the fate of a job and takes no step here.                 *)
(***************************************************************************)
EXTENDS ChainStore

CONSTANTS
    Worker,         \* the enrichment workers
    WithCalldata,   \* transactions that call a contract
    MintOrBurn,     \* transfers from or to the zero address
    RequireNeo4j,   \* REQUIRE_NEO4J=1: the process does not start without Neo4j
    MaxOutages,     \* bound: how often Neo4j goes down
    MaxErrors,      \* bound: failed calls while every store is up
    MaxRestarts     \* bound: restarts of the process

ASSUME QueueAssumption ==
    /\ WithCalldata \subseteq WithRecipient
    /\ MintOrBurn \subseteq Transfer
    /\ RequireNeo4j \in BOOLEAN
    /\ {MaxOutages, MaxErrors, MaxRestarts} \subseteq Nat

VARIABLES
    worker,         \* worker -> the call it makes next and what it carries
    sent,           \* transactions with a :SENT edge
    transferred,    \* transfers with a :TRANSFERRED edge
    hasGraph,       \* the process connected to Neo4j when it started
    graphUp,        \* Neo4j answers
    outages, errors, restarts

graphVars == <<sent, transferred>>
faultVars == <<hasGraph, graphUp, outages, errors, restarts>>
queueVars == <<storeVars, worker, graphVars, faultVars>>

Phase == {"edge", "read", "transfers", "analyse", "mark"}

Idle == [pc |-> "idle"]

\* tx: the claimed transaction; target: contractTarget of the row as it was when claimed;
\* seen: the transfers read; failed: enrich has collected an error.
Busy == [pc : Phase, tx : Tx, target : BOOLEAN, seen : SUBSET Transfer, failed : BOOLEAN]

TransfersOfTx(t) == {x \in Transfer : EmitterOf[x] = t}

StoredTransfers(t) == {x \in TransfersOfTx(t) : tokenTransfers[x] # Null}

QueueInit ==
    /\ StoreInit
    /\ worker = [w \in Worker |-> Idle]
    /\ sent = {} /\ transferred = {}
    /\ hasGraph = TRUE /\ graphUp = TRUE
    /\ outages = 0 /\ errors = 0 /\ restarts = 0
-----------------------------------------------------------------------------
(***************************************************************************)
(* ClaimEnrichmentJob.  SKIP LOCKED lets a worker pass over rows another   *)
(* one is claiming, so any claimable row can be the one it gets.           *)
(***************************************************************************)
Claim(w, t) ==
    /\ worker[w] = Idle
    /\ Claimable(jobs[t])
    /\ jobs' = [jobs EXCEPT ![t] = Claimed(jobs[t])]
    /\ worker' = [worker EXCEPT ![w] =
                    [pc |-> "edge", tx |-> t, seen |-> {}, failed |-> FALSE,
                     target |-> transactions[t].created \/ t \in WithCalldata]]
    /\ UNCHANGED <<transactions, blocks, tokenTransfers, graphVars, faultVars>>

At(w, phase) == worker[w].pc = phase

Error == errors < MaxErrors /\ errors' = errors + 1

\* enrich collects errors and goes on to the next call.
Advanced(job, phase, failed) == [job EXCEPT !.pc = phase, !.failed = job.failed \/ failed]

GoTo(w, phase, failed) == worker' = [worker EXCEPT ![w] = Advanced(worker[w], phase, failed)]

(***************************************************************************)
(* A Neo4j write succeeds, fails without effect, or times out after the    *)
(* server committed it.  edges is the set it merges into set.              *)
(***************************************************************************)
GraphWrite(w, phase, set, edges) ==
    \/ /\ graphUp
       /\ set' = set \cup edges
       /\ GoTo(w, phase, FALSE)
       /\ UNCHANGED faultVars
    \/ /\ graphUp /\ Error
       /\ set' \in {set, set \cup edges}
       /\ GoTo(w, phase, TRUE)
       /\ UNCHANGED <<hasGraph, graphUp, outages, restarts>>
    \/ /\ ~graphUp
       /\ GoTo(w, phase, TRUE)
       /\ UNCHANGED <<set, faultVars>>

\* Neo4j.SaveTransaction, made only for a transaction with a recipient.  A process that
\* started without Neo4j makes no call and sees no error.
SaveEdge(w) ==
    /\ At(w, "edge")
    /\ IF hasGraph /\ worker[w].tx \in WithRecipient
       THEN GraphWrite(w, "read", sent, {worker[w].tx})
       ELSE GoTo(w, "read", FALSE) /\ UNCHANGED <<sent, faultVars>>
    /\ UNCHANGED <<storeVars, transferred>>

\* TokenTransfersForTransaction; an error leaves the list empty and enrich goes on.
ReadTransfers(w) ==
    /\ At(w, "read")
    /\ \/ /\ worker' = [worker EXCEPT ![w] =
                            [Advanced(@, "transfers", FALSE) EXCEPT !.seen = StoredTransfers(worker[w].tx)]]
          /\ UNCHANGED faultVars
       \/ /\ Error
          /\ GoTo(w, "transfers", TRUE)
          /\ UNCHANGED <<hasGraph, graphUp, outages, restarts>>
    /\ UNCHANGED <<storeVars, graphVars>>

\* Mints and burns are not money flows and get no edge.
Flows(transfers) == transfers \ MintOrBurn

\* Neo4j.SaveTokenTransfers, which writes only when flows were read.
SaveTokenTransfers(w) ==
    /\ At(w, "transfers")
    /\ IF hasGraph /\ Flows(worker[w].seen) # {}
       THEN GraphWrite(w, "analyse", transferred, Flows(worker[w].seen))
       ELSE GoTo(w, "analyse", FALSE) /\ UNCHANGED <<transferred, faultVars>>
    /\ UNCHANGED <<storeVars, sent>>

\* analyseContract seen from the queue: it can fail for a transaction with a target.  A
\* target is also marked in Neo4j, but only the first time its code is seen, so an outage
\* may or may not fail it.
AnalyseContract(w) ==
    /\ At(w, "analyse")
    /\ \/ GoTo(w, "mark", FALSE) /\ UNCHANGED faultVars
       \/ worker[w].target /\ hasGraph /\ ~graphUp /\ GoTo(w, "mark", TRUE) /\ UNCHANGED faultVars
       \/ /\ worker[w].target /\ Error
          /\ GoTo(w, "mark", TRUE)
          /\ UNCHANGED <<hasGraph, graphUp, outages, restarts>>
    /\ UNCHANGED <<storeVars, graphVars>>

\* Mutant of Mark: a job is completed whatever enrich returned.
MarkDoneAnyway(w) ==
    /\ At(w, "mark")
    /\ worker' = [worker EXCEPT ![w] = Idle]
    /\ jobs' = [jobs EXCEPT ![worker[w].tx] = MarkedDone(@)]
    /\ UNCHANGED <<transactions, blocks, tokenTransfers, graphVars, faultVars>>

\* MarkEnrichmentFailed or MarkEnrichmentDone.  An error of the statement is logged and
\* the worker goes back to claiming: the row stays leased until the lease expires.
Mark(w) ==
    LET t == worker[w].tx IN
    /\ At(w, "mark")
    /\ worker' = [worker EXCEPT ![w] = Idle]
    /\ \/ /\ jobs' = [jobs EXCEPT ![t] = IF worker[w].failed THEN MarkedFailed(@) ELSE MarkedDone(@)]
          /\ UNCHANGED faultVars
       \/ /\ Error
          /\ UNCHANGED <<jobs, hasGraph, graphUp, outages, restarts>>
    /\ UNCHANGED <<transactions, blocks, tokenTransfers, graphVars>>

Step(w) == SaveEdge(w) \/ ReadTransfers(w) \/ SaveTokenTransfers(w) \/ AnalyseContract(w) \/ Mark(w)
-----------------------------------------------------------------------------
\* Time: the backoff of a pending row runs out, or the lease of a processing row.
TimePasses(t) ==
    /\ jobs[t].status \in {"pending", "processing"}
    /\ ~jobs[t].due
    /\ jobs' = [jobs EXCEPT ![t].due = TRUE]
    /\ UNCHANGED <<transactions, blocks, tokenTransfers, worker, graphVars, faultVars>>

\* Mutant of PruneEnrichmentJobs: parked rows are deleted too.
PruneParkedJobs(old) ==
    /\ old # {}
    /\ \A t \in old : jobs[t].status \in {"done", "failed"}
    /\ jobs' = [t \in Tx |-> IF t \in old THEN NoJob ELSE jobs[t]]
    /\ UNCHANGED <<transactions, blocks, tokenTransfers, worker, graphVars, faultVars>>

\* PruneEnrichmentJobs: old are the finished rows past the retention.
PruneEnrichmentJobs(old) ==
    /\ old # {}
    /\ \A t \in old : jobs[t].status = "done"
    /\ jobs' = [t \in Tx |-> IF t \in old THEN NoJob ELSE jobs[t]]
    /\ UNCHANGED <<transactions, blocks, tokenTransfers, worker, graphVars, faultVars>>

\* A crash or a shutdown, where a worker whose context is cancelled returns without
\* marking, and the next start.  A start that finds Neo4j down gives up if Neo4j is
\* required, and otherwise leaves the process without a graph for good.
Restart ==
    /\ restarts < MaxRestarts
    /\ restarts' = restarts + 1
    /\ RequireNeo4j => graphUp
    /\ hasGraph' = graphUp
    /\ worker' = [w \in Worker |-> Idle]
    /\ UNCHANGED <<storeVars, graphVars, graphUp, outages, errors>>

GraphDown ==
    /\ graphUp /\ outages < MaxOutages
    /\ graphUp' = FALSE /\ outages' = outages + 1
    /\ UNCHANGED <<storeVars, worker, graphVars, hasGraph, errors, restarts>>

GraphRecovers ==
    /\ ~graphUp /\ graphUp' = TRUE
    /\ UNCHANGED <<storeVars, worker, graphVars, hasGraph, outages, errors, restarts>>

Ingest == StoreNext /\ UNCHANGED <<worker, graphVars, faultVars>>

QueueNext ==
    \/ Ingest
    \/ \E w \in Worker : Step(w) \/ \E t \in Tx : Claim(w, t)
    \/ \E t \in Tx : TimePasses(t)
    \/ \E old \in SUBSET Tx : PruneEnrichmentJobs(old)
    \/ Restart \/ GraphDown \/ GraphRecovers

QueueSpec == QueueInit /\ [][QueueNext]_queueVars

(***************************************************************************)
(* Fairness.  A worker goroutine keeps running (every call it makes has a  *)
(* timeout or returns); deadlines pass; an outage ends.  A claimable job   *)
(* is claimed even though others compete for the workers: the claim orders *)
(* rows by available_at, so a row waits only for older ones.               *)
(***************************************************************************)
QueueFairness ==
    /\ \A w \in Worker : WF_queueVars(Step(w))
    /\ \A t \in Tx : /\ WF_queueVars(TimePasses(t))
                     /\ SF_queueVars(\E w \in Worker : Claim(w, t))
    /\ WF_queueVars(GraphRecovers)

FairQueueSpec == QueueSpec /\ QueueFairness
-----------------------------------------------------------------------------
(***************************************************************************)
(* Properties.                                                             *)
(***************************************************************************)

\* Every worker carries what its phase needs; the graph holds edges of known keys.
QueueTypeOK ==
    /\ StoreTypeOK
    /\ worker \in [Worker -> Busy \cup {Idle}]
    /\ sent \subseteq Tx
    /\ transferred \subseteq Transfer
    /\ hasGraph \in BOOLEAN /\ graphUp \in BOOLEAN
    /\ outages \in 0 .. MaxOutages
    /\ errors \in 0 .. MaxErrors
    /\ restarts \in 0 .. MaxRestarts

\* The outbox loses no value transfer: a stored transaction with a recipient has its
\* :SENT edge or a row in the queue, through failures, restarts, expired leases, two
\* workers on one job and pruning (SaveTransaction, SaveBlock, enrichmentWorker).  A
\* process that may start without Neo4j does not keep it.
NothingMissed ==
    \A t \in WithRecipient : Stored(t) => Open(jobs[t]) \/ t \in sent

\* The retry limit is enforced whatever consumed the attempts: a row waiting for a retry
\* is below it and a parked row has reached it, also when attempts were spent by crashed
\* or overtaken workers, which never call MarkEnrichmentFailed.
RetryLimit ==
    \A t \in Tx :
        /\ jobs[t].status = "pending" => jobs[t].attempts < MaxAttempts
        /\ jobs[t].status = "failed" => jobs[t].attempts >= MaxAttempts

Undisturbed == errors = 0 /\ outages = 0 /\ restarts = 0

\* While no call fails and the process runs, a transfer that is stored but has no edge is
\* still owed one: its job is open, or a worker that has not read the transfers yet is on it,
\* or one has read this one and has not written it.  SaveBlock re-queues the job so that this
\* holds even if the block arrives while workers process the transaction and leases expire.
UnprojectedTransferIsOwed ==
    Undisturbed => \A x \in Flows(Transfer) :
        LET t == EmitterOf[x] IN
        tokenTransfers[x] # Null /\ x \notin transferred =>
            \/ Open(jobs[t])
            \/ \E w \in Worker :
                  /\ worker[w] # Idle /\ worker[w].tx = t
                  /\ \/ worker[w].pc \in {"edge", "read"}
                     \/ worker[w].pc = "transfers" /\ x \in worker[w].seen

Graph == INSTANCE Outbox WITH
    Item <- WithRecipient,
    stored <- {t \in WithRecipient : Stored(t)},
    owed <- {t \in WithRecipient : Open(jobs[t])},
    delivered <- sent \cap WithRecipient

\* The tables, workers and graph implement the outbox's promise step by step.
ImplementsOutbox == Graph!Spec

\* Every stored transaction with a recipient is eventually projected or parked as failed,
\* whatever fails on the way.
SentOrParked ==
    \A t \in WithRecipient : Stored(t) ~> t \in sent \/ jobs[t].status = "failed"

\* Every stored token transfer is eventually projected, unless a reorg removes it first
\* or something failed.
TransfersReachGraph ==
    \A x \in Flows(Transfer) :
        tokenTransfers[x] # Null ~> x \in transferred \/ tokenTransfers[x] = Null \/ ~Undisturbed
=============================================================================

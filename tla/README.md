# A TLA+ model of Forensic Listener

Forensic Listener watches an Ethereum node, commits what it sees to PostgreSQL, and
projects it into Neo4j and pgvector through a queue of enrichment jobs. The modules
here model the part of it that is concurrent, fails and has to stay consistent: the
ingestion transactions and their locks, the pending feed, the block watcher with reorgs and
reconnects, the queue with its workers, the two detectors the workers run, the maintenance of
derived data, the repair of the graph, and the API's live statistics, cache and rate limiter.
TLC checks them on small instances; TLAPS proves every safety property of the passing runs for
every chain, graph, number of workers and number of faults.

Paths below are relative to the repository's root (`src/`).

## Inventory

| Component | State | Operations | Interacts with |
| --- | --- | --- | --- |
| Node client (`client/eth.go`) | two channels per subscription, backoff | `stream`, `pump` | heads to the block watcher, pending transactions to the pending feed |
| Pending feed (`ingestion/engine.go`) | a buffer of 4096, 16 workers | `runPending`, `ingestWorker`, `toModel` | `SaveTransaction` |
| Block watcher (`ingestion/blocks.go`) | the last height seen (a local) | `runBlocks`, `ingestBlock` | node, `SaveBlock`, feed status |
| Ingestion writes (`store/postgres.go`) | `transactions`, `blocks`, `token_transfers`, `enrichment_jobs`, `accounts` | `SaveTransaction`, `SaveBlock`, `MarkDroppedTransactions` | writes the outbox in the same SQL transaction |
| Enrichment queue (`store/postgres.go`) | rows of `enrichment_jobs`: status, attempts, lease | claim, done, failed, prune | workers, ingestion writes, maintenance |
| Enrichment workers (`ingestion/enrichment.go`) | the claimed transaction, collected errors | `enrich`, `analyseContract`, `detectLoop` | queue, Neo4j, vector store, detectors, node |
| Neo4j projection (`store/neo4j.go`) | `:SENT` and `:TRANSFERRED` edges, account nodes | `SaveTransaction`, `SaveTokenTransfers`, `MarkContract`, queries, repair | workers, API |
| Vector store (`store/vector.go`, `embedding.go`) | `contract_vectors`, `account_behavior_vectors` | upsert, re-embed, flag, rebuild, similarity | workers, maintenance, API |
| Detectors (`forensics/`) | none of their own; `forensic_flags` | `Evaluate`, `EvaluateContract`, `PropagateLabel` | Neo4j, vectors, flags |
| Maintenance (`ingestion/maintenance.go`) | `behaviourSince` (a local) | rollup, re-embed, rebuild, prune, mark dropped | all tables |
| Feed status (`ingestion/status.go`) | atomics | touch, `headsRecently` | watcher, maintenance, API |
| API (`api/server.go`) | TTL cache | read handlers, `handleLabelEntity` | every store |
| Snapshot hub (`api/snapshot.go`) | latest payload, channel closed at each publish, exact counts | `publish`, `current`, `runSnapshots` | API streams |
| Rate limiter (`api/security.go`) | a fixed window per client | middleware | API |
| Startup, shutdown, repair (`main.go`) | whether there is a graph | connect, run, repair duplicates | everything |

Not the listener's own logic, and left aside: the devnet and its traffic generator, the
web front end, the migration runner.

What is hard here, and what must be right:

* **Ingestion writes.** Pending transactions and blocks arrive in any order; a block may
  replace another one whose transactions have since moved, been replaced, or been
  dropped. Mined rows must lie in stored blocks; nothing of a reverted block may survive.
* **Queue and workers.** A lease expires under a live worker; a completion comes from a
  worker whose lease was taken over; a block re-queues a job that is being processed; a
  call fails after its effect; the process stops anywhere. No transaction may lose its
  projection; retries are bounded; every job settles.
* **Block watcher.** Reorgs, dropped subscriptions, unsigned height arithmetic, blocks
  fetched by number while the node switches branches, fetches that fail. The tables must
  follow the canonical chain.
* **Contract analysis.** A contract is embedded and compared while an investigator labels
  its clone: one of the two must see the other. The comparison may fail after the embedding.
* **Circular-flow detector.** The legs of a loop are enriched at once, in any order, again,
  and with failing writes; the search of one depends on the writes of the others.
* **Snapshots and streams.** A count is taken from two statements while rows arrive; streams
  wait for a channel that is replaced at each publish. A shown count must not exceed the rows
  nor fall, and no wakeup may be lost.
* **Pending feed and shutdown.** Three channels, a full buffer, a subscription that drops and
  writers that wait for each other's rows. No transaction may be duplicated or forgotten, the
  feed must be read however slow the database is, and a shutdown must end everything.
* **Maintenance.** Rows arrive late and while a turn runs, turns fail, the process restarts:
  the windows of the rollup must pass over nothing, and `behaviourSince` over nothing that was
  stored in time.
* **Graph repair.** Duplicates in several spellings are merged group by group, in batches, with
  edges among themselves; a run may stop anywhere. No payment may be lost or change hands.
* **API.** Requests race for the limiter's lock and load the same cache entry at once while a
  label is saved; a load that began earlier may be stored later.

## Modules

| Module | Stands for | Composes |
| --- | --- | --- |
| `EnrichmentJobs` | the statements on one row of `enrichment_jobs` | |
| `ChainStore` | the ingestion transactions over the four tables | `EnrichmentJobs` |
| `EnrichmentQueue` | workers, leases, Neo4j outages, restarts over those tables | `ChainStore` |
| `Outbox` | the abstract promise: stored and owed in one step, settled only when delivered | |
| `BlockWatcher` | node, heads subscription and watcher over those tables | `ChainStore` |
| `ContractAnalysis` | `analyseContract`, the bytecode detector, labelling, re-embedding | `EnrichmentJobs` |
| `CircularFlow` | `enrich` with the circular-flow detector and its graph search | `EnrichmentJobs` |
| `LiveSnapshot` | `runSnapshots`, its two counting statements, the hub, the event streams | |
| `AccountLocks` | the row locks of the writing transactions, and `withTx` | |
| `PendingFeed` | `stream`, `pump`, `runPending`, the ingest workers, the writers' locks, shutdown | `AccountLocks` |
| `Maintenance` | `runMaintenance`: the rollup and the behaviour vectors | |
| `GraphRepair` | `RepairDuplicateAccounts` and `ensureSchema` | |
| `ApiRequests` | the middleware, the rate limiter, the cache, saving a label, the seed | |
| `ChainStore_proofs`, `EnrichmentQueue_proofs`, `BlockWatcher_proofs`, `ContractAnalysis_proofs`, `CircularFlow_proofs`, `Maintenance_proofs` | theorems and proofs | their module, `TLAPS` |
| `FeedAndApi_proofs` | the same for `PendingFeed` and `ApiRequests` | both, `TLAPS` |
| `SnapshotAndRepair_proofs` | the same for `LiveSnapshot` and `GraphRepair` | both, `TLAPS` |
| `MC*` | the instances TLC checks | their module |

### EnrichmentJobs

A row is its status, its attempts and the bit `due`: whether `available_at` or the lease
has run out. `ClaimEnrichmentJob` reads the clock only through those two comparisons, so
the length of a backoff or lease does not matter to any property here. Each operator is
one SQL statement with its `WHERE` and `ON CONFLICT`. `MarkedDone` and `MarkedFailed` are
guarded by `status = 'processing'` alone, as in the code: they do not know whose lease
they complete.

### ChainStore

`SaveTransaction`, `SaveBlock` and `MarkDroppedTransactions` each commit as one SQL
transaction and are one action. `SaveBlock` is written as the sequence the code follows:
revert the replaced block's rows and transfers, mine the block's transactions, mark the
rivals of each sender and nonce, insert transfers, queue or re-queue jobs. `receipts` is
whether the receipts arrived. A row keeps the columns the properties can tell apart:
status, block number, whether it has receipt data, whether it names a created contract.

One action per SQL transaction is right because only one goroutine saves blocks, and the
concurrent ones (pending transactions, completions, claims, maintenance) touch single
rows or use one statement; PostgreSQL's row locks order them as the model does.

### EnrichmentQueue

Each call a worker makes is an action: claim, save the edge, read the transfers, save
them, analyse the contract, complete. `worker[w]` is what `enrich` holds in locals: the
transaction as claimed, the transfers it read, whether an error was collected. A Neo4j
write succeeds, fails without effect, or fails after the commit (a timeout). A restart
forgets the workers. `hasGraph` is the process's `graph` pointer, decided at startup: a
process without it makes no graph call and sees no error. `RequireNeo4j` is the flag that
refuses to start without Neo4j. Loop detection only logs its errors, so it cannot change
what happens to a job and takes no step here; `CircularFlow` has it.

`Outbox` is what step 2 and step 4 of the repository's README promise of the queue.
`ImplementsOutbox` maps it: an item is stored when its row exists, owed while its job is
open, delivered when it has its `:SENT` edge.

### BlockWatcher

The node adopts a new tip at any time and announces the headers that are new to its
canonical chain, oldest first; heads announced while the subscription is down are lost,
and a drop loses those not yet forwarded. The watcher takes a head, computes the first
block to fetch (with unsigned wrap-around at `WordSize`), and loops fetch, save. The head
is fetched by hash, older blocks by number: whatever is canonical at that moment, which
can differ from the head's branch. `last` moves to the head however the loop ended.

### ContractAnalysis

A worker fetches the code of its job's contract, stores the embedding, compares it with
its neighbours, marks the vector row and saves the flag; a labelling request stores the
label, searches for clones and marks and flags each; re-embedding runs at any time. Each
statement is an action, because nothing but PostgreSQL's single statements orders them.
`Clones` is the relation "similarity at or above 0.85"; risk is "medium or high" or not;
a search returns any choice of the nearest clones up to its limit. It is taken to be exact: the
code orders by distance through an HNSW index (`store/vector.go:117`), which is approximate and
may leave out a neighbour; its recall is a setting of pgvector. Several transactions may
reveal one contract (`TargetOf`), each with a job of its own.

### CircularFlow

`enrich` with the graph and without the contract analysis: save the edge, read the
transfers, save them, then for each transfer search and flag. `graphReady`, the guard
that keeps the detector from a graph that lacks the transaction's own edges, is a field of
the worker. `Loops` is the pattern of the Cypher query: distinct relationships, moments
that do not decrease, inside the window, at most `MaxHops`; `Found` takes any shortest
one. Which leg of a transaction is searched first is left open. Mints and burns have no
edge and self-transfers close nothing; both are outside `Leg`.

### LiveSnapshot

`runSnapshots` is one goroutine whose calls are actions: `Tick` (a turn of the loop and
whether the exact counts are due), `CountRows` and `ReadClock` (the snapshot of `ExactCounts`
and its `clock_timestamp()`, evaluated after it in the same statement), `CountNewer`
(`LiveCounts`), `Publish`. A snapshot is kept as the rows it counts, so that its transaction
count is a sum of cardinalities and the properties can say which rows are missing. A stream
takes payload and channel in one step (`current` holds the mutex), writes, and waits;
`woken` is whether its channel has been closed. A payload is an address, because
`handleEventStream` compares addresses; an address nobody holds may be used again. When
the exact count fails, the previous one serves; any other failing query abandons the refresh.
The other figures of a snapshot are left out.

### AccountLocks and PendingFeed

A session is a database connection and its transaction: the rows it locks in the order of its
statements, and how many it has. A cycle of waiting sessions is broken by PostgreSQL aborting
one of them; `withTx` starts it over, at most `MaxAttempts` times. `PendingFeed` moves each
announced transaction through `in` and `out` of `stream` and the jobs buffer to a worker, whose
transaction competes for rows with a block and with the sweep of `MarkDroppedTransactions`.
`outcome` says what became of a transaction; what its save stores is in `ChainStore`, which may
take any order of saves, so the two fit together without a common state. The rows a block locks
are listed (`BlockPlans`): reverted transactions, sorted accounts, created contracts, its own
transactions. `Hang` is a database that answers no more, `Shutdown` the cancelled context.

### Maintenance

The loop's calls are actions: `Backfill` once per process, then `RefreshRecent`, `Select`,
`ComputeFeatures` and `StoreVector` per account, and sleep. A statement may fail at each of
them. The rollup and the vectors are kept as the sets of rows they were computed from, so that
the properties can say which rows are missing. What the loop does besides (re-embedding,
pruning, the sweep) is an action of `ContractAnalysis`, `EnrichmentQueue` and `ChainStore`.

`SaveTransaction` stores a pending transaction and `SaveBlock` the transactions of a block that
had no row yet. The timestamp is as old as any of `Ages`, and the theorems hold for any of them:
a backfill fetches up to 32 missed blocks (`ingestion/blocks.go:33`) and stores their
transactions with the time of their block (`store/postgres.go:317`), minutes ago. `arrived`
records when a row was stored; no action reads it.

`UnreflectedIsOwed` says exactly what `behaviourSince` promises. A transaction that an account's
vector misses came since the rebuild of that vector began, and a later turn selects the account,
unless `behaviourSince` has passed the transaction (`ingestion/maintenance.go:63`). That happens
to

* rows stored more than an interval after their timestamp (`Late`), as those of backfilled blocks;
* rows stored before the ten minutes after a rebuild of the account were over
  (`BeforeReselection`), in which it is not selected;
* after a restart, rows older than a day (`BeforeLookback`);
* accounts that the limit of 2000 leaves out of a turn: the property is stated for batches that
  reach everybody.

They wait until the account is active again. An account that is known from late rows alone gets
no vector until then, without any failure: `AccountGetsVector` promises one to every account with
a row that is neither late nor, at a restart, older than a day.

The rollup's windows are hours, so late rows reach it. `RowsReachRollup` exempts rows older than
the recent window that a failed first refresh left out or that were stored more than `Latency`
late (`WaitsForRestart`): they are counted at the next start only. A refresh that finds no row
does nothing and is left out, as is a process without a vector store.

### GraphRepair

The graph is a set of account nodes with their stored address and a set of edges identified by
key and ends, as `MERGE` does. A repair reads a batch of groups by stored spelling, largest
first, drops those without an address, and merges each into its node with the smallest id under
the normalised address, one write transaction per group: edges are moved to the kept node, and
duplicates are detached and deleted. Then the schema is tried: the error of `CREATE CONSTRAINT`
names an address, its holders are merged, and it is tried again. `Stop` is a failed call or a
killed process; a call that fails after its commit is the action followed by `Stop`. One process
repairs at a time and nothing else writes.

`FlowsKept` compares who paid whom by normalised address, before and after every step.
`FailsOnlyUnrepairable` states the two cases that defeat a repair: nodes without an address, and,
for a starting listener, duplicates of a spelling that is not normalised, since it looks up the
normalised address (the listener then starts without the graph). Groups without an address
also fill a batch: when they are the largest, the repair goes on to the schema with groups
left, which are then merged one error at a time. `first_seen` and `last_seen` of
duplicates are not merged by the code and not modelled.

### ApiRequests

A request passes the token check, reads the clock, takes the limiter's lock, and then looks up the
cache or saves its label. The cache's lock is released while an answer is loaded, so loads
overlap; `"hubs"` is loaded in two statements. `admitted` and `labelled` are history, complete
since the process started; the properties look back over the end of it. `Restart`
forgets windows and cache and seeds the known entity (`SeedKnownEntities`), which keeps an
investigator's label. A label does not remove cached answers, so an answer may be as old as
one period of the cache and one load. The limiter's clock is read before its lock is taken, so a
window may start late and the bound of `AtMostTwiceLimit` is for a minute less that wait.
The map of windows is never pruned (`api/security.go:55`).

## Runs

| Run | Question | Properties | Bounds and why they are enough |
| --- | --- | --- | --- |
| `chain_store` | are the tables consistent after any order of saves? | `MinedRowInStoredBlock`, `TransferInStoredBlock`, `RivalsSettleTogether`, `MinedUntilReorg`, `StoredWithJob` | two heights, two rival blocks at each, a transaction moving up a height, one moving down, a nonce conflict, a contract creation; no bound on the number of saves |
| `enrichment_queue` | does the queue lose, stall or exceed retries under faults? | `NothingMissed`, `UnprojectedTransferIsOwed`, `ImplementsOutbox`, `SentOrParked`, `TransfersReachGraph` | two workers on one transaction (contention needs two) whose transfers move between rival blocks, one outage, one failed call, one restart, two attempts: every pair of faults meets |
| `watcher_reorg` | do the tables follow the chain? | `CanonicalTxsMined`, `CanonicalTransfersStored`, `HeadStoredUnlessFailed` | branches of three and two blocks, four tips (there and back again), a drop, a failed call, a restart |
| `watcher_backfill` | does backfill close gaps? | `RecentBlocksCanonical` | five blocks without forks, two drops, gaps below, at and above a backfill of two |
| `analysis_clones` | does a clone of a labelled contract escape its flag? | `NoCloneEscapes`, `FlagIsMarked` | two clones, two workers, one request that labels and unlabels, a contract of the old vector model, one fault of any kind, two attempts |
| `circular_flow` | is a circle flagged whatever the order of enrichment? | `CircleIsFlagged` | two transactions, five transfers among four accounts, loops of two and three legs over one or both transactions, two workers, one fault, two attempts |
| `live_snapshot` | is the shown count right, and does a stream miss anything? | `NothingCountedTwice`, `SleeperHasLatest`, `ShownCountNeverFalls`, `StreamCatchesUp` | two rows with any timestamp up to their arrival, two moments (before and after a clock reading), one stream (streams do not meet each other), four addresses (three held and a free one), one failed query; no bound on refreshes |
| `pending_feed` | does the feed lose track of a transaction, do the writers deadlock, does a shutdown end? | `PendingTypeOK`, `FeedAccounted`, `CyclesNeedABlock`, `FeedIsRead`, `SavesEnd`, `ShutdownCompletes` | channels of one item, so that each is full; two workers and one connection each for blocks and the sweep; `Limits` lists three scenarios, since a hung database, a dropped subscription and a deadlock do not need each other; two attempts, so that the last one is reached |
| `maintenance` | which rows miss the rollup, or the rebuild of their accounts? | `UnreflectedIsOwed`, `RollupNeverShrinks`, `RowsReachRollup`, `AccountGetsVector` | two transactions, one of both accounts, alone or in one block, stored one interval after their timestamp (just in time) or two (late); an hour of two intervals, so that windows start inside hours; one failing statement, one restart, seven moments: every exemption the properties make is met, and without it they fail |
| `graph_repair` | does a repair lose or invent a payment, does it end? | `RepairTypeOK`, `FailsOnlyUnrepairable`, `FlowsKept`, `RepairTerminates` | every graph of four nodes under any of four spellings (one account in two, another account, none) with up to two edges anywhere, loops included; batches of one and two groups; one interruption and a second run |
| `api_requests` | is a client admitted too often or refused wrongly, is an answer too old? | `ApiTypeOK`, `AtMostTwiceLimit`, `RiskKeepsUp`, `RefusedOnlyOverLimit`, `LabelsVisible` | two requests of one client at once (races need two), a limit of two, a minute of two ticks, one label, one failing load, one restart; `"top"` is the first half of `"hubs"` and left out of the instance |

The type invariants of the modules with proofs are theorems and need no run, but for
`RepairTypeOK`, which also says that a batch stays mergeable, and those of `PendingFeed` and
`ApiRequests`, which bound the attempts, the windows and the answers.

`RecentBlocksCanonical` is the watcher's main property. It says, once everything announced
has been processed, that every height the watcher could see holds the canonical block. It
is stated for a run without failed calls and, if heads were lost, for a chain without
reorgs; the list below shows why. `CanonicalTxsMined` and `CanonicalTransfersStored` hold
only while nothing was lost; in `watcher_reorg` the transfer that a reorg moves stays at
its height, because one that moves to an earlier height can be lost.

One more run is expected to find a violation: `watcher_deepreorg`. `README.md:38` says that a
block's transfers are decoded and stored. When a reorg moves a transaction to an earlier height,
that block is saved first: the insert of the transfer meets the row of the old block, still
stored, and does nothing (`ON CONFLICT DO NOTHING`), and saving the new block of the later height
deletes that row (`store/postgres.go:196`): `CanonicalTransfersStored` fails. A transfer that
moves to a later height is safe, as its old row is deleted before it is inserted again.

Other differences between the code and what its documents say, seen while modelling; no run
repeats them:

* a re-queued job "stays queued" (`store/postgres.go:471`): if a second worker has claimed it
  since, the first one's late completion passes the guard `status = 'processing'` (`:477`),
  and the second one's failure is then ignored. The transfers have no edge and no job; a
  restart while the second worker is at work does the same without a failing call.
  `TransfersReachGraph` is stated without faults;
* `number-maxBlockBackfill+1` (`ingestion/blocks.go:33`) wraps for a head below 31 with a gap:
  neither gap nor head is fetched, although the bound (`:17`) is meant for long gaps. The
  instances start at a height where it does not;
* "a retried job is harmless" (`ingestion/enrichment.go:58`): the embedding is stored before
  the comparison, and if that fails the retry skips the contract as embedded (`:151`) and the
  job is done. `NoCloneEscapes` is stated without faults;
* accounts are upserted in sorted order so that two transactions "can no longer deadlock"
  (`store/postgres.go:87`): `SaveBlock` locks the transactions it reverts first and
  the created contracts in a second statement (`:299`). TLC finds cycles, all of them through
  a block (`CyclesNeedABlock`), and `withTx` answers them with another attempt (`SavesEnd`);
  `MarkDroppedTransactions` is not run in `withTx`, so when it is the one aborted it waits
  for the next turn;
* a process started while Neo4j is down keeps running without it (`main.go:88`) and completes
  jobs that it never projected, though "nothing that is stored can be missed by enrichment"
  (`README.md:37`): with `RequireNeo4j = FALSE` TLC finds `NothingMissed` violated, and
  `enrichment_queue` and the theorem set it;
* a reorg does not undo everything of the old block (`store/postgres.go:184`): losers it
  marked `replaced` stay so after the winner was reverted, and `created_contract` survives;
* edges of token transfers that a reorg removed are never removed from Neo4j
  (`store/postgres.go:196`, `README.md:45`);
* blocks at or below the last height that were reorganised while the subscription was down
  stay stored (`ingestion/blocks.go:33`); `RecentBlocksCanonical` excludes it;
* "rebuild behaviour vectors for recently active accounts" (`README.md:40`) leaves out accounts
  that were active only in transactions stored more than 30 s after their timestamp, above all
  those of backfilled blocks (`ingestion/maintenance.go:63`, `ingestion/blocks.go:33`):
  `UnreflectedIsOwed` and `AccountGetsVector` exempt them (`Late`);
* a contract is compared with its five nearest neighbours, not with "every stored contract"
  (`forensics/anomaly.go:30`, `:36`), and a label reaches 25 (`:58`): with more clones than
  that `NoCloneEscapes` fails, and `ClonesFlagged` assumes limits that reach every clone, and a
  search that finds them all although the HNSW index is approximate (`store/vector.go:117`);
* a contract labelled before it has an embedding has no neighbours, so its label reaches
  nobody, then or later, unless a clone is embedded afterwards (`unseen`); contracts embedded
  by `ReembedMissing` are never compared (`store/vector.go:60`); a labelling request that
  fails or is abandoned leaves clones unflagged although it answers 200 (`api/server.go:511`);
* a leg that is enriched after the leg that closes its loop leaves the loop unflagged
  (`forensics/circular.go:26`): `CircleIsFlagged` is about circles, whose legs all close;
  calls with calldata are legs and are never searched as closing ones, and a detection that
  fails or times out is only logged;
* a transaction first stored after a rival was mined stays `pending`: losers are looked up
  only when a block is saved (`store/postgres.go:153`, `:342`);
* jobs parked as `failed` during a long outage are not replayed when Neo4j returns
  (`store/postgres.go:495`; `README.md:45` says the queue replays): `SentOrParked` is
  therefore stated with the parked case;
* after a fetch error `last` still moves to the head and the block is not tried again
  (`ingestion/blocks.go:56`), while `ingestion/engine.go:106` says transactions are still
  captured when mined: the properties exclude failed calls;
* a canonical block that is still stored is skipped by its hash, also after a restart in
  the middle of a reorg, although another block took its transactions and was reverted
  (`store/postgres.go:193`): `CanonicalTxsMined` excludes restarts.

`CircleIsFlagged` says what the order of writes and search guarantees: of legs that close a
path over each other, as token transfers of one block do, the last to be searched sees the
edges of the rest, so one of them is flagged. The instance's `LoopsExist` assumes
that there are loops of both kinds to find.

`ShownCountNeverFalls` depends on both counting statements: an exact count replaces an older one
together with the rows that were newer than that, and must contain all of them. It does, because
rows are never deleted and a row that was newer was stored. `NothingCountedTwice` rests on the
order of the two reads in `ExactCounts`. Between two exact counts the shown count is not exact:
mined transactions carry the time of their block, so one that is stored after an exact count
with an older time appears only with the next one, up to 30 s later (`StreamCatchesUp` says that
it does). The pending count is live and the transaction count is not, so a snapshot may show
more pending transactions than transactions.

Each property of a passing run has a mutant: a definition changed as a plausible bug would
change it, with which TLC finds the property violated.

### Fairness

`FairQueueSpec`: a worker goroutine keeps running (its calls return or time out), clocks
advance, an outage ends: weak fairness. A claimable job is claimed although others compete for
the workers: strong fairness, because the claim orders rows by `available_at` and the worker
pool polls every 200 ms, so a row waits only for older ones. `FairPendingSpec`: goroutines run
(weak fairness), and PostgreSQL serves those who wait for a row in turn, so that no session is
passed over for ever by new ones (strong fairness per session); `Hang` is for good and the
liveness of saves says so. `FairMaintenanceSpec`: the goroutine runs and its ticker ticks.
`FairRepairSpec`: a started repair runs; nobody has to start it again. `FairLiveSpec`: the
ticker ticks, 30 s pass, and an open stream is served; heartbeats are not needed for progress
and have no fairness. Nothing forces blocks to arrive, transactions to be observed, leases to be
taken over, jobs to be pruned, a database to answer or a process to be stopped. `BlockWatcher`
and `ApiRequests` are checked for safety only.

### Assumptions of the models

A block contains a nonce of a sender once, and a chain contains a transaction once, as its nonce
is used up. The oldest blocks of a model are its lowest: it is a section of the chain from some
height on. A transaction has a sender and at most one recipient, and a block locks rows of
`accounts` and `transactions`. The node's tip does not get lower and every header new to the canonical chain is announced (`eth_subscribe newHeads`). One block
watcher and one listener process run at a time. A deadline may pass at any moment
(`TimePasses`), also under a worker that is still busy: `enrich` has no overall timeout.
The listener, the node's block times and the database share one clock: a row whose timestamp
is ahead of it when it is counted would be counted as newer too.
In `Maintenance` a timestamp is never ahead of the clock, `Ages` are any ages it may have when its
row is stored, and a turn takes at most `MaxTurn`; `WindowSuffices` in its instance says that the
recent window outlasts a lateness of `Latency`, a slow and a failed turn,
as two hours outlast the few minutes of 32 blocks at an interval of 30 s. In `ApiRequests` a request holds a clock
reading for at most `MaxWait` and a load takes at most `MaxLoad`.
Deadlock is checked in the runs of `ChainStore`, `EnrichmentQueue`, `LiveSnapshot`,
`Maintenance` and `ApiRequests`; the watcher may wait for ever once the node is silent, the
detectors have nothing left to do once every job is settled, a repair ends, and `PendingFeed`
ends with the shutdown.

## Theorems

Each holds for all values of the constants that the modules' `ASSUME`s admit.

| Theorem | Says |
| --- | --- |
| `StoreTypeCorrect`, `QueueTypeCorrect`, `WatchTypeCorrect` | type invariants; the watcher's includes the bounds of its loop |
| `StoreMinedRows`, `StoreReceipts`, `StoreTransfers` | mined rows and transfers lie in stored blocks; receipts go with mined |
| `StoreStoresWithJob`, `QueueStoresWithJob` | storing a transaction and opening its job are one step, with and without workers and outages (an action property) |
| `StoreSettlesRivals` | a block that mines a transaction leaves no rival of it pending (an action property) |
| `StoreMinedUntilReorg` | a mined transaction leaves its block only for another block at that height or by being mined anew (an action property) |
| `QueueMissesNothing` | with Neo4j required, a stored value transfer has a job or an edge |
| `QueueOwesTransfers` | without failing calls, a stored token transfer has an edge, an open job, or a worker bound to write it |
| `QueueRetryLimit` | waiting rows are below the limit, parked ones have reached it |
| `QueueImplementsOutbox` | with Neo4j required, the queue implements `Outbox` |
| `WatchKeepsStore`, `WatchMinedRows` | every step of the watcher's specification is a step of `ChainStore`; its theorems carry over |
| `HeadNeverSkipped` | past the first `MaxBackfill` heights, only a failed call makes the watcher give up a head (an action property) |
| `WatchRecentBlocks` | past those heights, a settled watcher has stored the recent canonical blocks: through every reorg while no subscription drops, through any drops on a chain without reorgs |
| `WatchTxsMined` | undisturbed and settled, the transactions of those blocks are mined and lie in stored blocks |
| `WatchTransfersStored` | the same of their token transfers, if reorgs keep each transfer at its height |
| `AnalysisTypeCorrect`, `CircularTypeCorrect` | type invariants; the second one includes that only transfers in the graph are searched |
| `FlagsMarked` | no bytecode flag without the mark on its vector row |
| `ClonesFlagged` | if no search is cut off by its limit and no call fails, no clone of a labelled contract escapes |
| `CirclesFlagged` | of the legs of a circle that were all searched, one is flagged |
| `LiveTypeCorrect`, `CountIsSound` | types of the live statistics; the shown count never exceeds the rows |
| `CountNeverFalls` | no open stream sees the count fall (an action property) |
| `SleepersUpToDate` | a stream that waits has sent the last payload, or is woken |
| `PendingTypeCorrect` | types of the feed, the writers and their locks; a worker has a session exactly while it saves |
| `FeedAccountedFor` | every announced transaction is in one place of the feed, in order, or came to a known end |
| `PendingCyclesNeedABlock` | sessions that wait for each other in a cycle include a block |
| `RepairTypeCorrect` | no edge dangles; the groups of a batch stay disjoint and as they were read |
| `RepairKeepsFlows` | no step of a repair changes who paid whom or who is known (an action property) |
| `RepairFailsOnlyUnrepairable` | what a repair that was not interrupted fails over |
| `MaintenanceTypeCorrect` | types; an account is embedded from its own rows |
| `MaintenanceOwes` | what a vector misses came since its rebuild began, and a later turn selects the account, but for late rows, those right after the rebuild and, at a restart, those a day old |
| `MaintenanceKeepsRollup` | no refresh takes a row out of the rollup (an action property) |
| `ApiTypeCorrect` | types of the limiter, the cache and the requests |
| `ApiAtMostTwice`, `ApiRefusedOnlyOverLimit` | no client gets more than twice its limit in a minute, nor is refused below it (the second an action property) |
| `ApiRiskKeepsUp`, `ApiLabelsVisible` | no cached answer pairs a label with an older risk; every answer shows the labels saved long enough ago (the second an action property) |

* `StoreInv` conjoins the type invariant with mined rows, receipts and transfers. They are
  inductive together: what `SaveBlock` keeps when it overwrites a height depends on rows
  and transfers pointing only at heights whose block contains them.
* `NothingMissed` is not inductive. A worker reaches `mark` without a collected error only
  after it wrote the edge, and *another* worker may have completed the job by then. `QueueInv`
  adds `EdgeBeforeMark`: a worker past the edge that has no error has its transaction in
  `sent`. With `RequireNeo4j` it also needs `GraphConfigured`: the process has a graph. The
  refinement follows the same invariant: a completion is `Settle` because the item has been
  delivered, and every other step is `Commit`, `Deliver` or a stutter.
* `QueueOwesTransfers` adds what a worker that has read the transfers of its transaction knows:
  a transfer that was stored after it read has re-queued the job.
* `HeadNeverSkipped` rests on `StartAtMostHead`, the unsigned arithmetic of `Start` under
  the hypothesis that excludes the wrap-around, and on `HeadFetchedByHash`: at the last
  turn of the loop the block is the head.
* `WatchRecentBlocks` has two invariants, one for each of its cases. While nothing drops,
  `FeedLinked` says that the feed continues the watcher's head to the tip: each block follows
  the chain of the one before it, and every height which that chain loses is announced again,
  lower heights first (`Overtakes`). `HeadStored` then says that the loop never backfills and
  the head's branch is stored as far as it was processed. On a chain without reorgs,
  `Backfilled` says the same of every height below the loop's counter that one backfill from
  the tip reaches, whatever was lost. Both rest on lemmas about the tree of blocks: branches are
  linear, without gaps, and have all their ancestors (`BranchLinear`, `BranchContiguous`,
  `BranchRooted`), each by the lowest block that would violate it (`LowestBlock`).
* `WatchTxsMined` and `WatchTransfersStored` add `Fresh`: a block stored below the head is on
  the head's branch, and one above it is replaced by the feed before anything else reaches its
  height. So a head is never mistaken for a stored block, and `SaveBlock` does run for each
  (`RowsFollow`, `TransfersFollow`). The hypothesis of the second one is what
  `watcher_deepreorg` lacks; `watcher_reorg` satisfies it.
* `ClonesFlagged` needs, for every pair of a labelled contract and a clone, that somebody is
  still bound to flag it: a worker that has yet to compare or has matched, or a request that
  has yet to search or holds the clone in its rest (`ClonesPursued`, `LabelsPursued`). A row
  is stored before it is compared and a label before it is propagated, so the later of the
  two sees the earlier.
* `CirclesFlagged` rests on `WrittenBeforeSearch`: a worker whose graph is ready has its legs
  in `edges` at every call up to the flag, also when the token write failed or was skipped.
  Edges are never removed, so when the last leg of a circle is searched the whole circle is in
  the graph, and `SearchIsComplete` says that the shortest-path query then finds something:
  a nonempty bounded set of lengths has a least element (`SmallestExists`, by well-foundedness
  of strict inclusion on intervals, as induction theorems are out of the provers' reach).

* `LiveInv` has two halves. `CountInv`: the rows of an exact count are at or before its time
  and what is added to them is after it, so the two are disjoint and their cardinalities add
  up to that of a set of rows. `GrowthInv`: each payload covers what the one before it covered
  (`NextCoversLatest`, at every call of the refresh) and the last one covers what any stream
  holds, so what a stream writes covers what it has sent. Of the allocator the
  proof uses only that it spares the addresses in use.
* `RepairKeepsFlows` says that a merged edge comes from one with the same ends up to duplicates
  (`MergedFrom`) and every edge is merged into such a one that survives the deletion
  (`MergedInto`), for any edges among the duplicates. `RepairInv` adds what makes a batch
  mergeable in any order (`BatchOK`) and that an operator's repair goes on to the schema only
  with duplicates that have no address (`BlanksRemain`), which needs that a batch of a
  nonempty set is not empty (`SomeDuplicate`).
* `FeedAccountedFor` rests on `FeedInv`: the channels, the item on its way between them and what
  the workers hold are apart and in the order of the announcements. `PendingInv` ties what a
  session has locked to its plan (`SessionsOK`); `PendingCyclesNeedABlock` follows from
  it because the plans of pending transactions are sorted accounts that end in the transaction's
  own row: a worker that waits holds accounts only, so the sweep, which wants rows of
  transactions, waits for no worker that waits itself; and among workers, whoever waits for the
  least row of a cycle holds a row that another one waits for, which is smaller still.
* `ApiAtMostTwice` counts what was admitted within a minute by the windows it fell into: two at
  most, each with at most the limit. `ApiRiskKeepsUp` and `ApiLabelsVisible` order what a load
  has read by the moment it read it, against the labels saved by then.
* `MaintenanceInv` splits `UnreflectedIsOwed` in two: a vector misses only what was stored after
  its rows were read (`VectorsFresh`, and `ReadingFresh` while it is computed), and a row is
  after `behaviourSince` or settled, that is reflected or exempt (`NextTurnSees`). The second
  needs that `behaviourSince` stays an interval behind the clock, so that a row stored before it
  is late (`LoopOK`), and that what the next `behaviourSince` will pass is settled or in the
  batch (`TurnCovers`). Nothing is assumed of the age of rows.
  `MaintenanceKeepsRollup` rests on `WholeHours`: of an hour that a window touches, the window
  holds every row, whatever hour and window are.

Left to TLC: liveness under fairness (`SentOrParked`, `TransfersReachGraph`, `StreamCatchesUp`,
`FeedIsRead`, `SavesEnd`, `ShutdownCompletes`, `RowsReachRollup`, `AccountGetsVector`,
`RepairTerminates`), which the provers cannot do here. Every other property of a passing run is
stated by a theorem.

## Not modelled

* What the client library buffers of a subscription, and the order of the connections at
  startup: each failure but Neo4j's ends the process.
* The end of `runSnapshots` at shutdown, and the handlers that read the hub's last snapshot.
* Circular-flow flags as a source of a contract's risk.
* Embeddings as numbers (`store/embedding.go`): similarity is a relation between contracts.
* Analytics and other read queries, of PostgreSQL and Neo4j: they have no state, and what they
  compute is SQL and Cypher. They are the largest part of the stores' code.
* The dashboard, the traffic generator, formatting, address normalisation (a function from
  spellings to spellings in `GraphRepair`), the migration runner.

## Plan

In order, the most consequential first:

1. `Bytecode`: the opcode skeleton as a pure algorithm against a reference definition.
2. A refinement: `PendingFeed` implements the mempool feed of `BlockWatcher`, session by session.
3. Traffic between the components of `PendingFeed` and `EnrichmentQueue` on one pool of connections.

Proofs to come: that refinement of the mempool feed; the abstract promise of the live
statistics (a count that only grows, up to the rows) as a specification that `LiveSnapshot`
implements; the same for the rate limiter's windows.

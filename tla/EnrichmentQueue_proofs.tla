----------------------- MODULE EnrichmentQueue_proofs -----------------------
(***************************************************************************)
(* Proofs about EnrichmentQueue: for any number of workers, transactions   *)
(* and blocks, any retry limit and any number of faults, the queue loses   *)
(* no value transfer and implements the outbox.                            *)
(***************************************************************************)
EXTENDS EnrichmentQueue, ChainStore_proofs

(***************************************************************************)
(* The invariant that carries the argument.  A row that is not open no     *)
(* longer owes an edge because the worker that completed it had written    *)
(* one: a worker that is past its first write without an error holds a     *)
(* transaction whose edge exists, whoever owns the lease by then.          *)
(***************************************************************************)
EdgeBeforeMark ==
    \A w \in Worker :
        worker[w] # Idle =>
            /\ Stored(worker[w].tx)
            /\ \/ worker[w].pc = "edge"
               \/ worker[w].failed
               \/ RequireNeo4j /\ worker[w].tx \in WithRecipient => worker[w].tx \in sent

NothingMissedWithGraph == RequireNeo4j => NothingMissed

GraphConfigured == RequireNeo4j => hasGraph

QueueInv ==
    /\ QueueTypeOK
    /\ StoreInv
    /\ NothingMissedWithGraph
    /\ RetryLimit
    /\ EdgeBeforeMark
    /\ JobsOfStored
    /\ GraphConfigured
-----------------------------------------------------------------------------
\* What the statements on a job row do to it.
LEMMA JobSteps ==
    ASSUME NEW job \in Job
    PROVE  /\ Claimed(job) \in Job /\ Claimed(job).status = "processing"
           /\ MarkedDone(job) \in Job
           /\ job.status # "processing" => MarkedDone(job) = job
           /\ job.status = "processing" => MarkedDone(job).status = "done"
           /\ MarkedFailed(job) \in Job
           /\ Open(job) <=> Open(MarkedFailed(job))
           /\ job.status # "processing" => MarkedFailed(job) = job
           /\ job.status = "processing" =>
                /\ MarkedFailed(job).attempts = job.attempts
                /\ \/ job.attempts >= MaxAttempts /\ MarkedFailed(job).status = "failed"
                   \/ job.attempts < MaxAttempts /\ MarkedFailed(job).status = "pending"
<1>1. Claimed(job) \in Job /\ Claimed(job).status = "processing"
  BY DEF Job, JobStatus, Claimed
<1>2. CASE job.status # "processing"
  BY <1>1, <1>2 DEF MarkedDone, MarkedFailed
<1>3. CASE job.status = "processing"
  <2>1. MarkedDone(job) = [status |-> "done", attempts |-> job.attempts, due |-> FALSE]
    BY <1>3 DEF MarkedDone, Job
  <2>2. MarkedFailed(job) =
          [status |-> IF job.attempts >= MaxAttempts THEN "failed" ELSE "pending",
           attempts |-> job.attempts, due |-> FALSE]
    BY <1>3 DEF MarkedFailed, Job
  <2>3. job.attempts \in Nat
    BY DEF Job
  <2>4. MarkedDone(job) \in Job /\ MarkedDone(job).status = "done"
    BY <2>1, <2>3 DEF Job, JobStatus
  <2>5. CASE job.attempts >= MaxAttempts
    BY <1>1, <1>3, <2>2, <2>3, <2>4, <2>5 DEF Job, JobStatus, Open
  <2>6. CASE ~(job.attempts >= MaxAttempts)
    BY <1>1, <1>3, <2>2, <2>3, <2>4, <2>6, MaxAttemptsAssumption DEF Job, JobStatus, Open
  <2> QED
    BY <2>5, <2>6
<1> QED
  BY <1>2, <1>3

-----------------------------------------------------------------------------
LEMMA AdvancedColumns ==
    ASSUME NEW r \in Busy, NEW phase \in Phase, NEW failed \in BOOLEAN
    PROVE  LET next == Advanced(r, phase, failed) IN
           /\ next \in Busy
           /\ next.pc = phase /\ next.tx = r.tx /\ next.seen = r.seen
           /\ next.failed <=> (r.failed \/ failed)
<1> DEFINE f == r.failed \/ failed
<1>1. f \in BOOLEAN
  OBVIOUS
<1>2. Advanced(r, phase, failed) = [r EXCEPT !.pc = phase, !.failed = f]
  BY DEF Advanced
<1> HIDE DEF f
<1>3. LET next == [r EXCEPT !.pc = phase, !.failed = f] IN
      next \in Busy /\ next.pc = phase /\ next.tx = r.tx /\ next.seen = r.seen /\ next.failed = f
  BY <1>1 DEF Busy
<1> QED
  BY <1>2, <1>3 DEF f

LEMMA GoToEffect ==
    ASSUME QueueTypeOK, NEW w \in Worker, worker[w] # Idle,
           NEW phase \in Phase, NEW failed \in BOOLEAN, GoTo(w, phase, failed)
    PROVE  /\ worker' \in [Worker -> Busy \cup {Idle}]
           /\ worker'[w] \in Busy
           /\ worker'[w].pc = phase
           /\ worker'[w].tx = worker[w].tx
           /\ worker'[w].seen = worker[w].seen
           /\ worker'[w].failed <=> (worker[w].failed \/ failed)
           /\ \A v \in Worker \ {w} : worker'[v] = worker[v]
<1>1. worker[w] \in Busy
  BY DEF QueueTypeOK
<1>2. worker' = [worker EXCEPT ![w] = Advanced(worker[w], phase, failed)]
  BY DEF GoTo
<1>3. worker'[w] = Advanced(worker[w], phase, failed)
  BY <1>2 DEF QueueTypeOK
<1>4. Advanced(worker[w], phase, failed) \in Busy
  BY <1>1, AdvancedColumns
<1>5. /\ worker' \in [Worker -> Busy \cup {Idle}]
      /\ \A v \in Worker \ {w} : worker'[v] = worker[v]
  BY <1>2, <1>4 DEF QueueTypeOK
<1> QED
  BY <1>1, <1>3, <1>5, AdvancedColumns

\* A fault counter that moves stays within its bound.
LEMMA ErrorTyped ==
    ASSUME QueueTypeOK, Error
    PROVE  errors' \in 0 .. MaxErrors
BY QueueAssumption DEF QueueTypeOK, Error, QueueAssumption

\* The phases of a busy worker differ from "idle".
LEMMA BusyWorker ==
    ASSUME QueueTypeOK, NEW w \in Worker, NEW phase \in Phase, At(w, phase)
    PROVE  worker[w] \in Busy /\ worker[w] # Idle
BY DEF QueueTypeOK, At, Phase, Idle

FaultsOK ==
    /\ hasGraph \in BOOLEAN /\ graphUp \in BOOLEAN
    /\ outages \in 0 .. MaxOutages
    /\ errors \in 0 .. MaxErrors
    /\ restarts \in 0 .. MaxRestarts

\* What the calls a worker makes before it completes its job have in common.
Call(w) == SaveEdge(w) \/ ReadTransfers(w) \/ SaveTokenTransfers(w) \/ AnalyseContract(w)

CallEffect(w) ==
    /\ UNCHANGED storeVars
    /\ worker[w] \in Busy /\ worker[w] # Idle
    /\ worker' \in [Worker -> Busy \cup {Idle}]
    /\ worker'[w] \in Busy
    /\ worker'[w].tx = worker[w].tx
    /\ \A v \in Worker \ {w} : worker'[v] = worker[v]
    /\ sent' \in {sent, sent \cup {worker[w].tx}}
    /\ transferred' \subseteq Transfer
    /\ hasGraph' = hasGraph /\ FaultsOK'
    /\ \/ worker'[w].failed
       \/ RequireNeo4j /\ worker[w].tx \in WithRecipient => worker[w].tx \in sent'

LEMMA CallDoes ==
    ASSUME QueueTypeOK, EdgeBeforeMark, GraphConfigured, NEW w \in Worker, Call(w)
    PROVE  CallEffect(w)
<1> FaultsOK /\ sent \subseteq Tx /\ transferred \subseteq Transfer
  BY DEF QueueTypeOK, FaultsOK
<1>1. CASE SaveEdge(w)
  <2>1. worker[w] \in Busy /\ worker[w] # Idle
    BY <1>1, BusyWorker DEF SaveEdge, Phase
  <2>2. UNCHANGED storeVars /\ transferred' = transferred
    BY <1>1 DEF SaveEdge
  <2>3. /\ sent' \in {sent, sent \cup {worker[w].tx}}
        /\ hasGraph' = hasGraph /\ FaultsOK'
        /\ \/ GoTo(w, "read", TRUE)
           \/ /\ GoTo(w, "read", FALSE)
              /\ RequireNeo4j /\ worker[w].tx \in WithRecipient => worker[w].tx \in sent'
    BY <1>1, ErrorTyped DEF SaveEdge, GraphWrite, faultVars, FaultsOK, GraphConfigured
  <2> QED
    BY <2>1, <2>2, <2>3, GoToEffect DEF CallEffect, Phase
<1>2. CASE ReadTransfers(w)
  <2>1. worker[w] \in Busy /\ worker[w] # Idle /\ worker[w].pc = "read"
    BY <1>2, BusyWorker DEF ReadTransfers, Phase, At
  <2>2. UNCHANGED storeVars /\ UNCHANGED graphVars /\ hasGraph' = hasGraph /\ FaultsOK'
    BY <1>2, ErrorTyped DEF ReadTransfers, faultVars, FaultsOK
  <2>3. worker[w].failed \/ (RequireNeo4j /\ worker[w].tx \in WithRecipient => worker[w].tx \in sent)
    BY <2>1 DEF EdgeBeforeMark
  <2>4. CASE GoTo(w, "transfers", TRUE)
    BY <2>1, <2>2, <2>3, <2>4, GoToEffect DEF CallEffect, Phase, graphVars
  <2>5. CASE worker' = [worker EXCEPT ![w] = [Advanced(@, "transfers", FALSE)
                                    EXCEPT !.seen = StoredTransfers(worker[w].tx)]]
    <3> DEFINE next == Advanced(worker[w], "transfers", FALSE)
    <3>1. next \in Busy /\ next.tx = worker[w].tx /\ (next.failed <=> worker[w].failed)
      BY <2>1, AdvancedColumns DEF Phase
    <3>2. StoredTransfers(worker[w].tx) \in SUBSET Transfer
      BY DEF StoredTransfers, TransfersOfTx
    <3>3. worker' = [worker EXCEPT ![w] = [next EXCEPT !.seen = StoredTransfers(worker[w].tx)]]
      BY <2>5 DEF QueueTypeOK
    <3> HIDE DEF next
    <3>4. ASSUME NEW r \in Busy, NEW S \in SUBSET Transfer
          PROVE  /\ [r EXCEPT !.seen = S] \in Busy
                 /\ [r EXCEPT !.seen = S].tx = r.tx
                 /\ [r EXCEPT !.seen = S].failed <=> r.failed
      BY DEF Busy
    <3>5. /\ worker' \in [Worker -> Busy \cup {Idle}]
          /\ worker'[w] \in Busy /\ worker'[w].tx = worker[w].tx
          /\ worker'[w].failed <=> worker[w].failed
          /\ \A v \in Worker \ {w} : worker'[v] = worker[v]
      BY <3>1, <3>2, <3>3, <3>4 DEF QueueTypeOK
    <3> QED
      BY <2>1, <2>2, <2>3, <3>5 DEF CallEffect, graphVars
  <2> QED
    BY <1>2, <2>4, <2>5 DEF ReadTransfers
<1>3. CASE SaveTokenTransfers(w)
  <2>1. worker[w] \in Busy /\ worker[w] # Idle /\ worker[w].pc = "transfers"
    BY <1>3, BusyWorker DEF SaveTokenTransfers, Phase, At
  <2>2. UNCHANGED storeVars /\ sent' = sent
    BY <1>3 DEF SaveTokenTransfers
  <2>3. worker[w].seen \subseteq Transfer
    BY <2>1 DEF Busy
  <2>4. /\ transferred' \subseteq Transfer
        /\ hasGraph' = hasGraph /\ FaultsOK'
        /\ GoTo(w, "analyse", TRUE) \/ GoTo(w, "analyse", FALSE)
    BY <1>3, <2>3, ErrorTyped DEF SaveTokenTransfers, GraphWrite, Flows, faultVars,
       FaultsOK
  <2>5. worker[w].failed \/ (RequireNeo4j /\ worker[w].tx \in WithRecipient => worker[w].tx \in sent)
    BY <2>1 DEF EdgeBeforeMark
  <2> QED
    BY <2>1, <2>2, <2>4, <2>5, GoToEffect DEF CallEffect, Phase
<1>4. CASE AnalyseContract(w)
  <2>1. worker[w] \in Busy /\ worker[w] # Idle /\ worker[w].pc = "analyse"
    BY <1>4, BusyWorker DEF AnalyseContract, Phase, At
  <2>2. /\ UNCHANGED storeVars /\ UNCHANGED graphVars /\ hasGraph' = hasGraph /\ FaultsOK'
        /\ GoTo(w, "mark", TRUE) \/ GoTo(w, "mark", FALSE)
    BY <1>4, ErrorTyped DEF AnalyseContract, faultVars, FaultsOK
  <2>3. worker[w].failed \/ (RequireNeo4j /\ worker[w].tx \in WithRecipient => worker[w].tx \in sent)
    BY <2>1 DEF EdgeBeforeMark
  <2> QED
    BY <2>1, <2>2, <2>3, GoToEffect DEF CallEffect, Phase, graphVars
<1> QED
  BY <1>1, <1>2, <1>3, <1>4 DEF Call
-----------------------------------------------------------------------------
LEMMA QueueInvInit == QueueInit => QueueInv
<1> SUFFICES ASSUME QueueInit PROVE QueueInv
  OBVIOUS
<1>1. StoreInit
  BY DEF QueueInit
<1>2. StoreInv /\ StoreTypeOK
  BY <1>1, StoreInvInit DEF StoreInv
<1>3. QueueTypeOK
  BY <1>2, QueueAssumption DEF QueueInit, QueueTypeOK, QueueAssumption
<1>4. \A t \in Tx : ~Stored(t) /\ jobs[t].status = "none"
  BY <1>1 DEF StoreInit, Stored, NoRow, NoJob
<1>5. NothingMissedWithGraph /\ RetryLimit /\ JobsOfStored
  BY <1>4, ChainAssumption DEF NothingMissedWithGraph, NothingMissed, RetryLimit, JobsOfStored, ChainAssumption
<1>6. EdgeBeforeMark
  BY DEF QueueInit, EdgeBeforeMark
<1>7. GraphConfigured
  BY DEF QueueInit, GraphConfigured
<1> QED
  BY <1>2, <1>3, <1>5, <1>6, <1>7 DEF QueueInv

LEMMA IngestStep ==
    ASSUME QueueInv, Ingest
    PROVE  QueueInv'
<1> USE DEF QueueInv
<1>1. StoreInv' /\ StoreTypeOK'
  BY StoreInvStep DEF Ingest, StoreInv
<1>2. worker' = worker /\ sent' = sent /\ transferred' = transferred /\ UNCHANGED faultVars
  BY DEF Ingest, graphVars
<1>3. \A t \in Tx :
        /\ Stored(t) => Stored(t)'
        /\ jobs'[t] \in {jobs[t], FreshJob}
        /\ jobs'[t] # jobs[t] => Stored(t)'
        /\ ~Stored(t) /\ Stored(t)' /\ t \in WithRecipient => jobs'[t] = FreshJob
  BY IngestKeepsQueue DEF Ingest, Revealing
<1>4. /\ FreshJob.status = "pending" /\ FreshJob.attempts < MaxAttempts
      /\ Open(FreshJob)
  BY MaxAttemptsAssumption DEF FreshJob, Open
<1>5. QueueTypeOK'
  BY <1>1, <1>2 DEF QueueTypeOK, faultVars
<1>6. NothingMissedWithGraph'
  BY <1>2, <1>3, <1>4, ChainAssumption DEF NothingMissedWithGraph, NothingMissed, ChainAssumption
<1>7. RetryLimit'
  BY <1>3, <1>4 DEF RetryLimit
<1>8. EdgeBeforeMark'
  BY <1>2, <1>3 DEF EdgeBeforeMark, QueueTypeOK, Busy
<1>9. JobsOfStored'
  BY <1>3 DEF JobsOfStored
<1>10. GraphConfigured'
  BY <1>2 DEF GraphConfigured, faultVars
<1> QED
  BY <1>10, <1>1, <1>5, <1>6, <1>7, <1>8, <1>9

\* A step that leaves the tables of ChainStore alone leaves its invariant alone.
LEMMA StoreUnchanged ==
    ASSUME StoreInv, UNCHANGED <<transactions, blocks, tokenTransfers>>, jobs' \in [Tx -> Job]
    PROVE  StoreInv' /\ StoreTypeOK' /\ \A t \in Tx : Stored(t)' <=> Stored(t)
BY DEF StoreInv, StoreTypeOK, MinedRowInStoredBlock, ReceiptOnlyWhileMined,
       TransferInStoredBlock, Stored

LEMMA CallStep ==
    ASSUME QueueInv, NEW w \in Worker, Call(w)
    PROVE  QueueInv'
<1> USE DEF QueueInv
<1>1. CallEffect(w)
  BY CallDoes
<1>2. jobs' = jobs /\ UNCHANGED <<transactions, blocks, tokenTransfers>>
  BY <1>1 DEF CallEffect, storeVars
<1>3. StoreInv' /\ StoreTypeOK' /\ \A t \in Tx : Stored(t)' <=> Stored(t)
  BY <1>2, StoreUnchanged DEF QueueTypeOK, StoreTypeOK
<1>4. worker[w].tx \in Tx
  BY <1>1 DEF CallEffect, Busy
<1>5. QueueTypeOK'
  BY <1>1, <1>3, <1>4 DEF CallEffect, QueueTypeOK, FaultsOK
<1>6. sent \subseteq sent'
  BY <1>1 DEF CallEffect
<1>7. NothingMissedWithGraph' /\ RetryLimit' /\ JobsOfStored'
  BY <1>2, <1>3, <1>6, ChainAssumption
     DEF NothingMissedWithGraph, NothingMissed, RetryLimit, JobsOfStored, ChainAssumption
<1>8. EdgeBeforeMark'
  <2> SUFFICES ASSUME NEW v \in Worker, (worker[v] # Idle)'
               PROVE  (/\ Stored(worker[v].tx)
                       /\ \/ worker[v].pc = "edge"
                          \/ worker[v].failed
                          \/ RequireNeo4j /\ worker[v].tx \in WithRecipient => worker[v].tx \in sent)'
    BY DEF EdgeBeforeMark
  <2>1. CASE v = w
    BY <1>1, <1>3, <1>4, <2>1 DEF CallEffect, EdgeBeforeMark
  <2>2. CASE v # w
    <3>1. worker'[v] = worker[v] /\ worker[v] # Idle
      BY <1>1, <2>2 DEF CallEffect
    <3>2. worker[v].tx \in Tx
      BY <3>1 DEF QueueTypeOK, Busy
    <3> QED
      BY <1>3, <1>6, <3>1, <3>2 DEF EdgeBeforeMark
  <2> QED
    BY <2>1, <2>2
<1>9. GraphConfigured'
  BY <1>1 DEF GraphConfigured, CallEffect
<1> QED
  BY <1>9, <1>3, <1>5, <1>7, <1>8

LEMMA MarkStep ==
    ASSUME QueueInv, NEW w \in Worker, Mark(w)
    PROVE  QueueInv'
<1> USE DEF QueueInv
<1> DEFINE t == worker[w].tx
<1>1. worker[w] \in Busy /\ worker[w] # Idle /\ worker[w].pc = "mark" /\ t \in Tx
  BY BusyWorker DEF Mark, Phase, At, Busy
<1>2. /\ worker' = [worker EXCEPT ![w] = Idle]
      /\ UNCHANGED <<transactions, blocks, tokenTransfers>>
      /\ sent' = sent /\ transferred' = transferred
      /\ \/ /\ jobs' = [jobs EXCEPT ![t] = IF worker[w].failed THEN MarkedFailed(@) ELSE MarkedDone(@)]
            /\ UNCHANGED faultVars
         \/ Error /\ UNCHANGED <<jobs, hasGraph, graphUp, outages, restarts>>
  BY DEF Mark, graphVars
<1>3. jobs \in [Tx -> Job] /\ Stored(t) /\ (worker[w].failed \/ (RequireNeo4j /\ t \in WithRecipient => t \in sent))
  BY <1>1 DEF QueueTypeOK, StoreTypeOK, EdgeBeforeMark
<1>4. /\ \A u \in Tx \ {t} : jobs'[u] = jobs[u]
      /\ \/ jobs'[t] = jobs[t]
         \/ worker[w].failed /\ jobs'[t] = MarkedFailed(jobs[t])
         \/ ~worker[w].failed /\ jobs'[t] = MarkedDone(jobs[t])
      /\ jobs' \in [Tx -> Job]
  <2> HIDE DEF t, QueueInv
  <2>1. MarkedFailed(jobs[t]) \in Job /\ MarkedDone(jobs[t]) \in Job
    BY <1>1, <1>3, JobSteps
  <2> QED
    BY <1>1, <1>2, <1>3, <2>1
<1>5. StoreInv' /\ StoreTypeOK' /\ \A u \in Tx : Stored(u)' <=> Stored(u)
  BY <1>2, <1>4, StoreUnchanged
<1>6. FaultsOK'
  BY <1>2, ErrorTyped DEF QueueTypeOK, FaultsOK, faultVars
<1>7. QueueTypeOK'
  BY <1>2, <1>5, <1>6 DEF QueueTypeOK, FaultsOK
<1>8. /\ jobs[t] \in Job
      /\ jobs'[t].status # "none" => jobs[t].status # "none"
      /\ Open(jobs[t]) => Open(jobs'[t]) \/ (RequireNeo4j /\ t \in WithRecipient => t \in sent)
      /\ jobs'[t].status = "pending" => jobs'[t].attempts < MaxAttempts
      /\ jobs'[t].status = "failed" => jobs'[t].attempts >= MaxAttempts
  <2>1. jobs[t] \in Job
    BY <1>1, <1>3
  <2>2. /\ jobs[t].status = "pending" => jobs[t].attempts < MaxAttempts
        /\ jobs[t].status = "failed" => jobs[t].attempts >= MaxAttempts
    BY <1>1 DEF RetryLimit
  <2> HIDE DEF t
  <2>3. CASE jobs'[t] = jobs[t]
    BY <2>1, <2>2, <2>3
  <2>4. CASE worker[w].failed /\ jobs'[t] = MarkedFailed(jobs[t])
    BY <2>1, <2>2, <2>4, JobSteps
  <2>5. CASE ~worker[w].failed /\ jobs'[t] = MarkedDone(jobs[t])
    BY <1>3, <2>1, <2>2, <2>5, JobSteps
  <2> QED
    BY <1>4, <2>1, <2>3, <2>4, <2>5
<1>9. NothingMissedWithGraph' /\ RetryLimit' /\ JobsOfStored'
  <2> HIDE DEF t
  <2>1. NothingMissedWithGraph'
    BY <1>1, <1>2, <1>4, <1>5, <1>8, ChainAssumption DEF NothingMissedWithGraph, NothingMissed, ChainAssumption
  <2>2. RetryLimit'
    BY <1>4, <1>8 DEF RetryLimit
  <2>3. JobsOfStored'
    BY <1>4, <1>5, <1>8 DEF JobsOfStored
  <2> QED
    BY <2>1, <2>2, <2>3
<1>10. EdgeBeforeMark'
  BY <1>2, <1>5 DEF EdgeBeforeMark, QueueTypeOK, Busy
<1>11. GraphConfigured'
  BY <1>2 DEF GraphConfigured, faultVars
<1> QED
  BY <1>11, <1>5, <1>7, <1>9, <1>10

LEMMA ClaimStep ==
    ASSUME QueueInv, NEW w \in Worker, NEW t \in Tx, Claim(w, t)
    PROVE  QueueInv'
<1> USE DEF QueueInv
<1> DEFINE next == [pc |-> "edge", tx |-> t, seen |-> {}, failed |-> FALSE,
                    target |-> transactions[t].created \/ t \in WithCalldata]
<1>1. /\ worker' = [worker EXCEPT ![w] = next]
      /\ jobs' = [jobs EXCEPT ![t] = Claimed(jobs[t])]
      /\ UNCHANGED <<transactions, blocks, tokenTransfers, graphVars, faultVars>>
      /\ Claimable(jobs[t])
  BY DEF Claim
<1>2. jobs \in [Tx -> Job]
  BY DEF QueueTypeOK, StoreTypeOK
<1>3. Claimed(jobs[t]) \in Job /\ Claimed(jobs[t]).status = "processing"
  <2> HIDE DEF QueueInv
  <2> QED
    BY <1>2, JobSteps
<1>4. jobs' \in [Tx -> Job] /\ jobs'[t] = Claimed(jobs[t])
      /\ \A u \in Tx \ {t} : jobs'[u] = jobs[u]
  BY <1>1, <1>2, <1>3
<1>5. StoreInv' /\ StoreTypeOK' /\ \A u \in Tx : Stored(u)' <=> Stored(u)
  BY <1>1, <1>4, StoreUnchanged
<1>6. Stored(t)
  BY <1>1 DEF Claimable, JobsOfStored
<1>7. next \in Busy /\ next.pc = "edge" /\ next.tx = t
  BY DEF Busy, Phase, QueueTypeOK, StoreTypeOK, Row
<1> HIDE DEF next
<1>8. QueueTypeOK'
  BY <1>1, <1>5, <1>7 DEF QueueTypeOK, graphVars, faultVars
<1>9. NothingMissedWithGraph' /\ RetryLimit' /\ JobsOfStored'
  BY <1>1, <1>3, <1>4, <1>5, <1>6, ChainAssumption
     DEF NothingMissedWithGraph, NothingMissed, RetryLimit, JobsOfStored, Open, graphVars, ChainAssumption
<1>10. EdgeBeforeMark'
  BY <1>1, <1>5, <1>6, <1>7 DEF EdgeBeforeMark, QueueTypeOK, Busy, graphVars
<1>11. GraphConfigured'
  BY <1>1 DEF GraphConfigured, faultVars
<1> QED
  BY <1>11, <1>5, <1>8, <1>9, <1>10

\* Deadlines and pruning change job rows only; what they leave open or remember as
\* settled is what NothingMissed needs.
LEMMA HousekeepingStep ==
    ASSUME QueueInv,
           \/ \E t \in Tx : TimePasses(t)
           \/ \E old \in SUBSET Tx : PruneEnrichmentJobs(old)
    PROVE  QueueInv'
<1> USE DEF QueueInv
<1>1. jobs \in [Tx -> Job]
  BY DEF QueueTypeOK, StoreTypeOK
<1>2. UNCHANGED <<transactions, blocks, tokenTransfers, worker, graphVars, faultVars>>
  BY DEF TimePasses, PruneEnrichmentJobs
<1>3. /\ jobs' \in [Tx -> Job]
      /\ \A t \in Tx : \/ /\ jobs'[t].status = jobs[t].status
                          /\ jobs'[t].attempts = jobs[t].attempts
                       \/ jobs[t].status = "done" /\ jobs'[t].status = "none"
  <2>1. ASSUME NEW t \in Tx, TimePasses(t) PROVE <1>3!1 /\ <1>3!2
    <3>1. ASSUME NEW job \in Job
          PROVE  /\ [job EXCEPT !.due = TRUE] \in Job
                 /\ [job EXCEPT !.due = TRUE].status = job.status
                 /\ [job EXCEPT !.due = TRUE].attempts = job.attempts
      BY DEF Job
    <3>2. jobs' = [jobs EXCEPT ![t] = [jobs[t] EXCEPT !.due = TRUE]]
      BY <1>1, <2>1 DEF TimePasses
    <3> QED
      BY <1>1, <3>1, <3>2
  <2>2. ASSUME NEW old \in SUBSET Tx, PruneEnrichmentJobs(old) PROVE <1>3!1 /\ <1>3!2
    BY <1>1, <2>2 DEF PruneEnrichmentJobs, NoJob, Job, JobStatus
  <2> QED
    BY <2>1, <2>2
<1>4. StoreInv' /\ StoreTypeOK' /\ \A t \in Tx : Stored(t)' <=> Stored(t)
  BY <1>2, <1>3, StoreUnchanged
<1>5. QueueTypeOK'
  BY <1>2, <1>4 DEF QueueTypeOK, graphVars, faultVars
<1>6. NothingMissedWithGraph' /\ RetryLimit' /\ JobsOfStored'
  BY <1>2, <1>3, <1>4, ChainAssumption
     DEF NothingMissedWithGraph, NothingMissed, RetryLimit, JobsOfStored, Open, graphVars, ChainAssumption
<1>7. EdgeBeforeMark'
  BY <1>2, <1>4 DEF EdgeBeforeMark, QueueTypeOK, Busy, graphVars
<1>8. GraphConfigured'
  BY <1>2 DEF GraphConfigured, faultVars
<1> QED
  BY <1>8, <1>4, <1>5, <1>6, <1>7

\* A restart forgets what the workers held; an outage changes no data.
LEMMA FaultStep ==
    ASSUME QueueInv, Restart \/ GraphDown \/ GraphRecovers
    PROVE  QueueInv'
<1> USE DEF QueueInv
<1>1. UNCHANGED storeVars /\ UNCHANGED graphVars
  BY DEF Restart, GraphDown, GraphRecovers
<1>2. StoreInv' /\ StoreTypeOK' /\ \A t \in Tx : Stored(t)' <=> Stored(t)
  BY <1>1, StoreUnchanged DEF storeVars, QueueTypeOK, StoreTypeOK
<1>3. worker' = worker \/ worker' = [w \in Worker |-> Idle]
  BY DEF Restart, GraphDown, GraphRecovers
<1>4. FaultsOK'
  <2>1. MaxOutages \in Nat /\ MaxRestarts \in Nat
    BY QueueAssumption DEF QueueAssumption
  <2>2. FaultsOK
    BY DEF QueueTypeOK, FaultsOK
  <2>3. CASE Restart
    BY <2>1, <2>2, <2>3 DEF Restart, FaultsOK
  <2>4. CASE GraphDown
    <3>1. hasGraph' = hasGraph /\ graphUp' = FALSE /\ outages < MaxOutages /\ outages' = outages + 1
          /\ errors' = errors /\ restarts' = restarts
      BY <2>4 DEF GraphDown
    <3>2. graphUp' \in BOOLEAN
      BY <3>1
    <3>3. outages' \in 0 .. MaxOutages
      BY <2>1, <2>2, <3>1 DEF FaultsOK
    <3> QED
      BY <2>2, <3>1, <3>2, <3>3 DEF FaultsOK
  <2>5. CASE GraphRecovers
    BY <2>2, <2>5 DEF GraphRecovers, FaultsOK
  <2> QED
    BY <2>3, <2>4, <2>5
<1>5. QueueTypeOK'
  BY <1>1, <1>2, <1>3, <1>4 DEF QueueTypeOK, FaultsOK, graphVars
<1>6. NothingMissedWithGraph' /\ RetryLimit' /\ JobsOfStored'
  BY <1>1, <1>2, ChainAssumption
     DEF NothingMissedWithGraph, NothingMissed, RetryLimit, JobsOfStored, storeVars, graphVars, ChainAssumption
<1>7. EdgeBeforeMark'
  BY <1>1, <1>2, <1>3 DEF EdgeBeforeMark, QueueTypeOK, Busy, graphVars
<1>8. GraphConfigured'
  <2>1. CASE Restart
    BY <2>1 DEF Restart, GraphConfigured
  <2>2. CASE hasGraph' = hasGraph
    BY <2>2 DEF GraphConfigured
  <2> QED
    BY <2>1, <2>2 DEF GraphDown, GraphRecovers
<1> QED
  BY <1>8, <1>2, <1>5, <1>6, <1>7

LEMMA QueueInvStep == QueueInv /\ [QueueNext]_queueVars => QueueInv'
<1> SUFFICES ASSUME QueueInv, [QueueNext]_queueVars PROVE QueueInv'
  OBVIOUS
<1>1. CASE UNCHANGED queueVars
  <2>1. UNCHANGED storeVars /\ worker' = worker /\ UNCHANGED graphVars /\ UNCHANGED faultVars
    BY <1>1 DEF queueVars
  <2>2. StoreInv' /\ StoreTypeOK' /\ \A t \in Tx : Stored(t)' <=> Stored(t)
    BY <2>1, StoreUnchanged DEF storeVars, QueueTypeOK, StoreTypeOK, QueueInv
  <2> QED
    BY <2>1, <2>2, ChainAssumption
       DEF QueueInv, QueueTypeOK, NothingMissedWithGraph, NothingMissed, RetryLimit, JobsOfStored,
           EdgeBeforeMark, GraphConfigured,
           Busy, storeVars, graphVars, faultVars, ChainAssumption
<1>2. ASSUME NEW w \in Worker, Step(w) PROVE QueueInv'
  BY <1>2, CallStep, MarkStep DEF Step, Call
<1> QED
  BY <1>1, <1>2, IngestStep, ClaimStep, HousekeepingStep, FaultStep DEF QueueNext

LEMMA QueueInvariant == QueueSpec => []QueueInv
BY QueueInvInit, QueueInvStep, PTL DEF QueueSpec

\* Type correctness of the whole queue.
THEOREM QueueTypeCorrect == QueueSpec => []QueueTypeOK
<1>1. QueueInv => QueueTypeOK
  BY DEF QueueInv
<1> QED
  BY <1>1, QueueInvariant, PTL

\* The outbox of a process that requires Neo4j loses no value transfer, whatever number of
\* workers compete for a job and however often calls fail, leases expire and the process
\* restarts.
THEOREM QueueMissesNothing ==
    ASSUME RequireNeo4j
    PROVE  QueueSpec => []NothingMissed
<1>1. QueueInv => NothingMissed
  BY DEF QueueInv, NothingMissedWithGraph
<1> QED
  BY <1>1, QueueInvariant, PTL

\* The retry limit holds for every limit: no row waits for a retry beyond it, and none is
\* parked before it.
THEOREM QueueRetryLimit == QueueSpec => []RetryLimit
<1>1. QueueInv => RetryLimit
  BY DEF QueueInv
<1> QED
  BY <1>1, QueueInvariant, PTL
-----------------------------------------------------------------------------
(***************************************************************************)
(* The refinement: saves map to Commit, the write of a :SENT edge to       *)
(* Deliver, a completion to Settle, everything else to a stutter.          *)
(***************************************************************************)
storedItems == {t \in WithRecipient : Stored(t)}
owedItems == {t \in WithRecipient : Open(jobs[t])}
deliveredItems == sent \cap WithRecipient

OutboxStep ==
    \/ \E new, again \in SUBSET WithRecipient :
         /\ new \cap storedItems = {}
         /\ again \subseteq storedItems
         /\ storedItems' = storedItems \cup new
         /\ owedItems' = owedItems \cup new \cup again
         /\ deliveredItems' = deliveredItems
    \/ \E i \in WithRecipient :
         \/ /\ i \in storedItems
            /\ deliveredItems' = deliveredItems \cup {i}
            /\ storedItems' = storedItems /\ owedItems' = owedItems
         \/ /\ i \in owedItems \cap deliveredItems
            /\ owedItems' = owedItems \ {i}
            /\ storedItems' = storedItems /\ deliveredItems' = deliveredItems
    \/ storedItems' = storedItems /\ owedItems' = owedItems /\ deliveredItems' = deliveredItems

LEMMA OutboxStepIsOutbox == OutboxStep => [Graph!Next]_(Graph!outboxVars)
BY DEF OutboxStep, storedItems, owedItems, deliveredItems,
       Graph!Next, Graph!outboxVars, Graph!Commit, Graph!Deliver, Graph!Settle

\* Two states with the same rows stored, jobs open and edges present are the same to the
\* outbox.
LEMMA Stutter ==
    ASSUME \A t \in WithRecipient : (Stored(t)' <=> Stored(t)) /\ (Open(jobs[t])' <=> Open(jobs[t])),
           sent' = sent
    PROVE  OutboxStep
BY DEF OutboxStep, storedItems, owedItems, deliveredItems

LEMMA IngestIsCommit ==
    ASSUME QueueInv, Ingest
    PROVE  OutboxStep
<1> DEFINE new == storedItems' \ storedItems
<1> DEFINE again == owedItems' \ (owedItems \cup new)
<1>1. \A t \in Tx :
        /\ Stored(t) => Stored(t)'
        /\ jobs'[t] \in {jobs[t], FreshJob}
        /\ jobs'[t] # jobs[t] => Stored(t)'
        /\ ~Stored(t) /\ Stored(t)' /\ t \in WithRecipient => jobs'[t] = FreshJob
  BY IngestKeepsQueue DEF Ingest, QueueInv, Revealing
<1>2. Open(FreshJob) /\ WithRecipient \subseteq Tx
  BY ChainAssumption DEF ChainAssumption, Open, FreshJob
<1>3. storedItems \subseteq storedItems' /\ owedItems \subseteq owedItems'
  BY <1>1, <1>2 DEF storedItems, owedItems
<1>4. new \subseteq owedItems' /\ again \subseteq storedItems
  BY <1>1, <1>2 DEF storedItems, owedItems
<1>5. deliveredItems' = deliveredItems
  BY DEF Ingest, graphVars, deliveredItems
<1>6. new \in SUBSET WithRecipient /\ again \in SUBSET WithRecipient
  BY DEF storedItems, owedItems
<1>7. /\ storedItems' = storedItems \cup new
      /\ owedItems' = owedItems \cup new \cup again
      /\ new \cap storedItems = {}
  BY <1>3, <1>4
<1> QED
  BY <1>4, <1>5, <1>6, <1>7 DEF OutboxStep

LEMMA CallIsDeliver ==
    ASSUME QueueInv, NEW w \in Worker, Call(w)
    PROVE  OutboxStep
<1>1. CallEffect(w)
  BY CallDoes DEF QueueInv
<1>2. \A t \in WithRecipient : (Stored(t)' <=> Stored(t)) /\ (Open(jobs[t])' <=> Open(jobs[t]))
  BY <1>1 DEF CallEffect, storeVars, Stored, Open
<1>3. CASE sent' = sent
  BY <1>2, <1>3, Stutter
<1>4. CASE sent' = sent \cup {worker[w].tx}
  <2>1. Stored(worker[w].tx)
    BY <1>1 DEF CallEffect, QueueInv, EdgeBeforeMark
  <2>2. storedItems' = storedItems /\ owedItems' = owedItems
    BY <1>2 DEF storedItems, owedItems
  <2>3. CASE worker[w].tx \in WithRecipient
    BY <1>4, <2>1, <2>2, <2>3 DEF OutboxStep, deliveredItems, storedItems
  <2>4. CASE worker[w].tx \notin WithRecipient
    BY <1>4, <2>2, <2>4 DEF OutboxStep, deliveredItems
  <2> QED
    BY <2>3, <2>4
<1> QED
  BY <1>1, <1>3, <1>4 DEF CallEffect

LEMMA MarkIsSettle ==
    ASSUME QueueInv, RequireNeo4j, NEW w \in Worker, Mark(w)
    PROVE  OutboxStep
<1> DEFINE t == worker[w].tx
<1>1. worker[w] \in Busy /\ worker[w] # Idle /\ worker[w].pc = "mark" /\ t \in Tx
  BY BusyWorker DEF Mark, Phase, At, Busy, QueueInv
<1>2. /\ UNCHANGED <<transactions, sent>>
      /\ \/ jobs' = [jobs EXCEPT ![t] = IF worker[w].failed THEN MarkedFailed(@) ELSE MarkedDone(@)]
         \/ jobs' = jobs
  BY DEF Mark, graphVars
<1>3. /\ jobs \in [Tx -> Job]
      /\ worker[w].failed \/ (RequireNeo4j /\ t \in WithRecipient => t \in sent)
  BY <1>1 DEF QueueInv, QueueTypeOK, StoreTypeOK, EdgeBeforeMark
<1>4. WithRecipient \subseteq Tx
  BY ChainAssumption DEF ChainAssumption
<1>5. \A u \in WithRecipient : Stored(u)' <=> Stored(u)
  BY <1>2 DEF Stored
<1>6. CASE jobs' = jobs
  BY <1>2, <1>5, <1>6, Stutter DEF Open
<1> HIDE DEF t
<1>7. CASE worker[w].failed /\ jobs' = [jobs EXCEPT ![t] = MarkedFailed(jobs[t])]
  <2>1. Open(jobs'[t]) <=> Open(jobs[t])
    BY <1>1, <1>3, <1>7, JobSteps
  <2>2. \A u \in WithRecipient : Open(jobs'[u]) <=> Open(jobs[u])
    BY <1>3, <1>4, <1>7, <2>1
  <2> QED
    BY <1>2, <1>5, <2>2, Stutter
<1>8. CASE ~worker[w].failed /\ jobs' = [jobs EXCEPT ![t] = MarkedDone(jobs[t])]
  <2>1. \A u \in Tx \ {t} : jobs'[u] = jobs[u]
    BY <1>3, <1>8
  <2>2. jobs'[t] = MarkedDone(jobs[t]) /\ jobs[t] \in Job
    BY <1>1, <1>3, <1>8
  <2>3. CASE jobs[t].status = "processing" /\ t \in WithRecipient
    <3>1. Open(jobs[t]) /\ ~Open(jobs'[t])
      BY <2>2, <2>3, JobSteps DEF Open
    <3>2. t \in owedItems \cap deliveredItems
      BY <1>3, <1>8, <2>3, <3>1 DEF owedItems, deliveredItems
    <3>3. owedItems' = owedItems \ {t}
      BY <1>4, <2>1, <3>1 DEF owedItems
    <3>4. storedItems' = storedItems /\ deliveredItems' = deliveredItems
      BY <1>2, <1>5 DEF storedItems, deliveredItems
    <3> QED
      BY <2>3, <3>2, <3>3, <3>4 DEF OutboxStep
  <2>4. CASE ~(jobs[t].status = "processing" /\ t \in WithRecipient)
    <3>1. \A u \in WithRecipient : Open(jobs'[u]) <=> Open(jobs[u])
      BY <1>4, <2>1, <2>2, <2>4, JobSteps
    <3> QED
      BY <1>2, <1>5, <3>1, Stutter
  <2> QED
    BY <2>3, <2>4
<1> QED
  BY <1>2, <1>3, <1>6, <1>7, <1>8 DEF t

LEMMA OtherIsStutter ==
    ASSUME QueueInv,
           \/ \E w \in Worker, t \in Tx : Claim(w, t)
           \/ \E t \in Tx : TimePasses(t)
           \/ \E old \in SUBSET Tx : PruneEnrichmentJobs(old)
           \/ Restart \/ GraphDown \/ GraphRecovers
           \/ UNCHANGED queueVars
    PROVE  OutboxStep
<1>1. UNCHANGED transactions /\ sent' = sent
  BY DEF Claim, TimePasses, PruneEnrichmentJobs, Restart, GraphDown, GraphRecovers,
         queueVars, storeVars, graphVars
<1>2. \A u \in Tx : Stored(u)' <=> Stored(u)
  BY <1>1 DEF Stored
<1>3. jobs \in [Tx -> Job] /\ WithRecipient \subseteq Tx
  BY ChainAssumption DEF QueueInv, QueueTypeOK, StoreTypeOK, ChainAssumption
<1>4. \A u \in Tx : Open(jobs'[u]) <=> Open(jobs[u])
  <2>1. ASSUME NEW w \in Worker, NEW t \in Tx, Claim(w, t)
        PROVE  \A u \in Tx : Open(jobs'[u]) <=> Open(jobs[u])
    <3>1. jobs' = [jobs EXCEPT ![t] = Claimed(jobs[t])] /\ Claimable(jobs[t])
      BY <2>1 DEF Claim
    <3>2. Open(Claimed(jobs[t])) /\ Open(jobs[t])
      BY <1>3, <3>1, JobSteps DEF Claimable, Open
    <3> QED
      BY <1>3, <3>1, <3>2
  <2>2. ASSUME NEW t \in Tx, TimePasses(t)
        PROVE  \A u \in Tx : Open(jobs'[u]) <=> Open(jobs[u])
    <3>1. jobs' = [jobs EXCEPT ![t] = [jobs[t] EXCEPT !.due = TRUE]]
      BY <1>3, <2>2 DEF TimePasses
    <3>2. ASSUME NEW job \in Job PROVE [job EXCEPT !.due = TRUE].status = job.status
      BY DEF Job
    <3>3. [jobs[t] EXCEPT !.due = TRUE].status = jobs[t].status
      BY <1>3, <3>2
    <3> QED
      BY <1>3, <3>1, <3>3 DEF Open
  <2>3. ASSUME NEW old \in SUBSET Tx, PruneEnrichmentJobs(old)
        PROVE  \A u \in Tx : Open(jobs'[u]) <=> Open(jobs[u])
    BY <2>3 DEF PruneEnrichmentJobs, NoJob, Open
  <2>4. CASE Restart \/ GraphDown \/ GraphRecovers \/ UNCHANGED queueVars
    BY <2>4 DEF Restart, GraphDown, GraphRecovers, queueVars, storeVars
  <2> QED
    BY <2>1, <2>2, <2>3, <2>4
<1> QED
  BY <1>1, <1>2, <1>3, <1>4, Stutter

\* With a required Neo4j, the tables, workers and graph implement the outbox: every step of the
\* detailed specification is a commit, a delivery, a settlement or none of them.
THEOREM QueueImplementsOutbox ==
    ASSUME RequireNeo4j
    PROVE  QueueSpec => ImplementsOutbox
<1>1. QueueInit => Graph!Init
  <2> SUFFICES ASSUME QueueInit PROVE Graph!Init
    OBVIOUS
  <2>1. \A t \in Tx : ~Stored(t) /\ ~Open(jobs[t])
    BY DEF QueueInit, StoreInit, NoRow, NoJob, Stored, Open
  <2>2. sent = {} /\ WithRecipient \subseteq Tx
    BY ChainAssumption DEF QueueInit, ChainAssumption
  <2> QED
    BY <2>1, <2>2 DEF Graph!Init
<1>2. QueueInv /\ [QueueNext]_queueVars => [Graph!Next]_(Graph!outboxVars)
  <2> SUFFICES ASSUME QueueInv, [QueueNext]_queueVars PROVE OutboxStep
    BY OutboxStepIsOutbox
  <2>1. CASE Ingest
    BY <2>1, IngestIsCommit
  <2>2. ASSUME NEW w \in Worker, Step(w) PROVE OutboxStep
    BY <2>2, CallIsDeliver, MarkIsSettle DEF Step, Call
  <2> QED
    BY <2>1, <2>2, OtherIsStutter DEF QueueNext
<1> QED
  BY <1>1, <1>2, QueueInvariant, PTL DEF QueueSpec, ImplementsOutbox, Graph!Spec
-----------------------------------------------------------------------------
(***************************************************************************)
(* While nothing fails, a stored transfer without an edge is owed one.     *)
(* UnprojectedTransferIsOwed lets an open job pay the debt; that is not    *)
(* inductive, for a worker may complete a job that another one still       *)
(* processes.  What is: unless the job waits in the queue, some worker     *)
(* will write the edge, and no worker has an error to report.              *)
(***************************************************************************)
WillWrite(w, x) ==
    /\ worker[w] # Idle /\ worker[w].tx = EmitterOf[x]
    /\ \/ worker[w].pc \in {"edge", "read"}
       \/ worker[w].pc = "transfers" /\ x \in worker[w].seen

Calm ==
    /\ hasGraph = TRUE /\ graphUp = TRUE
    /\ \A w \in Worker : worker[w] # Idle => worker[w].failed = FALSE

Unprojected(x) == tokenTransfers[x] # Null /\ x \notin transferred

Waits(job) == job.status \in {"pending", "failed"}

OwedWhileCalm ==
    Undisturbed =>
        /\ Calm
        /\ \A x \in Flows(Transfer) :
              Unprojected(x) => Waits(jobs[EmitterOf[x]]) \/ \E w \in Worker : WillWrite(w, x)

LEMMA OwedInit == QueueInit => OwedWhileCalm
<1> SUFFICES ASSUME QueueInit PROVE OwedWhileCalm
  OBVIOUS
<1>1. Calm
  BY DEF QueueInit, Calm
<1>2. \A x \in Flows(Transfer) : ~Unprojected(x)
  BY DEF QueueInit, StoreInit, Unprojected, Flows
<1> QED
  BY <1>1, <1>2 DEF OwedWhileCalm

\* The calls of a worker when none of them fails.
LEMMA CalmCall ==
    ASSUME QueueInv, Undisturbed, Calm, Undisturbed', NEW w \in Worker, Call(w)
    PROVE  /\ Calm' /\ UNCHANGED storeVars /\ transferred \subseteq transferred'
           /\ \A v \in Worker \ {w} : worker'[v] = worker[v]
           /\ \A x \in Flows(Transfer) :
                 Unprojected(x) /\ WillWrite(w, x) => WillWrite(w, x)' \/ x \in transferred'
<1>0. QueueTypeOK /\ errors \in Nat
  BY QueueAssumption DEF QueueInv, QueueTypeOK
<1>1. ~Error
  BY <1>0 DEF Undisturbed, Error
<1>2. ASSUME NEW phase \in Phase, GoTo(w, phase, FALSE), worker[w] \in Busy, worker[w] # Idle,
             UNCHANGED faultVars
      PROVE  /\ Calm'
             /\ worker'[w].pc = phase /\ worker'[w].tx = worker[w].tx
             /\ worker'[w].seen = worker[w].seen /\ worker'[w] # Idle
             /\ \A v \in Worker \ {w} : worker'[v] = worker[v]
  <2>1. /\ worker'[w] \in Busy /\ worker'[w].pc = phase /\ worker'[w].tx = worker[w].tx
        /\ worker'[w].seen = worker[w].seen /\ (worker'[w].failed <=> worker[w].failed)
        /\ \A v \in Worker \ {w} : worker'[v] = worker[v]
    BY <1>0, <1>2, GoToEffect
  <2>2. worker'[w] # Idle
    BY <2>1 DEF Phase, Idle
  <2>3. worker'[w].failed = FALSE
    BY <1>2, <2>1 DEF Calm, Busy
  <2> QED
    BY <1>2, <2>1, <2>2, <2>3 DEF Calm, faultVars
<1>3. CASE SaveEdge(w)
  <2>1. worker[w] \in Busy /\ worker[w] # Idle
    BY <1>0, <1>3, BusyWorker DEF SaveEdge, Phase
  <2>2. GoTo(w, "read", FALSE) /\ UNCHANGED faultVars /\ UNCHANGED storeVars
        /\ transferred' = transferred
    BY <1>1, <1>3 DEF SaveEdge, GraphWrite, Calm
  <2> QED
    BY <1>2, <2>1, <2>2 DEF WillWrite, Phase
<1>4. CASE ReadTransfers(w)
  <2>1. worker[w] \in Busy /\ worker[w] # Idle
    BY <1>0, <1>4, BusyWorker DEF ReadTransfers, Phase
  <2>2. /\ worker' = [worker EXCEPT ![w] = [Advanced(worker[w], "transfers", FALSE)
                                              EXCEPT !.seen = StoredTransfers(worker[w].tx)]]
        /\ UNCHANGED faultVars /\ UNCHANGED storeVars /\ transferred' = transferred
    BY <1>0, <1>1, <1>4 DEF ReadTransfers, graphVars, QueueTypeOK
  <2>3. /\ Advanced(worker[w], "transfers", FALSE) \in Busy
        /\ Advanced(worker[w], "transfers", FALSE).pc = "transfers"
        /\ Advanced(worker[w], "transfers", FALSE).tx = worker[w].tx
        /\ Advanced(worker[w], "transfers", FALSE).failed = FALSE
    <3>1. worker[w].failed = FALSE
      BY <2>1 DEF Calm
    <3> DEFINE next == Advanced(worker[w], "transfers", FALSE)
    <3>2. /\ next \in Busy /\ next.pc = "transfers" /\ next.tx = worker[w].tx
          /\ next.failed <=> worker[w].failed
      BY <2>1, AdvancedColumns DEF Phase
    <3> HIDE DEF next
    <3>3. next.failed = FALSE
      BY <3>1, <3>2 DEF Busy
    <3> QED
      BY <3>2, <3>3 DEF next
  <2>4. ASSUME NEW r \in Busy, NEW S
        PROVE  /\ [r EXCEPT !.seen = S].pc = r.pc /\ [r EXCEPT !.seen = S].tx = r.tx
               /\ [r EXCEPT !.seen = S].failed = r.failed /\ [r EXCEPT !.seen = S].seen = S
    BY DEF Busy
  <2>5. /\ worker'[w].pc = "transfers" /\ worker'[w].tx = worker[w].tx
        /\ worker'[w].failed = FALSE /\ worker'[w].seen = StoredTransfers(worker[w].tx)
    BY <1>0, <2>2, <2>3, <2>4 DEF QueueTypeOK
  <2>6. \A v \in Worker \ {w} : worker'[v] = worker[v]
    BY <1>0, <2>2 DEF QueueTypeOK
  <2>7. worker'[w] # Idle
    BY <2>5 DEF Idle
  <2>8. Calm'
    BY <2>2, <2>5, <2>6 DEF Calm, faultVars
  <2>9. ASSUME NEW x \in Flows(Transfer), Unprojected(x), WillWrite(w, x) PROVE WillWrite(w, x)'
    <3>1. x \in StoredTransfers(worker[w].tx)
      BY <2>9 DEF WillWrite, Unprojected, StoredTransfers, TransfersOfTx, Flows
    <3> QED
      BY <2>5, <2>7, <2>9, <3>1 DEF WillWrite
  <2> QED
    BY <2>2, <2>6, <2>8, <2>9
<1>5. CASE SaveTokenTransfers(w)
  <2>1. worker[w] \in Busy /\ worker[w] # Idle /\ worker[w].pc = "transfers"
    BY <1>0, <1>5, BusyWorker DEF SaveTokenTransfers, Phase, At
  <2>2. GoTo(w, "analyse", FALSE) /\ UNCHANGED faultVars /\ UNCHANGED storeVars
        /\ transferred' = transferred \cup Flows(worker[w].seen)
    BY <1>1, <1>5 DEF SaveTokenTransfers, GraphWrite, Calm
  <2>3. \A x \in Flows(Transfer) : WillWrite(w, x) => x \in transferred'
    BY <2>1, <2>2 DEF WillWrite, Flows
  <2> QED
    BY <1>2, <2>1, <2>2, <2>3 DEF Phase
<1>6. CASE AnalyseContract(w)
  <2>1. worker[w] \in Busy /\ worker[w] # Idle /\ worker[w].pc = "analyse"
    BY <1>0, <1>6, BusyWorker DEF AnalyseContract, Phase, At
  <2>2. GoTo(w, "mark", FALSE) /\ UNCHANGED faultVars /\ UNCHANGED storeVars
        /\ transferred' = transferred
    BY <1>1, <1>6 DEF AnalyseContract, Calm, graphVars
  <2> QED
    BY <1>2, <2>1, <2>2 DEF WillWrite, Phase
<1> QED
  BY <1>3, <1>4, <1>5, <1>6 DEF Call

\* A completed job was not the last hope of a transfer: the worker that completes it has
\* written what it read, so if one is left unprojected another worker is on it.
LEMMA CalmMark ==
    ASSUME QueueInv, OwedWhileCalm, Undisturbed, Undisturbed', NEW w \in Worker, Mark(w)
    PROVE  OwedWhileCalm'
<1> DEFINE t == worker[w].tx
<1>0. /\ QueueTypeOK /\ StoreTypeOK /\ Calm /\ errors \in Nat
      /\ jobs \in [Tx -> Job] /\ worker \in [Worker -> Busy \cup {Idle}]
  BY QueueAssumption DEF QueueInv, QueueTypeOK, StoreTypeOK, OwedWhileCalm
<1>1. ~Error
  BY <1>0 DEF Undisturbed, Error
<1>2. worker[w] \in Busy /\ worker[w] # Idle /\ worker[w].pc = "mark"
  BY <1>0, BusyWorker DEF Mark, Phase, At
<1>3. worker[w].failed = FALSE
  BY <1>0, <1>2 DEF Calm
<1>4. t \in Tx /\ jobs[t] \in Job
  BY <1>0, <1>2 DEF Busy
<1>5. /\ worker' = [worker EXCEPT ![w] = Idle] /\ UNCHANGED faultVars
      /\ jobs' = [jobs EXCEPT ![t] = MarkedDone(jobs[t])]
      /\ UNCHANGED <<transactions, blocks, tokenTransfers, graphVars>>
  BY <1>0, <1>1, <1>3, <1>4 DEF Mark
<1>6. Calm'
  BY <1>0, <1>5 DEF Calm, faultVars
<1>7. \A u \in Tx : Waits(jobs[u]) => Waits(jobs'[u])
  BY <1>0, <1>4, <1>5, JobSteps DEF Waits
<1>8. \A v \in Worker : v # w => worker'[v] = worker[v]
  BY <1>0, <1>5
<1>9. ASSUME NEW x \in Flows(Transfer), Unprojected(x)'
      PROVE  Waits(jobs'[EmitterOf[x]]) \/ \E v \in Worker : WillWrite(v, x)'
  <2>1. EmitterOf[x] \in Tx /\ Unprojected(x)
    BY <1>5, <1>9, ChainAssumption DEF Flows, Unprojected, graphVars
  <2>2. CASE Waits(jobs[EmitterOf[x]])
    BY <1>7, <2>1, <2>2
  <2>3. ASSUME NEW v \in Worker, WillWrite(v, x) PROVE WillWrite(v, x)'
    <3>1. v # w
      BY <1>2, <2>3 DEF WillWrite
    <3> QED
      BY <1>8, <2>3, <3>1 DEF WillWrite
  <2> QED
    BY <2>1, <2>2, <2>3 DEF OwedWhileCalm
<1> QED
  BY <1>6, <1>9 DEF OwedWhileCalm

LEMMA CalmClaim ==
    ASSUME QueueInv, OwedWhileCalm, Undisturbed, Undisturbed',
           NEW w \in Worker, NEW t \in Tx, Claim(w, t)
    PROVE  OwedWhileCalm'
<1> DEFINE next == [pc |-> "edge", tx |-> t, seen |-> {}, failed |-> FALSE,
                    target |-> transactions[t].created \/ t \in WithCalldata]
<1>0. /\ Calm /\ jobs \in [Tx -> Job] /\ worker \in [Worker -> Busy \cup {Idle}]
  BY DEF QueueInv, QueueTypeOK, StoreTypeOK, OwedWhileCalm
<1>1. /\ worker' = [worker EXCEPT ![w] = next] /\ worker[w] = Idle
      /\ jobs' = [jobs EXCEPT ![t] = Claimed(jobs[t])]
      /\ UNCHANGED <<transactions, blocks, tokenTransfers, graphVars, faultVars>>
  BY DEF Claim
<1>2. next.pc = "edge" /\ next.tx = t /\ next.failed = FALSE /\ next # Idle
  BY DEF Idle
<1> HIDE DEF next
<1>3. worker'[w] = next /\ \A v \in Worker : v # w => worker'[v] = worker[v]
  BY <1>0, <1>1
<1>4. Calm'
  BY <1>0, <1>1, <1>2, <1>3 DEF Calm, faultVars
<1>5. ASSUME NEW x \in Flows(Transfer), Unprojected(x)'
      PROVE  Waits(jobs'[EmitterOf[x]]) \/ \E v \in Worker : WillWrite(v, x)'
  <2>1. EmitterOf[x] \in Tx /\ Unprojected(x)
    BY <1>1, <1>5, ChainAssumption DEF Flows, Unprojected, graphVars
  <2>2. CASE EmitterOf[x] = t
    <3>1. WillWrite(w, x)'
      BY <1>2, <1>3, <2>2 DEF WillWrite
    <3> QED
      BY <3>1
  <2>3. CASE EmitterOf[x] # t /\ Waits(jobs[EmitterOf[x]])
    BY <1>0, <1>1, <2>1, <2>3
  <2>4. ASSUME NEW v \in Worker, WillWrite(v, x) PROVE WillWrite(v, x)'
    <3>1. v # w
      BY <1>1, <2>4 DEF WillWrite
    <3> QED
      BY <1>3, <2>4, <3>1 DEF WillWrite
  <2> QED
    BY <2>1, <2>2, <2>3, <2>4 DEF OwedWhileCalm
<1> QED
  BY <1>4, <1>5 DEF OwedWhileCalm

\* A transfer that a save inserts leaves its job waiting.
LEMMA InsertedIsQueued ==
    ASSUME StoreTypeOK, StoreNext, NEW x \in Transfer,
           tokenTransfers'[x] # Null, tokenTransfers[x] = Null
    PROVE  jobs'[EmitterOf[x]].status = "pending"
<1>0. EmitterOf[x] \in Tx /\ tokenTransfers \in [Transfer -> Height \cup {Null}]
  BY ChainAssumption DEF StoreTypeOK
<1>1. PICK b \in Block, receipts \in BOOLEAN : SaveBlock(b, receipts)
  BY DEF StoreNext, SaveTransaction, MarkDroppedTransactions
<1>2. tokenTransfers'[x] = IF x \in Decoded(b, receipts) /\ RevertedTransfers(b)[x] = Null
                           THEN HeightOf[b] ELSE RevertedTransfers(b)[x]
  BY <1>1 DEF SaveBlock, InsertedTransfers
<1>3. RevertedTransfers(b)[x] = Null
  BY DEF RevertedTransfers
<1>4. x \in Decoded(b, receipts)
  BY <1>2, <1>3
<1> DEFINE emitters == {EmitterOf[y] : y \in Decoded(b, receipts)}
           added == Enqueue(jobs, JobTxs(b, receipts))
<1>5. jobs' = Requeue(added, emitters) /\ EmitterOf[x] \in emitters
  BY <1>1, <1>4 DEF SaveBlock
<1> HIDE DEF emitters, added
<1> QED
  BY <1>0, <1>5 DEF Requeue, FreshJob

LEMMA CalmIngest ==
    ASSUME QueueInv, OwedWhileCalm, Undisturbed, Undisturbed', Ingest
    PROVE  OwedWhileCalm'
<1>0. /\ StoreNext /\ UNCHANGED <<worker, transferred, hasGraph, graphUp>>
      /\ StoreInv /\ StoreTypeOK /\ JobsOfStored
  BY DEF Ingest, graphVars, faultVars, QueueInv, StoreInv
<1>1. Calm'
  BY <1>0 DEF Calm, OwedWhileCalm
<1>2. \A u \in Tx : jobs'[u] \in {jobs[u], FreshJob}
  BY <1>0, IngestKeepsQueue
<1>3. \A u \in Tx : Waits(jobs[u]) => Waits(jobs'[u])
  BY <1>2 DEF Waits, FreshJob
<1>4. ASSUME NEW x \in Flows(Transfer), Unprojected(x)'
      PROVE  Waits(jobs'[EmitterOf[x]]) \/ \E v \in Worker : WillWrite(v, x)'
  <2>0. x \in Transfer /\ EmitterOf[x] \in Tx
    BY ChainAssumption DEF Flows
  <2>1. CASE tokenTransfers[x] = Null
    BY <1>0, <1>4, <2>0, <2>1, InsertedIsQueued DEF Unprojected, Waits
  <2>2. CASE Unprojected(x)
    BY <1>0, <1>3, <2>0, <2>2 DEF OwedWhileCalm, WillWrite
  <2> QED
    BY <1>0, <1>4, <2>1, <2>2 DEF Unprojected
<1> QED
  BY <1>1, <1>4 DEF OwedWhileCalm

\* Deadlines, pruning and steps that change nothing.
LEMMA CalmHousekeeping ==
    ASSUME QueueInv, OwedWhileCalm, Undisturbed, Undisturbed',
           \/ \E t \in Tx : TimePasses(t)
           \/ \E old \in SUBSET Tx : PruneEnrichmentJobs(old)
           \/ UNCHANGED queueVars
    PROVE  OwedWhileCalm'
<1>0. jobs \in [Tx -> Job]
  BY DEF QueueInv, QueueTypeOK, StoreTypeOK
<1>1. UNCHANGED <<tokenTransfers, worker, transferred, hasGraph, graphUp>>
  BY DEF TimePasses, PruneEnrichmentJobs, queueVars, storeVars, graphVars, faultVars
<1>2. ASSUME NEW u \in Tx, Waits(jobs[u]) PROVE Waits(jobs'[u])
  <2>1. ASSUME NEW t \in Tx, TimePasses(t) PROVE jobs'[u].status = jobs[u].status
    BY <1>0, <2>1 DEF TimePasses, Job
  <2>2. ASSUME NEW old \in SUBSET Tx, PruneEnrichmentJobs(old) PROVE jobs'[u] = jobs[u]
    BY <1>0, <1>2, <2>2 DEF PruneEnrichmentJobs, Waits
  <2> QED
    BY <1>2, <2>1, <2>2 DEF Waits, queueVars, storeVars
<1>3. \A x \in Flows(Transfer) : EmitterOf[x] \in Tx
  BY ChainAssumption DEF Flows
<1> QED
  BY <1>1, <1>2, <1>3 DEF OwedWhileCalm, Calm, Unprojected, WillWrite

LEMMA OwedStep == QueueInv /\ OwedWhileCalm /\ [QueueNext]_queueVars => OwedWhileCalm'
<1> SUFFICES ASSUME QueueInv, OwedWhileCalm, [QueueNext]_queueVars, Undisturbed'
             PROVE  OwedWhileCalm'
  BY DEF OwedWhileCalm
<1>0. errors \in Nat /\ outages \in Nat /\ restarts \in Nat
  BY QueueAssumption DEF QueueInv, QueueTypeOK
<1>1. ASSUME NEW w \in Worker, Call(w) PROVE OwedWhileCalm'
  <2>1. Undisturbed
    <3>1. UNCHANGED <<outages, restarts>> /\ errors' \in {errors, errors + 1}
      <4>1. CASE SaveEdge(w)
        BY <4>1 DEF SaveEdge, GraphWrite, Error, faultVars
      <4>2. CASE ReadTransfers(w)
        BY <4>2 DEF ReadTransfers, Error, faultVars
      <4>3. CASE SaveTokenTransfers(w)
        BY <4>3 DEF SaveTokenTransfers, GraphWrite, Error, faultVars
      <4>4. CASE AnalyseContract(w)
        BY <4>4 DEF AnalyseContract, Error, faultVars
      <4> QED
        BY <1>1, <4>1, <4>2, <4>3, <4>4 DEF Call
    <3> QED
      BY <1>0, <3>1 DEF Undisturbed
  <2>2. Calm /\ jobs' = jobs /\ tokenTransfers' = tokenTransfers
    BY <1>1, <2>1, CalmCall DEF OwedWhileCalm, storeVars
  <2>3. /\ Calm' /\ transferred \subseteq transferred'
        /\ \A v \in Worker \ {w} : worker'[v] = worker[v]
        /\ \A x \in Flows(Transfer) :
              Unprojected(x) /\ WillWrite(w, x) => WillWrite(w, x)' \/ x \in transferred'
    BY <1>1, <2>1, <2>2, CalmCall
  <2>4. ASSUME NEW x \in Flows(Transfer), Unprojected(x)'
        PROVE  Waits(jobs'[EmitterOf[x]]) \/ \E v \in Worker : WillWrite(v, x)'
    <3>1. Unprojected(x) /\ x \notin transferred'
      BY <2>2, <2>3, <2>4 DEF Unprojected
    <3>2. ASSUME NEW v \in Worker, WillWrite(v, x) PROVE WillWrite(v, x)'
      <4>1. CASE v = w
        BY <2>3, <3>1, <3>2, <4>1
      <4>2. CASE v # w
        BY <2>3, <3>2, <4>2 DEF WillWrite
      <4> QED
        BY <4>1, <4>2
    <3> QED
      BY <2>1, <2>2, <3>1, <3>2 DEF OwedWhileCalm
  <2> QED
    BY <2>3, <2>4 DEF OwedWhileCalm
<1>2. ASSUME NEW w \in Worker, Mark(w) PROVE OwedWhileCalm'
  <2>1. Undisturbed
    BY <1>0, <1>2 DEF Undisturbed, Mark, Error, faultVars
  <2> QED
    BY <1>2, <2>1, CalmMark
<1>3. ASSUME NEW w \in Worker, NEW t \in Tx, Claim(w, t) PROVE OwedWhileCalm'
  <2>1. Undisturbed
    BY <1>3 DEF Undisturbed, Claim, faultVars
  <2> QED
    BY <1>3, <2>1, CalmClaim
<1>4. CASE Ingest
  <2>1. Undisturbed
    BY <1>4 DEF Undisturbed, Ingest, faultVars
  <2> QED
    BY <1>4, <2>1, CalmIngest
<1>5. CASE \/ \E t \in Tx : TimePasses(t)
           \/ \E old \in SUBSET Tx : PruneEnrichmentJobs(old)
           \/ UNCHANGED queueVars
  <2>1. Undisturbed
    BY <1>5 DEF Undisturbed, TimePasses, PruneEnrichmentJobs, queueVars, faultVars
  <2> QED
    BY <1>5, <2>1, CalmHousekeeping
<1>6. CASE Restart \/ GraphDown
  BY <1>0, <1>6 DEF Undisturbed, Restart, GraphDown
<1>7. CASE GraphRecovers
  <2>1. Undisturbed
    BY <1>7 DEF Undisturbed, GraphRecovers
  <2> QED
    BY <1>7, <2>1 DEF GraphRecovers, OwedWhileCalm, Calm
<1> QED
  BY <1>1, <1>2, <1>3, <1>4, <1>5, <1>6, <1>7 DEF QueueNext, Step, Call

\* For any number of workers, transfers and blocks, reorgs included: while no call fails and
\* the process runs, a stored transfer without its edge has an open job or a worker that
\* will write it.
THEOREM QueueOwesTransfers == QueueSpec => []UnprojectedTransferIsOwed
<1>1. OwedWhileCalm => UnprojectedTransferIsOwed
  BY DEF OwedWhileCalm, UnprojectedTransferIsOwed, Unprojected, WillWrite, Waits, Open
<1> QED
  BY <1>1, QueueInvariant, OwedInit, OwedStep, PTL DEF QueueSpec

\* Nor does a worker, a deadline, pruning or a fault store anything: a transaction becomes
\* known only together with its open job.
THEOREM QueueStoresWithJob == QueueSpec => StoredWithJob
<1> DEFINE A == \A t \in Tx :
                  /\ ~Stored(t) /\ Stored(t)'
                  /\ t \in WithRecipient \/ transactions'[t].created
                  => Open(jobs'[t])
<1>1. ASSUME QueueInv, QueueNext PROVE A
  <2>1. CASE Ingest
    BY <1>1, <2>1, StoredWithJobStep DEF Ingest, Revealing, QueueInv
  <2>2. CASE transactions' = transactions
    BY <2>2 DEF Stored
  <2>3. Ingest \/ transactions' = transactions
    BY <1>1 DEF QueueNext, Step, SaveEdge, ReadTransfers, SaveTokenTransfers, AnalyseContract, Mark,
                Claim, TimePasses, PruneEnrichmentJobs, Restart, GraphDown, GraphRecovers, storeVars
  <2> QED
    BY <2>1, <2>2, <2>3
<1>2. UNCHANGED queueVars => UNCHANGED storeVars
  BY DEF queueVars
<1>3. QueueInv /\ [QueueNext]_queueVars => [A]_storeVars
  BY <1>1, <1>2
<1>4. QueueSpec => [][A]_storeVars
  BY <1>3, QueueInvariant, PTL DEF QueueSpec
<1> QED
  BY <1>4 DEF StoredWithJob
=============================================================================

--------------------------- MODULE EnrichmentJobs ---------------------------
(***************************************************************************)
(* Rows of the enrichment_jobs table and the statements of                 *)
(* store/postgres.go that change one.  The table is the transactional      *)
(* outbox of the listener: a row is written in the transaction that stores *)
(* its Ethereum transaction, and workers lease it until it is done.        *)
(*                                                                         *)
(* The clock is kept as one bit per row: due says that available_at (of a  *)
(* pending row) or the lease (of a processing row) has run out, which is   *)
(* all ClaimEnrichmentJob reads of it.                                     *)
(***************************************************************************)
EXTENDS Naturals

CONSTANTS
    Tx,            \* transaction hashes
    MaxAttempts    \* enrichmentMaxAttempts

ASSUME MaxAttemptsAssumption == MaxAttempts \in Nat \ {0}

JobStatus == {"none", "pending", "processing", "done", "failed"}

\* "none" is the absence of a row.
Job == [status : JobStatus, attempts : Nat, due : BOOLEAN]

NoJob == [status |-> "none", attempts |-> 0, due |-> FALSE]

FreshJob == [status |-> "pending", attempts |-> 0, due |-> TRUE]

\* Work the queue still owes or at least remembers it owes ("failed" is parked).
Open(job) == job.status \in {"pending", "processing", "failed"}

\* INSERT ... ON CONFLICT (tx_hash) DO NOTHING.
Enqueue(jobs, S) ==
    [t \in Tx |-> IF t \in S /\ jobs[t].status = "none" THEN FreshJob ELSE jobs[t]]

\* Mutant of Requeue: a row being processed is left alone.
RequeueFinishedOnly(jobs, S) ==
    [t \in Tx |-> IF t \in S /\ jobs[t].status \in {"done", "failed"} THEN FreshJob ELSE jobs[t]]

\* INSERT ... ON CONFLICT (tx_hash) DO UPDATE ... WHERE status <> 'pending'.
Requeue(jobs, S) ==
    [t \in Tx |-> IF t \in S /\ jobs[t].status # "pending" THEN FreshJob ELSE jobs[t]]

\* Mutant of Claimable: leases never expire.
ClaimablePendingOnly(job) == job.status = "pending" /\ job.due

Claimable(job) == job.status \in {"pending", "processing"} /\ job.due

Claimed(job) == [status |-> "processing", attempts |-> job.attempts + 1, due |-> FALSE]

\* Both completions are guarded by status = 'processing' and by nothing else: the
\* statement does not know which worker's lease it completes.
MarkedDone(job) ==
    IF job.status = "processing" THEN [job EXCEPT !.status = "done", !.due = FALSE]
                                 ELSE job

MarkedFailed(job) ==
    IF job.status = "processing"
    THEN [job EXCEPT !.status = IF job.attempts >= MaxAttempts THEN "failed" ELSE "pending",
                     !.due = FALSE]
    ELSE job
=============================================================================

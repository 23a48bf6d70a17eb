----------------------------- MODULE PendingFeed -----------------------------
(***************************************************************************)
(* Pending transactions from the node to the database: stream and pump of  *)
(* client/eth.go, runPending and ingestWorker of ingestion/engine.go, and  *)
(* SaveTransaction, whose locks compete with those of SaveBlock and of     *)
(* MarkDroppedTransactions; until the process is told to stop.             *)
(*                                                                         *)
(* Transactions are numbered in the order the node announces them.  What   *)
(* the writes store is in ChainStore.                                      *)
(***************************************************************************)
EXTENDS AccountLocks

CONSTANTS
    Tx,             \* transactions, by number
    Address,        \* accounts, numbered in their sorted order
    AccountsOf,     \* transaction -> <<sender, recipient>>, or <<sender>> if it creates a contract
    Invalid,        \* transactions whose sender cannot be recovered
    Worker,         \* ingest workers
    Block,          \* the connection of runBlocks
    Maintenance,    \* the connection of runMaintenance
    BlockPlans,     \* the rows of the blocks that may be saved, as SaveBlock locks them
    InBuffer, OutBuffer, \* capacity of the channels of stream
    JobsBuffer,     \* ingestBuffer
    Limits          \* bounds: how many transactions are announced, blocks saved, rows swept,
                    \* subscriptions dropped and databases hung at most, by scenario

Account(a) == [table |-> "accounts", key |-> a]
TxRow(t) == [table |-> "transactions", key |-> t]
Row == [table : {"accounts"}, key : Address] \cup [table : {"transactions"}, key : Tx]

ASSUME FeedAssumption ==
    /\ Tx \subseteq Nat \ {0} /\ IsFiniteSet(Tx) /\ Invalid \subseteq Tx /\ Address \subseteq Nat
    /\ AccountsOf \in [Tx -> Seq(Address)] /\ \A t \in Tx : Len(AccountsOf[t]) \in 1 .. 2
    /\ BlockPlans \subseteq Seq(Row)
    /\ Session = Worker \cup {Block, Maintenance} /\ Block # Maintenance
    /\ {Block, Maintenance} \cap Worker = {}
    /\ {InBuffer, OutBuffer, JobsBuffer} \subseteq Nat \ {0}
    /\ Limits \subseteq [announced : Nat, blocks : Nat, sweeps : Nat, drops : Nat, hangs : Nat]

VARIABLES
    stream,         \* the goroutine of stream: where it is, its channel in, the item it forwards
    out, jobs,      \* channels
    loop,           \* runPending
    work,           \* worker -> the transaction it handles
    outcome,        \* transaction -> what became of it: gone if it was not heard, dropped, or failed
    cancelled,      \* ctx is done
    hung,           \* the database does not answer any more
    left            \* how much of the limits is left

feedVars == <<stream, out, jobs, loop>>
pendingVars == <<session, feedVars, work, outcome, cancelled, hung, left>>

PendingInit ==
    /\ session = [s \in Session |-> Idle]
    /\ stream = [pc |-> "subscribe", in |-> <<>>, item |-> <<>>]
    /\ out = <<>> /\ jobs = <<>>
    /\ loop = "loop"
    /\ work = [w \in Worker |-> <<>>]
    /\ outcome = [t \in Tx |-> "unseen"]
    /\ cancelled = FALSE /\ hung = FALSE
    /\ left \in Limits

\* What happens at most so often.
Once(what) == left[what] > 0 /\ left' = [left EXCEPT ![what] = @ - 1]

\* Items that go no further.
Becomes(items, what) ==
    outcome' = [t \in Tx |-> IF t \in ToSet(items) THEN what ELSE outcome[t]]
-----------------------------------------------------------------------------
(***************************************************************************)
(* stream and pump.                                                        *)
(***************************************************************************)

Subscribed == stream.pc \in {"pump", "forward"}

\* The node announces the next transaction; without a subscription nobody hears it.  What
\* the client library buffers besides is not modelled.
Announce(t) ==
    /\ outcome[t] = "unseen"
    /\ \A u \in Tx : outcome[u] = "unseen" => t <= u
    /\ ~Subscribed \/ Len(stream.in) < InBuffer
    /\ Once("announced")
    /\ IF Subscribed
       THEN /\ stream' = [stream EXCEPT !.in = Append(@, t)]
            /\ Becomes(<<t>>, "moving")
       ELSE /\ Becomes(<<t>>, "gone")
            /\ UNCHANGED stream
    /\ UNCHANGED <<session, out, jobs, loop, work, cancelled, hung>>

\* A failed attempt changes nothing and is followed by another one.
Subscribe ==
    /\ stream.pc = "subscribe"
    /\ stream' = [pc |-> "pump", in |-> <<>>, item |-> <<>>]
    /\ UNCHANGED <<session, out, jobs, loop, work, outcome, cancelled, hung, left>>

\* pump returns at an error of the subscription; what its channel still held is lost.
Drop ==
    /\ stream.pc = "pump"
    /\ Once("drops")
    /\ stream' = [stream EXCEPT !.pc = "subscribe", !.in = <<>>]
    /\ Becomes(stream.in, "gone")
    /\ UNCHANGED <<session, out, jobs, loop, work, cancelled, hung>>

TakeItem ==
    /\ stream.pc = "pump" /\ stream.in # <<>>
    /\ stream' = [pc |-> "forward", in |-> Tail(stream.in), item |-> <<Head(stream.in)>>]
    /\ UNCHANGED <<session, out, jobs, loop, work, outcome, cancelled, hung, left>>

\* Mutant of Forward: the item is not kept while out is full.
ForwardOrForget ==
    /\ stream.pc = "forward"
    /\ stream' = [stream EXCEPT !.pc = "pump", !.item = <<>>]
    /\ out' = IF Len(out) < OutBuffer THEN out \o stream.item ELSE out
    /\ UNCHANGED <<session, jobs, loop, work, outcome, cancelled, hung, left>>

Forward ==
    /\ stream.pc = "forward"
    /\ Len(out) < OutBuffer
    /\ stream' = [stream EXCEPT !.pc = "pump", !.item = <<>>]
    /\ out' = out \o stream.item
    /\ UNCHANGED <<session, jobs, loop, work, outcome, cancelled, hung, left>>

\* Mutant of StopStream: the item is sent without looking at the context.
StopStreamBetween ==
    /\ cancelled
    /\ stream.pc \in {"subscribe", "pump"}
    /\ stream' = [pc |-> "stopped", in |-> <<>>, item |-> <<>>]
    /\ Becomes(stream.in, "gone")
    /\ UNCHANGED <<session, out, jobs, loop, work, cancelled, hung, left>>

\* The context is looked at wherever the goroutine waits; out is closed.
StopStream ==
    /\ cancelled
    /\ stream.pc # "stopped"
    /\ stream' = [pc |-> "stopped", in |-> <<>>, item |-> <<>>]
    /\ Becomes(stream.item \o stream.in, "gone")
    /\ UNCHANGED <<session, out, jobs, loop, work, cancelled, hung, left>>
-----------------------------------------------------------------------------
(***************************************************************************)
(* runPending and its workers.                                             *)
(***************************************************************************)

\* Mutant of Receive: the loop waits for room.
ReceiveWhenRoom ==
    /\ loop = "loop" /\ out # <<>>
    /\ Len(jobs) < JobsBuffer
    /\ out' = Tail(out)
    /\ jobs' = Append(jobs, Head(out))
    /\ UNCHANGED <<session, stream, loop, work, outcome, cancelled, hung, left>>

\* A full buffer never blocks the loop.
Receive ==
    /\ loop = "loop" /\ out # <<>>
    /\ out' = Tail(out)
    /\ IF Len(jobs) < JobsBuffer
       THEN jobs' = Append(jobs, Head(out)) /\ UNCHANGED outcome
       ELSE Becomes(<<Head(out)>>, "gone") /\ UNCHANGED jobs
    /\ UNCHANGED <<session, stream, loop, work, cancelled, hung, left>>

\* The loop ends at a done context or a closed feed, which there is only after one, and
\* closes jobs.
EndLoop ==
    /\ loop = "loop" /\ cancelled
    /\ loop' = "waiting"
    /\ UNCHANGED <<session, stream, out, jobs, work, outcome, cancelled, hung, left>>

\* What a worker that stopped handles: no transaction has this number.
Stopped == <<0>>

\* workers.Wait
ReturnFromRun ==
    /\ loop = "waiting"
    /\ \A w \in Worker : work[w] = Stopped
    /\ loop' = "returned"
    /\ UNCHANGED <<session, stream, out, jobs, work, outcome, cancelled, hung, left>>

\* The rows of a sequence of accounts.
AccountRows(accounts) == [i \in DOMAIN accounts |-> Account(accounts[i])]

\* Mutant of PendingPlan: accounts in the order of the statement's arguments.
PendingPlanAsGiven(t) == Append(AccountRows(AccountsOf[t]), TxRow(t))

Sorted(S) == CHOOSE s \in SetToSeqs(S) : \A i, j \in DOMAIN s : i < j => s[i] < s[j]

\* upsertAccountsSQL locks in sorted order; the insert waits for another writer of its row.
PendingPlan(t) == Append(AccountRows(Sorted(ToSet(AccountsOf[t]))), TxRow(t))

\* A worker takes a job; toModel may refuse it, and nothing is saved with a done context.
TakeJob(w) ==
    LET t == Head(jobs) IN
    /\ work[w] = <<>> /\ jobs # <<>>
    /\ jobs' = Tail(jobs)
    /\ IF t \in Invalid \/ cancelled
       THEN Becomes(<<t>>, "gone") /\ UNCHANGED <<session, work>>
       ELSE Begin(w, PendingPlan(t)) /\ work' = [work EXCEPT ![w] = <<t>>] /\ UNCHANGED outcome
    /\ UNCHANGED <<stream, out, loop, cancelled, hung, left>>

\* jobs is closed and drained.
StopWorker(w) ==
    /\ work[w] = <<>> /\ jobs = <<>> /\ loop = "waiting"
    /\ work' = [work EXCEPT ![w] = Stopped]
    /\ UNCHANGED <<session, feedVars, outcome, cancelled, hung, left>>
-----------------------------------------------------------------------------
(***************************************************************************)
(* The transactions of all writers.                                        *)
(***************************************************************************)

\* SaveBlock locks the transactions of the block it replaces, the accounts, the created
\* contracts, and its transactions.
BeginBlock(plan) ==
    /\ Once("blocks")
    /\ ~cancelled
    /\ Begin(Block, plan)
    /\ UNCHANGED <<feedVars, work, outcome, cancelled, hung>>

\* MarkDroppedTransactions: one statement that updates old rows as it finds them.
BeginSweep(plan) ==
    /\ Once("sweeps")
    /\ ~cancelled
    /\ Begin(Maintenance, plan)
    /\ UNCHANGED <<feedVars, work, outcome, cancelled, hung>>

\* In any order, as the plan of the statement has it.
Sweeps ==
    LET saved == {t \in Tx : outcome[t] = "saved"} IN
    {[i \in DOMAIN rows |-> TxRow(rows[i])] : rows \in SetToAllKPermutations(saved)}

Ends(s, what) ==
    /\ Release(s)
    /\ IF s \in Worker THEN Becomes(work[s], what) /\ work' = [work EXCEPT ![s] = <<>>]
                       ELSE UNCHANGED <<outcome, work>>

Unchanged == UNCHANGED <<feedVars, cancelled, hung, left>>

Lock(s) == ~hung /\ LockRow(s) /\ UNCHANGED <<work, outcome>> /\ Unchanged

Commit(s) == ~hung /\ Complete(s) /\ Ends(s, "saved") /\ Unchanged

\* MarkDroppedTransactions is not run in withTx.
AbortDeadlocked(s) ==
    /\ ~hung /\ Deadlocked(s)
    /\ IF GivesUp(s) \/ s = Maintenance THEN Ends(s, "gone")
                                        ELSE RetryLater(s) /\ UNCHANGED <<work, outcome>>
    /\ Unchanged

RunAgain(s) == Retry(s) /\ UNCHANGED <<work, outcome>> /\ Unchanged

\* A done context ends every statement, wait and pause.
Cancel(s) == cancelled /\ session[s] # Idle /\ Ends(s, "gone") /\ Unchanged

RunSession(s) == Lock(s) \/ Commit(s) \/ AbortDeadlocked(s) \/ RunAgain(s) \/ Cancel(s)
-----------------------------------------------------------------------------
\* For good: a shorter pause is a slow statement.
Hang ==
    /\ Once("hangs")
    /\ hung' = TRUE
    /\ UNCHANGED <<session, feedVars, work, outcome, cancelled>>

\* SIGTERM
Shutdown ==
    /\ ~cancelled /\ cancelled' = TRUE
    /\ UNCHANGED <<session, feedVars, work, outcome, hung, left>>

RunStream == Subscribe \/ TakeItem \/ Forward \/ StopStream
RunLoop == Receive \/ EndLoop \/ ReturnFromRun
RunWorker(w) == TakeJob(w) \/ StopWorker(w)

PendingNext ==
    \/ \E t \in Tx : Announce(t)
    \/ Drop \/ RunStream \/ RunLoop
    \/ \E w \in Worker : RunWorker(w)
    \/ \E plan \in BlockPlans : BeginBlock(plan)
    \/ \E plan \in Sweeps : BeginSweep(plan)
    \/ \E s \in Session : RunSession(s)
    \/ Hang \/ Shutdown

PendingSpec == PendingInit /\ [][PendingNext]_pendingVars

\* Goroutines run, and PostgreSQL hands a lock to those that wait for it in turn.  Nothing
\* makes the process stop.
FairPendingSpec ==
    /\ PendingSpec
    /\ WF_pendingVars(RunStream) /\ WF_pendingVars(RunLoop)
    /\ \A w \in Worker : SF_pendingVars(RunWorker(w) \/ RunSession(w))
    /\ \A s \in Session \ Worker : SF_pendingVars(RunSession(s))
-----------------------------------------------------------------------------
(***************************************************************************)
(* Properties.                                                             *)
(***************************************************************************)

\* No two transactions hold one row, and no channel is longer than its buffer.
PendingTypeOK ==
    /\ SessionTypeOK(Row)
    /\ stream.pc \in {"subscribe", "pump", "forward", "stopped"}
    /\ Len(stream.in) <= InBuffer /\ Len(out) <= OutBuffer /\ Len(jobs) <= JobsBuffer
    /\ Len(stream.item) = IF stream.pc = "forward" THEN 1 ELSE 0
    /\ loop \in {"loop", "waiting", "returned"}
    /\ outcome \in [Tx -> {"unseen", "moving", "saved", "gone"}]
    /\ \A w \in Worker : (session[w] # Idle) = (work[w] \notin {<<>>, Stopped})

\* On its way to a worker, first out first.
Pipeline == jobs \o out \o stream.item \o stream.in

\* Every announced transaction is in one place, in the order of the feed, or came to an end
\* that is known: nothing is duplicated, overtaken or forgotten by the three channels, the
\* full buffer, a dropped subscription or a shutdown.
FeedAccounted ==
    /\ \A i, j \in DOMAIN Pipeline : i < j => Pipeline[i] < Pipeline[j]
    /\ \A t \in Tx :
          (outcome[t] = "moving") =
              (t \in ToSet(Pipeline) \/ \E w \in Worker : work[w] = <<t>>)
    /\ \A w \in Worker : ToSet(work[w]) \cap ToSet(Pipeline) = {}

\* However long the database hangs, the feed is read: a node disconnects subscribers that
\* fall behind.
FeedIsRead == Len(out) = OutBuffer ~> Len(out) < OutBuffer \/ cancelled

\* Pending transactions cannot deadlock each other: every cycle goes through a block.
CyclesNeedABlock == \A C \in SUBSET Waiting : Cycle(C) => Block \in C

\* While the database answers, every transaction ends, deadlocked or not.
SavesEnd == \A s \in Session : session[s] # Idle ~> session[s] = Idle \/ hung

\* A cancelled context ends every goroutine, full channels, held locks and a hung database
\* notwithstanding.
ShutdownCompletes ==
    cancelled ~> loop = "returned" /\ stream.pc = "stopped" /\ \A s \in Session : session[s] = Idle
=============================================================================

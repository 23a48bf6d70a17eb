----------------------------- MODULE ChainStore -----------------------------
(***************************************************************************)
(* The ingestion writes of store/postgres.go: the tables transactions,     *)
(* blocks, token_transfers and enrichment_jobs, and the SQL transactions   *)
(* that change them.  Each of SaveTransaction, SaveBlock and               *)
(* MarkDroppedTransactions commits as one PostgreSQL transaction, so each  *)
(* is one action.  Two calls of SaveBlock never overlap: there is one      *)
(* block watcher.  The accounts rows the same transactions touch carry     *)
(* nothing these tables' properties tell apart and are left out.           *)
(***************************************************************************)
EXTENDS EnrichmentJobs

CONSTANTS
    Block,          \* block hashes
    Transfer,       \* (tx_hash, log_index) keys of ERC-20 transfers
    Height,         \* block numbers
    NoBlock,        \* "no row" in blocks
    HeightOf,       \* block -> its number
    TxsOf,          \* block -> the transactions it contains
    TransfersOf,    \* block -> the transfers its receipts carry
    EmitterOf,      \* transfer -> the transaction that emitted it
    SlotOf,         \* transaction -> its (sender, nonce)
    WithRecipient   \* transactions whose "to" is not empty; the rest create contracts

\* What the protocol guarantees of a block: a sender's nonce is used once, and a
\* log belongs to a transaction of the block.
ASSUME ChainAssumption ==
    /\ Height \subseteq Nat \ {0}
    /\ NoBlock \notin Block
    /\ HeightOf \in [Block -> Height]
    /\ TxsOf \in [Block -> SUBSET Tx]
    /\ TransfersOf \in [Block -> SUBSET Transfer]
    /\ EmitterOf \in [Transfer -> Tx]
    /\ WithRecipient \subseteq Tx
    /\ \A b \in Block : \A x \in TransfersOf[b] : EmitterOf[x] \in TxsOf[b]
    /\ \A b \in Block : \A t, u \in TxsOf[b] : SlotOf[t] = SlotOf[u] => t = u

VARIABLES
    transactions,   \* hash -> row
    blocks,         \* number -> hash of the stored block
    tokenTransfers, \* transfer -> block_number of its row, or Null
    jobs            \* hash -> row of enrichment_jobs

storeVars == <<transactions, blocks, tokenTransfers, jobs>>

Null == 0

TxStatus == {"absent", "pending", "mined", "replaced", "dropped"}

\* receipt stands for gas_used, effective_gas_price and receipt_status; created for
\* created_contract.
Row == [status : TxStatus, block : Height \cup {Null}, receipt : BOOLEAN, created : BOOLEAN]

NoRow == [status |-> "absent", block |-> Null, receipt |-> FALSE, created |-> FALSE]

Stored(t) == transactions[t].status # "absent"

Rivals(t, u) == t # u /\ SlotOf[t] = SlotOf[u]
-----------------------------------------------------------------------------
StoreInit ==
    /\ transactions = [t \in Tx |-> NoRow]
    /\ blocks = [n \in Height |-> NoBlock]
    /\ tokenTransfers = [x \in Transfer |-> Null]
    /\ jobs = [t \in Tx |-> NoJob]

\* Mutant of SaveTransaction: DO UPDATE instead of DO NOTHING.
SaveTransactionOverwriting(t) ==
    /\ transactions' = [transactions EXCEPT ![t] = [NoRow EXCEPT !.status = "pending"]]
    /\ jobs' = Enqueue(jobs, {t} \cap WithRecipient)
    /\ UNCHANGED <<blocks, tokenTransfers>>

(***************************************************************************)
(* SaveTransaction: a hash that is already stored changes nothing.         *)
(***************************************************************************)
SaveTransaction(t) ==
    /\ ~Stored(t)
    /\ transactions' = [transactions EXCEPT ![t] = [NoRow EXCEPT !.status = "pending"]]
    /\ jobs' = Enqueue(jobs, {t} \cap WithRecipient)
    /\ UNCHANGED <<blocks, tokenTransfers>>

(***************************************************************************)
(* SaveBlock, step by step.  A different hash at the block's height is a   *)
(* reorg: the rows of that height are reverted before anything is written. *)
(* created_contract is not among the columns the revert resets.            *)
(***************************************************************************)
\* Mutant of Reorg: a stored height is overwritten without being undone.
ReorgUnnoticed(b) == FALSE

Reorg(b) == blocks[HeightOf[b]] \notin {NoBlock, b}

RevertedRows(b) ==
    [t \in Tx |->
        IF Reorg(b) /\ transactions[t].block = HeightOf[b]
        THEN [transactions[t] EXCEPT !.status = "pending", !.block = Null, !.receipt = FALSE]
        ELSE transactions[t]]

\* Mutant of RevertedTransfers: the rows stay.
RevertedTransfersKept(b) == tokenTransfers

RevertedTransfers(b) ==
    [x \in Transfer |->
        IF Reorg(b) /\ tokenTransfers[x] = HeightOf[b] THEN Null ELSE tokenTransfers[x]]

\* Mutants of MinedRows: the losers are looked up before the revert, or only a pending row
\* is promoted.
MinedRowsLosersFirst(b, receipts, rows) ==
    [t \in Tx |->
        IF t \in TxsOf[b]
        THEN [status |-> "mined", block |-> HeightOf[b], receipt |-> receipts,
              created |-> receipts /\ t \notin WithRecipient]
        ELSE IF transactions[t].status = "pending" /\ \E m \in TxsOf[b] : Rivals(t, m)
             THEN [rows[t] EXCEPT !.status = "replaced"]
             ELSE rows[t]]

MinedRowsPendingOnly(b, receipts, rows) ==
    [t \in Tx |->
        IF t \in TxsOf[b] /\ rows[t].status \in {"absent", "pending"}
        THEN [status |-> "mined", block |-> HeightOf[b], receipt |-> receipts,
              created |-> receipts /\ t \notin WithRecipient]
        ELSE IF rows[t].status = "pending" /\ \E m \in TxsOf[b] : Rivals(t, m)
             THEN [rows[t] EXCEPT !.status = "replaced"]
             ELSE rows[t]]

\* upsertMinedTransactions: the block's transactions become mined, then every row that
\* is still pending under the sender and nonce of one of them becomes replaced.
MinedRows(b, receipts, rows) ==
    [t \in Tx |->
        IF t \in TxsOf[b]
        THEN [status |-> "mined", block |-> HeightOf[b], receipt |-> receipts,
              created |-> receipts /\ t \notin WithRecipient]
        ELSE IF rows[t].status = "pending" /\ \E m \in TxsOf[b] : Rivals(t, m)
             THEN [rows[t] EXCEPT !.status = "replaced"]
             ELSE rows[t]]

\* Mutant of JobTxs: created contracts are forgotten.
JobTxsWithRecipient(b, receipts) == TxsOf[b] \cap WithRecipient

\* Transactions of the block that get a job: a recipient, or a created contract.
JobTxs(b, receipts) == {t \in TxsOf[b] : t \in WithRecipient \/ receipts}

\* Mutant of InsertedTransfers: the insert runs before the revert.
InsertedTransfersFirst(b, decoded, table) ==
    [x \in Transfer |->
        IF x \in decoded /\ tokenTransfers[x] = Null THEN HeightOf[b] ELSE table[x]]

\* insertTokenTransfers: ON CONFLICT (tx_hash, log_index) DO NOTHING.
InsertedTransfers(b, decoded, table) ==
    [x \in Transfer |-> IF x \in decoded /\ table[x] = Null THEN HeightOf[b] ELSE table[x]]

Decoded(b, receipts) == IF receipts THEN TransfersOf[b] ELSE {}

\* Mutant of SaveBlock: the transfers' jobs are inserted, not re-queued.
SaveBlockWithoutRequeue(b, receipts) ==
    LET decoded == Decoded(b, receipts) IN
    /\ blocks[HeightOf[b]] # b
    /\ blocks' = [blocks EXCEPT ![HeightOf[b]] = b]
    /\ transactions' = MinedRows(b, receipts, RevertedRows(b))
    /\ tokenTransfers' = InsertedTransfers(b, decoded, RevertedTransfers(b))
    /\ jobs' = Enqueue(jobs, JobTxs(b, receipts) \cup {EmitterOf[x] : x \in decoded})

(***************************************************************************)
(* receipts says whether eth_getBlockReceipts answered: without receipts   *)
(* ingestBlock saves the block with no receipt columns, no created         *)
(* contracts and no transfers.  A block stored under the same hash is      *)
(* skipped.                                                                *)
(***************************************************************************)
SaveBlock(b, receipts) ==
    LET decoded == Decoded(b, receipts) IN
    /\ blocks[HeightOf[b]] # b
    /\ blocks' = [blocks EXCEPT ![HeightOf[b]] = b]
    /\ transactions' = MinedRows(b, receipts, RevertedRows(b))
    /\ tokenTransfers' = InsertedTransfers(b, decoded, RevertedTransfers(b))
    /\ jobs' = Requeue(Enqueue(jobs, JobTxs(b, receipts)), {EmitterOf[x] : x \in decoded})

(***************************************************************************)
(* MarkDroppedTransactions: old is the set of pending rows whose timestamp *)
(* is more than droppedAfter in the past.                                  *)
(***************************************************************************)
MarkDroppedTransactions(old) ==
    /\ old # {}
    /\ \A t \in old : transactions[t].status = "pending"
    /\ transactions' = [t \in Tx |-> IF t \in old THEN [transactions[t] EXCEPT !.status = "dropped"]
                                                 ELSE transactions[t]]
    /\ UNCHANGED <<blocks, tokenTransfers, jobs>>

StoreNext ==
    \/ \E t \in Tx : SaveTransaction(t)
    \/ \E b \in Block, receipts \in BOOLEAN : SaveBlock(b, receipts)
    \/ \E old \in SUBSET Tx : MarkDroppedTransactions(old)

StoreSpec == StoreInit /\ [][StoreNext]_storeVars
-----------------------------------------------------------------------------
(***************************************************************************)
(* Properties.                                                             *)
(***************************************************************************)

\* Every table holds rows of its type (the CHECK constraints of migrations 7 and 8).
StoreTypeOK ==
    /\ transactions \in [Tx -> Row]
    /\ blocks \in [Height -> Block \cup {NoBlock}]
    /\ tokenTransfers \in [Transfer -> Height \cup {Null}]
    /\ jobs \in [Tx -> Job]

\* A row is mined exactly when it has a block number, and the block stored at that
\* number contains it.  SaveBlock must undo the rows of the block it replaces, also
\* when a transaction moved to another height in between.
MinedRowInStoredBlock ==
    \A t \in Tx :
        LET n == transactions[t].block IN
        /\ transactions[t].status = "mined" <=> n # Null
        /\ n # Null => blocks[n] # NoBlock /\ t \in TxsOf[blocks[n]]

\* Receipt data never outlives the mined status it came with: a transaction that
\* SaveBlock's reorg branch reverts carries no gas or status of the orphaned block.
ReceiptOnlyWhileMined ==
    \A t \in Tx : transactions[t].receipt => transactions[t].status = "mined"

\* A token transfer is attributed to a block that really carries it: no row of
\* token_transfers survives the reorg that replaces its block.
TransferInStoredBlock ==
    \A x \in Transfer :
        LET n == tokenTransfers[x] IN
        n # Null => blocks[n] # NoBlock /\ x \in TransfersOf[blocks[n]]

\* When a block mines a transaction, no other transaction of the same sender and nonce
\* is left pending, whichever of the two the replaced block had mined: SaveBlock marks
\* the losers after it reverted the old block's rows.
RivalsSettleTogether ==
    [][\A t, u \in Tx :
        /\ Rivals(t, u)
        /\ transactions'[t].block # transactions[t].block
        /\ transactions'[t].status = "mined"
        => transactions'[u].status # "pending"]_storeVars

\* A mined transaction leaves its block only because another block took that height
\* or because a newer block contains it: a late SaveTransaction, a maintenance pass or a
\* block elsewhere never demotes it.
MinedUntilReorg ==
    [][\A t \in Tx :
        /\ transactions[t].status = "mined"
        /\ transactions'[t].block # transactions[t].block
        => \/ blocks'[transactions[t].block] # blocks[transactions[t].block]
           \/ transactions'[t].status = "mined"]_storeVars

\* Storing a transaction and owing its enrichment are one step: whenever a transaction
\* that moves value or creates a contract becomes known, its job is open afterwards.
StoredWithJob ==
    [][\A t \in Tx :
        /\ ~Stored(t) /\ Stored(t)'
        /\ t \in WithRecipient \/ transactions'[t].created
        => Open(jobs'[t])]_storeVars
=============================================================================

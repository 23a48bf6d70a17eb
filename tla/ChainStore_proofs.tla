------------------------- MODULE ChainStore_proofs -------------------------
(***************************************************************************)
(* Proofs about ChainStore for every set of transactions, blocks, heights  *)
(* and transfers that ChainAssumption admits.                              *)
(***************************************************************************)
EXTENDS ChainStore, TLAPS

StoreInv ==
    /\ StoreTypeOK
    /\ MinedRowInStoredBlock
    /\ ReceiptOnlyWhileMined
    /\ TransferInStoredBlock

LEMMA NullIsNoHeight == Null \notin Height
BY ChainAssumption DEF ChainAssumption, Null

LEMMA QueueWritesTyped ==
    ASSUME NEW table \in [Tx -> Job], NEW S
    PROVE  /\ Enqueue(table, S) \in [Tx -> Job]
           /\ Requeue(table, S) \in [Tx -> Job]
BY DEF Enqueue, Requeue, Job, JobStatus, FreshJob

LEMMA RevertTyped ==
    ASSUME StoreTypeOK, NEW b \in Block
    PROVE  RevertedRows(b) \in [Tx -> Row]
<1>1. ASSUME NEW t \in Tx PROVE transactions[t] \in Row
  BY DEF StoreTypeOK
<1>2. ASSUME NEW t \in Tx
      PROVE  [transactions[t] EXCEPT !.status = "pending", !.block = Null, !.receipt = FALSE] \in Row
  BY <1>1 DEF Row, TxStatus
<1> QED
  BY <1>1, <1>2 DEF RevertedRows

LEMMA MinedTyped ==
    ASSUME NEW rows \in [Tx -> Row], NEW b \in Block, NEW receipts \in BOOLEAN
    PROVE  MinedRows(b, receipts, rows) \in [Tx -> Row]
<1> HeightOf[b] \in Height
  BY ChainAssumption DEF ChainAssumption
<1>1. ASSUME NEW t \in Tx PROVE [rows[t] EXCEPT !.status = "replaced"] \in Row
  BY DEF Row, TxStatus
<1>2. ASSUME NEW t \in Tx
      PROVE  [status |-> "mined", block |-> HeightOf[b], receipt |-> receipts,
              created |-> receipts /\ t \notin WithRecipient] \in Row
  BY DEF Row, TxStatus
<1> QED
  BY <1>1, <1>2 DEF MinedRows

LEMMA StoreTypeInit == StoreInit => StoreTypeOK
BY DEF StoreInit, StoreTypeOK, NoRow, NoJob, Row, TxStatus, Job, JobStatus

LEMMA StoreTypeStep == StoreTypeOK /\ [StoreNext]_storeVars => StoreTypeOK'
<1> SUFFICES ASSUME StoreTypeOK, [StoreNext]_storeVars PROVE StoreTypeOK'
  OBVIOUS
<1>1. ASSUME NEW t \in Tx, SaveTransaction(t) PROVE StoreTypeOK'
  <2>1. [NoRow EXCEPT !.status = "pending"] \in Row
    BY DEF NoRow, Row, TxStatus
  <2>2. transactions' \in [Tx -> Row]
    BY <1>1, <2>1 DEF SaveTransaction, StoreTypeOK
  <2>3. jobs' \in [Tx -> Job]
    BY <1>1, QueueWritesTyped DEF SaveTransaction, StoreTypeOK
  <2> QED
    BY <1>1, <2>2, <2>3 DEF SaveTransaction, StoreTypeOK
<1>2. ASSUME NEW b \in Block, NEW receipts \in BOOLEAN, SaveBlock(b, receipts)
      PROVE  StoreTypeOK'
  <2> HeightOf[b] \in Height
    BY ChainAssumption DEF ChainAssumption
  <2>1. transactions' \in [Tx -> Row]
    BY <1>2, RevertTyped, MinedTyped DEF SaveBlock
  <2>2. blocks' \in [Height -> Block \cup {NoBlock}]
    BY <1>2 DEF SaveBlock, StoreTypeOK
  <2>3. tokenTransfers' \in [Transfer -> Height \cup {Null}]
    BY <1>2 DEF SaveBlock, StoreTypeOK, InsertedTransfers, RevertedTransfers
  <2>4. jobs' \in [Tx -> Job]
    BY <1>2, QueueWritesTyped DEF SaveBlock, StoreTypeOK
  <2> QED
    BY <2>1, <2>2, <2>3, <2>4 DEF StoreTypeOK
<1>3. ASSUME NEW old \in SUBSET Tx, MarkDroppedTransactions(old) PROVE StoreTypeOK'
  <2>1. ASSUME NEW t \in Tx PROVE [transactions[t] EXCEPT !.status = "dropped"] \in Row
    BY DEF StoreTypeOK, Row, TxStatus
  <2> QED
    BY <1>3, <2>1 DEF MarkDroppedTransactions, StoreTypeOK
<1>4. CASE UNCHANGED storeVars
  BY <1>4 DEF storeVars, StoreTypeOK
<1> QED
  BY <1>1, <1>2, <1>3, <1>4 DEF StoreNext

\* Type correctness: every behaviour of the ingestion writes keeps every table in the
\* types its CHECK constraints and columns give it.
THEOREM StoreTypeCorrect == StoreSpec => []StoreTypeOK
BY StoreTypeInit, StoreTypeStep, PTL DEF StoreSpec
-----------------------------------------------------------------------------
(***************************************************************************)
(* The columns of a row after SaveBlock.  A row keeps its block unless the *)
(* new block mines it or takes over its height; what remains mined at the  *)
(* block's own height is mined by this block.                              *)
(***************************************************************************)
LEMMA RevertedColumns ==
    ASSUME StoreTypeOK, NEW b \in Block, NEW t \in Tx
    PROVE  LET row == RevertedRows(b)[t] IN
           /\ Reorg(b) /\ transactions[t].block = HeightOf[b]
              => row.status = "pending" /\ row.block = Null /\ row.receipt = FALSE
           /\ ~(Reorg(b) /\ transactions[t].block = HeightOf[b]) => row = transactions[t]
<1>1. transactions[t] \in Row
  BY DEF StoreTypeOK
<1> QED
  BY <1>1 DEF RevertedRows, Row

LEMMA MinedColumns ==
    ASSUME NEW b \in Block, NEW receipts \in BOOLEAN, NEW rows \in [Tx -> Row], NEW t \in Tx
    PROVE  LET row == MinedRows(b, receipts, rows)[t] IN
           /\ t \in TxsOf[b] => row.status = "mined" /\ row.block = HeightOf[b]
           /\ t \notin TxsOf[b] =>
                /\ row.block = rows[t].block
                /\ row.receipt = rows[t].receipt
                /\ \/ row.status = rows[t].status
                   \/ rows[t].status = "pending" /\ row.status = "replaced"
<1>1. rows[t] \in Row
  OBVIOUS
<1> QED
  BY <1>1 DEF MinedRows, Row

LEMMA SaveBlockColumns ==
    ASSUME StoreInv, NEW b \in Block, NEW receipts \in BOOLEAN, SaveBlock(b, receipts),
           NEW t \in Tx
    PROVE  \/ transactions'[t].status = "mined" /\ transactions'[t].block = HeightOf[b]
              /\ t \in TxsOf[b]
           \/ /\ transactions'[t].status \in {"pending", "replaced"}
              /\ transactions'[t].block = Null
              /\ ~transactions'[t].receipt
           \/ /\ transactions'[t].block = transactions[t].block
              /\ transactions'[t].receipt = transactions[t].receipt
              /\ transactions'[t].status = transactions[t].status
              /\ transactions[t].block # HeightOf[b]
<1> DEFINE rows == RevertedRows(b)
<1>0. rows \in [Tx -> Row] /\ StoreTypeOK
  BY RevertTyped DEF StoreInv
<1>1. transactions' = MinedRows(b, receipts, rows) /\ blocks[HeightOf[b]] # b
  BY DEF SaveBlock
<1>2. transactions[t] \in Row
  BY <1>0 DEF StoreTypeOK
<1>3. CASE t \in TxsOf[b]
  <2> HIDE DEF rows
  <2> QED
    BY <1>0, <1>1, <1>3, MinedColumns
<1>4. CASE t \notin TxsOf[b]
  <2>1. /\ transactions'[t].block = rows[t].block
        /\ transactions'[t].receipt = rows[t].receipt
        /\ \/ transactions'[t].status = rows[t].status
           \/ rows[t].status = "pending" /\ transactions'[t].status = "replaced"
    <3> HIDE DEF rows
    <3> QED
      BY <1>0, <1>1, <1>4, MinedColumns
  <2>2. CASE Reorg(b) /\ transactions[t].block = HeightOf[b]
    BY <1>0, <2>1, <2>2, RevertedColumns
  <2>3. CASE ~(Reorg(b) /\ transactions[t].block = HeightOf[b])
    <3>1. rows[t] = transactions[t]
      BY <1>0, <2>3, RevertedColumns
    <3>2. transactions[t].block # HeightOf[b]
      <4>1. SUFFICES ASSUME transactions[t].block = HeightOf[b] PROVE FALSE
        OBVIOUS
      <4>2. HeightOf[b] # Null
        BY NullIsNoHeight, ChainAssumption DEF ChainAssumption
      <4>3. blocks[HeightOf[b]] # NoBlock
        BY <4>1, <4>2 DEF StoreInv, MinedRowInStoredBlock
      <4>4. Reorg(b)
        BY <1>1, <4>3 DEF Reorg
      <4> QED
        BY <2>3, <4>1, <4>4
    <3>3. CASE transactions'[t].status = rows[t].status
      BY <2>1, <3>1, <3>2, <3>3
    <3>4. CASE rows[t].status = "pending" /\ transactions'[t].status = "replaced"
      <4>1. transactions[t].status = "pending"
        BY <3>1, <3>4
      <4>2. transactions[t].block = Null /\ ~transactions[t].receipt
        BY <4>1 DEF StoreInv, MinedRowInStoredBlock, ReceiptOnlyWhileMined
      <4> QED
        BY <2>1, <3>1, <3>4, <4>2
    <3> QED
      BY <2>1, <3>3, <3>4
  <2> QED
    BY <2>2, <2>3
<1> QED
  BY <1>3, <1>4

LEMMA StoreInvInit == StoreInit => StoreInv
<1> SUFFICES ASSUME StoreInit PROVE StoreInv
  OBVIOUS
<1>1. StoreTypeOK
  BY StoreTypeInit
<1>2. MinedRowInStoredBlock /\ ReceiptOnlyWhileMined /\ TransferInStoredBlock
  BY DEF StoreInit, MinedRowInStoredBlock, ReceiptOnlyWhileMined, TransferInStoredBlock, NoRow, Null
<1> QED
  BY <1>1, <1>2 DEF StoreInv

LEMMA StoreInvStep == StoreInv /\ [StoreNext]_storeVars => StoreInv'
<1> SUFFICES ASSUME StoreInv, [StoreNext]_storeVars PROVE StoreInv'
  OBVIOUS
<1>0. StoreTypeOK /\ StoreTypeOK'
  BY StoreTypeStep DEF StoreInv
<1>1. ASSUME NEW t \in Tx, SaveTransaction(t) PROVE StoreInv'
  <2>1. ASSUME NEW u \in Tx
        PROVE  \/ transactions'[u] = transactions[u]
               \/ transactions'[u].status = "pending" /\ transactions'[u].block = Null
                  /\ ~transactions'[u].receipt
    BY <1>0, <1>1 DEF SaveTransaction, StoreTypeOK, NoRow
  <2>2. blocks' = blocks /\ tokenTransfers' = tokenTransfers
    BY <1>1 DEF SaveTransaction
  <2>3. MinedRowInStoredBlock'
    BY <2>1, <2>2 DEF MinedRowInStoredBlock, StoreInv
  <2>4. ReceiptOnlyWhileMined'
    BY <2>1 DEF ReceiptOnlyWhileMined, StoreInv
  <2>5. TransferInStoredBlock'
    BY <2>2 DEF TransferInStoredBlock, StoreInv
  <2> QED
    BY <1>0, <2>3, <2>4, <2>5 DEF StoreInv
<1>2. ASSUME NEW b \in Block, NEW receipts \in BOOLEAN, SaveBlock(b, receipts)
      PROVE  StoreInv'
  <2>1. HeightOf[b] \in Height /\ HeightOf[b] # Null /\ b # NoBlock
    BY NullIsNoHeight, ChainAssumption DEF ChainAssumption
  <2>2. /\ blocks[HeightOf[b]] # b
        /\ blocks' = [blocks EXCEPT ![HeightOf[b]] = b]
    BY <1>2 DEF SaveBlock
  <2>3. blocks'[HeightOf[b]] = b /\ \A n \in Height : n # HeightOf[b] => blocks'[n] = blocks[n]
    BY <1>0, <2>1, <2>2 DEF StoreTypeOK
  <2>4. MinedRowInStoredBlock'
    <3> SUFFICES ASSUME NEW t \in Tx
                 PROVE  LET n == transactions'[t].block IN
                        /\ transactions'[t].status = "mined" <=> n # Null
                        /\ n # Null => blocks'[n] # NoBlock /\ t \in TxsOf[blocks'[n]]
      BY DEF MinedRowInStoredBlock
    <3>1. transactions[t].block \in Height \cup {Null}
      BY <1>0 DEF StoreTypeOK, Row
    <3>2. /\ transactions[t].status = "mined" <=> transactions[t].block # Null
          /\ transactions[t].block # Null => /\ blocks[transactions[t].block] # NoBlock
                                            /\ t \in TxsOf[blocks[transactions[t].block]]
      BY DEF StoreInv, MinedRowInStoredBlock
    <3> QED
      BY <1>2, <2>1, <2>3, <3>1, <3>2, SaveBlockColumns
  <2>5. ReceiptOnlyWhileMined'
    <3> SUFFICES ASSUME NEW t \in Tx
                 PROVE  transactions'[t].receipt => transactions'[t].status = "mined"
      BY DEF ReceiptOnlyWhileMined
    <3>1. transactions[t].receipt => transactions[t].status = "mined"
      BY DEF StoreInv, ReceiptOnlyWhileMined
    <3> QED
      BY <1>2, <3>1, SaveBlockColumns
  <2>6. TransferInStoredBlock'
    <3> SUFFICES ASSUME NEW x \in Transfer, tokenTransfers'[x] # Null
                 PROVE  /\ blocks'[tokenTransfers'[x]] # NoBlock
                        /\ x \in TransfersOf[blocks'[tokenTransfers'[x]]]
      BY DEF TransferInStoredBlock
    <3>1. tokenTransfers' = InsertedTransfers(b, Decoded(b, receipts), RevertedTransfers(b))
      BY <1>2 DEF SaveBlock
    <3>2. tokenTransfers[x] \in Height \cup {Null}
      BY <1>0 DEF StoreTypeOK
    <3>3. CASE x \in Decoded(b, receipts) /\ tokenTransfers'[x] = HeightOf[b]
      BY <2>1, <2>3, <3>3 DEF Decoded
    <3>4. CASE tokenTransfers'[x] = RevertedTransfers(b)[x]
      <4>1. /\ tokenTransfers'[x] = tokenTransfers[x]
            /\ ~(Reorg(b) /\ tokenTransfers[x] = HeightOf[b])
        BY <3>4 DEF RevertedTransfers
      <4>2. /\ blocks[tokenTransfers[x]] # NoBlock
            /\ x \in TransfersOf[blocks[tokenTransfers[x]]]
        BY <4>1 DEF StoreInv, TransferInStoredBlock
      <4>3. tokenTransfers[x] # HeightOf[b]
        BY <2>2, <4>1, <4>2 DEF Reorg
      <4> QED
        BY <2>3, <3>2, <4>1, <4>2, <4>3
    <3> QED
      BY <3>1, <3>3, <3>4 DEF InsertedTransfers
  <2> QED
    BY <1>0, <2>4, <2>5, <2>6 DEF StoreInv
<1>3. ASSUME NEW old \in SUBSET Tx, MarkDroppedTransactions(old) PROVE StoreInv'
  <2>1. ASSUME NEW t \in Tx
        PROVE  /\ transactions'[t].block = transactions[t].block
               /\ transactions'[t].receipt = transactions[t].receipt
               /\ \/ transactions'[t].status = transactions[t].status
                  \/ transactions[t].status = "pending" /\ transactions'[t].status = "dropped"
    <3>1. transactions[t] \in Row
      BY <1>0 DEF StoreTypeOK
    <3> QED
      BY <1>3, <3>1 DEF MarkDroppedTransactions, Row
  <2>2. blocks' = blocks /\ tokenTransfers' = tokenTransfers
    BY <1>3 DEF MarkDroppedTransactions
  <2>3. MinedRowInStoredBlock'
    BY <2>1, <2>2 DEF MinedRowInStoredBlock, StoreInv
  <2>4. ReceiptOnlyWhileMined'
    BY <2>1 DEF ReceiptOnlyWhileMined, StoreInv
  <2>5. TransferInStoredBlock'
    BY <2>2 DEF TransferInStoredBlock, StoreInv
  <2> QED
    BY <1>0, <2>3, <2>4, <2>5 DEF StoreInv
<1>4. CASE UNCHANGED storeVars
  BY <1>0, <1>4 DEF storeVars, StoreInv, MinedRowInStoredBlock, ReceiptOnlyWhileMined,
                    TransferInStoredBlock
<1> QED
  BY <1>1, <1>2, <1>3, <1>4 DEF StoreNext

\* The tables agree with the stored blocks after any sequence of saves and reorgs: a
\* mined row lies in the block stored at its number.
THEOREM StoreMinedRows == StoreSpec => []MinedRowInStoredBlock
<1>1. StoreInv => MinedRowInStoredBlock
  BY DEF StoreInv
<1> QED
  BY <1>1, StoreInvInit, StoreInvStep, PTL DEF StoreSpec

\* No row of token_transfers outlives the block that carried it.
THEOREM StoreTransfers == StoreSpec => []TransferInStoredBlock
<1>1. StoreInv => TransferInStoredBlock
  BY DEF StoreInv
<1> QED
  BY <1>1, StoreInvInit, StoreInvStep, PTL DEF StoreSpec

\* Receipt columns are set only on mined rows.
THEOREM StoreReceipts == StoreSpec => []ReceiptOnlyWhileMined
<1>1. StoreInv => ReceiptOnlyWhileMined
  BY DEF StoreInv
<1> QED
  BY <1>1, StoreInvInit, StoreInvStep, PTL DEF StoreSpec
-----------------------------------------------------------------------------
(***************************************************************************)
(* What a step of ingestion does to the queue and to a row that is stored. *)
(***************************************************************************)
\* Only stored transactions have a job.
JobsOfStored == \A t \in Tx : jobs[t].status # "none" => Stored(t)

\* A transaction that reveals an account to analyse or a flow of value.
Revealing(t) == t \in WithRecipient \/ transactions[t].created

\* Ingestion only adds to the queue and to the stored transactions: an open job stays
\* open, and a transaction that becomes stored with a recipient or a created contract has a
\* fresh one.
LEMMA IngestKeepsQueue ==
    ASSUME StoreInv, JobsOfStored, StoreNext
    PROVE  \A t \in Tx :
              /\ Stored(t) => Stored(t)'
              /\ jobs'[t] \in {jobs[t], FreshJob}
              /\ jobs'[t] # jobs[t] => Stored(t)'
              /\ ~Stored(t) /\ Stored(t)' /\ Revealing(t)' => jobs'[t] = FreshJob
<1> SUFFICES ASSUME NEW t \in Tx
             PROVE  /\ Stored(t) => Stored(t)'
                    /\ jobs'[t] \in {jobs[t], FreshJob}
                    /\ jobs'[t] # jobs[t] => Stored(t)'
                    /\ ~Stored(t) /\ Stored(t)' /\ Revealing(t)' => jobs'[t] = FreshJob
  OBVIOUS
<1>0. transactions[t] \in Row /\ jobs[t] \in Job /\ (~Stored(t) => jobs[t].status = "none")
  BY DEF StoreInv, StoreTypeOK, JobsOfStored
<1> StoreTypeOK
  BY DEF StoreInv
<1>1. ASSUME NEW u \in Tx, SaveTransaction(u)
      PROVE  /\ Stored(t) => Stored(t)'
             /\ jobs'[t] \in {jobs[t], FreshJob}
             /\ jobs'[t] # jobs[t] => Stored(t)'
             /\ ~Stored(t) /\ Stored(t)' /\ Revealing(t)' => jobs'[t] = FreshJob
  <2>1. transactions'[t] = IF t = u THEN [NoRow EXCEPT !.status = "pending"] ELSE transactions[t]
    BY <1>1 DEF SaveTransaction, StoreTypeOK
  <2>2. jobs'[t] = IF t \in {u} \cap WithRecipient /\ jobs[t].status = "none"
                   THEN FreshJob ELSE jobs[t]
    BY <1>1 DEF SaveTransaction, Enqueue
  <2>3. t = u => ~transactions'[t].created
    BY <2>1 DEF NoRow
  <2> QED
    BY <1>0, <2>1, <2>2, <2>3 DEF Stored, NoRow, Revealing
<1>2. ASSUME NEW b \in Block, NEW receipts \in BOOLEAN, SaveBlock(b, receipts)
      PROVE  /\ Stored(t) => Stored(t)'
             /\ jobs'[t] \in {jobs[t], FreshJob}
             /\ jobs'[t] # jobs[t] => Stored(t)'
             /\ ~Stored(t) /\ Stored(t)' /\ Revealing(t)' => jobs'[t] = FreshJob
  <2> DEFINE emitters == {EmitterOf[x] : x \in Decoded(b, receipts)}
  <2>1. transactions'[t] = MinedRows(b, receipts, RevertedRows(b))[t]
    BY <1>2 DEF SaveBlock
  <2>2. t \in TxsOf[b] => Stored(t)'
    BY <2>1, RevertTyped, MinedColumns DEF Stored
  <2>3. t \notin TxsOf[b] => (Stored(t) <=> Stored(t)')
    <3>1. CASE Reorg(b) /\ transactions[t].block = HeightOf[b]
      <4>1. transactions[t].block # Null
        BY <3>1, NullIsNoHeight, ChainAssumption DEF ChainAssumption
      <4>2. Stored(t)
        BY <4>1 DEF StoreInv, MinedRowInStoredBlock, Stored
      <4>3. RevertedRows(b)[t].status = "pending"
        BY <3>1, RevertedColumns
      <4> QED
        BY <2>1, <4>2, <4>3, RevertTyped, MinedColumns DEF Stored
    <3>2. CASE ~(Reorg(b) /\ transactions[t].block = HeightOf[b])
      <4>1. RevertedRows(b)[t] = transactions[t]
        BY <3>2, RevertedColumns
      <4> QED
        BY <2>1, <4>1, RevertTyped, MinedColumns DEF Stored
    <3> QED
      BY <3>1, <3>2
  <2>4. /\ JobTxs(b, receipts) \subseteq TxsOf[b]
        /\ emitters \subseteq TxsOf[b]
        /\ t \in TxsOf[b] /\ Revealing(t)' => t \in JobTxs(b, receipts)
    <3>1. t \in TxsOf[b] /\ t \notin WithRecipient => transactions'[t].created = receipts
      BY <2>1 DEF MinedRows
    <3> QED
      BY <3>1, ChainAssumption DEF ChainAssumption, JobTxs, Decoded, Revealing
  <2>5. jobs' = Requeue(Enqueue(jobs, JobTxs(b, receipts)), emitters)
    BY <1>2 DEF SaveBlock
  <2>6. /\ jobs'[t] \in {jobs[t], FreshJob}
        /\ jobs'[t] # jobs[t] => t \in TxsOf[b]
        /\ jobs[t].status = "none" /\ t \in JobTxs(b, receipts) => jobs'[t] = FreshJob
    <3> HIDE DEF emitters
    <3> QED
      BY <2>4, <2>5 DEF Requeue, Enqueue
  <2> QED
    BY <1>0, <2>2, <2>3, <2>4, <2>6
<1>3. ASSUME NEW old \in SUBSET Tx, MarkDroppedTransactions(old)
      PROVE  jobs' = jobs /\ (Stored(t) <=> Stored(t)')
  BY <1>0, <1>3 DEF MarkDroppedTransactions, Stored, Row
<1> QED
  BY <1>0, <1>1, <1>2, <1>3 DEF StoreNext

LEMMA JobsInit == StoreInit => JobsOfStored
BY DEF StoreInit, JobsOfStored, NoJob

LEMMA JobsStep ==
    StoreInv /\ JobsOfStored /\ [StoreNext]_storeVars => JobsOfStored'
<1> SUFFICES ASSUME StoreInv, JobsOfStored, [StoreNext]_storeVars PROVE JobsOfStored'
  OBVIOUS
<1>1. CASE StoreNext
  BY <1>1, IngestKeepsQueue DEF JobsOfStored
<1>2. CASE UNCHANGED storeVars
  BY <1>2 DEF storeVars, JobsOfStored, Stored
<1> QED
  BY <1>1, <1>2

LEMMA StoredWithJobStep ==
    ASSUME StoreInv, JobsOfStored, StoreNext
    PROVE  \A t \in Tx : ~Stored(t) /\ Stored(t)' /\ Revealing(t)' => Open(jobs'[t])
BY IngestKeepsQueue DEF Open, FreshJob

\* Whatever stores a transaction that moves value or creates a contract, SaveTransaction or
\* SaveBlock, its job is open in the same step.
THEOREM StoreStoresWithJob == StoreSpec => StoredWithJob
<1> DEFINE A == \A t \in Tx :
                  /\ ~Stored(t) /\ Stored(t)'
                  /\ t \in WithRecipient \/ transactions'[t].created
                  => Open(jobs'[t])
<1>1. StoreInv /\ JobsOfStored /\ [StoreNext]_storeVars => [A]_storeVars
  BY StoredWithJobStep DEF Revealing
<1>2. StoreSpec => [](StoreInv /\ JobsOfStored)
  BY StoreInvInit, StoreInvStep, JobsInit, JobsStep, PTL DEF StoreSpec
<1>3. StoreSpec => [][A]_storeVars
  BY <1>1, <1>2, PTL DEF StoreSpec
<1> QED
  BY <1>3 DEF StoredWithJob
-----------------------------------------------------------------------------
(***************************************************************************)
(* What a block does to the transactions it does not contain: the losers   *)
(* of its nonces are settled, and only the revert of its own height takes  *)
(* a block away from a row.                                                *)
(***************************************************************************)
LEMMA LosersSettled ==
    ASSUME StoreTypeOK, NEW b \in Block, NEW receipts \in BOOLEAN, SaveBlock(b, receipts),
           NEW t \in TxsOf[b], NEW u \in Tx, Rivals(t, u)
    PROVE  transactions'[u].status # "pending"
<1> DEFINE rows == RevertedRows(b)
<1>0. t \in Tx /\ rows[u] \in Row
  BY RevertTyped, ChainAssumption
<1>1. u \notin TxsOf[b]
  BY ChainAssumption DEF Rivals
<1>2. Rivals(u, t)
  BY DEF Rivals
<1>3. transactions'[u] = IF rows[u].status = "pending" THEN [rows[u] EXCEPT !.status = "replaced"]
                         ELSE rows[u]
  <2> HIDE DEF rows
  <2> QED
    BY <1>1, <1>2 DEF SaveBlock, MinedRows, rows
<1> HIDE DEF rows
<1> QED
  BY <1>0, <1>3 DEF Row

LEMMA BlockTakenOver ==
    ASSUME StoreInv, NEW b \in Block, NEW receipts \in BOOLEAN, SaveBlock(b, receipts),
           NEW t \in Tx, t \notin TxsOf[b], transactions'[t].block # transactions[t].block
    PROVE  /\ transactions[t].block = HeightOf[b]
           /\ blocks'[HeightOf[b]] # blocks[HeightOf[b]]
<1>0. StoreTypeOK /\ RevertedRows(b) \in [Tx -> Row]
  BY RevertTyped DEF StoreInv
<1>1. transactions'[t].block = RevertedRows(b)[t].block
  BY <1>0, MinedColumns DEF SaveBlock
<1>2. Reorg(b) /\ transactions[t].block = HeightOf[b]
  BY <1>0, <1>1, RevertedColumns
<1>3. blocks'[HeightOf[b]] = b
  BY <1>0, ChainAssumption DEF SaveBlock, StoreTypeOK
<1> QED
  BY <1>2, <1>3 DEF Reorg

\* A row that is mined at another block than before was mined by the block just saved.
LEMMA NewlyMined ==
    ASSUME StoreInv, NEW b \in Block, NEW receipts \in BOOLEAN, SaveBlock(b, receipts),
           NEW t \in Tx, transactions'[t].block # transactions[t].block,
           transactions'[t].status = "mined"
    PROVE  t \in TxsOf[b]
BY SaveBlockColumns

\* Only SaveBlock changes which block a row lies in.
LEMMA BlockKept ==
    ASSUME StoreInv, NEW t \in Tx,
           \/ \E u \in Tx : SaveTransaction(u)
           \/ \E old \in SUBSET Tx : MarkDroppedTransactions(old)
    PROVE  transactions'[t].block = transactions[t].block
<1>0. transactions \in [Tx -> Row] /\ transactions[t] \in Row
  BY DEF StoreInv, StoreTypeOK
<1>1. ASSUME NEW u \in Tx, SaveTransaction(u) PROVE transactions'[t].block = transactions[t].block
  <2>1. CASE t = u
    <3>1. transactions[t].block = Null
      BY <1>1, <2>1 DEF StoreInv, MinedRowInStoredBlock, SaveTransaction, Stored
    <3>2. transactions'[t] = [NoRow EXCEPT !.status = "pending"]
      BY <1>0, <1>1, <2>1 DEF SaveTransaction
    <3> QED
      BY <3>1, <3>2 DEF NoRow
  <2>2. CASE t # u
    BY <1>0, <1>1, <2>2 DEF SaveTransaction
  <2> QED
    BY <2>1, <2>2
<1>2. ASSUME NEW old \in SUBSET Tx, MarkDroppedTransactions(old)
      PROVE  transactions'[t].block = transactions[t].block
  BY <1>0, <1>2 DEF MarkDroppedTransactions, Row
<1> QED
  BY <1>1, <1>2

\* When a block mines a transaction, no rival of the same sender and nonce is left pending.
THEOREM StoreSettlesRivals == StoreSpec => RivalsSettleTogether
<1> DEFINE A == \A t, u \in Tx :
                  /\ Rivals(t, u)
                  /\ transactions'[t].block # transactions[t].block
                  /\ transactions'[t].status = "mined"
                  => transactions'[u].status # "pending"
<1>1. ASSUME StoreInv, StoreNext PROVE A
  <2> SUFFICES ASSUME NEW t \in Tx, NEW u \in Tx, Rivals(t, u),
                      transactions'[t].block # transactions[t].block,
                      transactions'[t].status = "mined"
               PROVE  transactions'[u].status # "pending"
    OBVIOUS
  <2>1. PICK b \in Block, receipts \in BOOLEAN : SaveBlock(b, receipts)
    BY <1>1, BlockKept DEF StoreNext
  <2>2. t \in TxsOf[b]
    BY <1>1, <2>1, NewlyMined
  <2> QED
    BY <1>1, <2>1, <2>2, LosersSettled DEF StoreInv
<1>2. StoreInv /\ [StoreNext]_storeVars => [A]_storeVars
  BY <1>1
<1>3. StoreSpec => []StoreInv
  BY StoreInvInit, StoreInvStep, PTL DEF StoreSpec
<1>4. StoreSpec => [][A]_storeVars
  BY <1>2, <1>3, PTL DEF StoreSpec
<1> QED
  BY <1>4 DEF RivalsSettleTogether

\* A mined transaction leaves its block only to a block that takes its height or mines it anew.
THEOREM StoreMinedUntilReorg == StoreSpec => MinedUntilReorg
<1> DEFINE A == \A t \in Tx :
                  /\ transactions[t].status = "mined"
                  /\ transactions'[t].block # transactions[t].block
                  => \/ blocks'[transactions[t].block] # blocks[transactions[t].block]
                     \/ transactions'[t].status = "mined"
<1>1. ASSUME StoreInv, StoreNext PROVE A
  <2> SUFFICES ASSUME NEW t \in Tx, transactions'[t].block # transactions[t].block,
                      transactions'[t].status # "mined"
               PROVE  blocks'[transactions[t].block] # blocks[transactions[t].block]
    OBVIOUS
  <2>1. PICK b \in Block, receipts \in BOOLEAN : SaveBlock(b, receipts)
    BY <1>1, BlockKept DEF StoreNext
  <2>2. t \notin TxsOf[b]
    BY <1>1, <2>1, MinedColumns, RevertTyped DEF StoreInv, SaveBlock
  <2> QED
    BY <1>1, <2>1, <2>2, BlockTakenOver
<1>2. StoreInv /\ [StoreNext]_storeVars => [A]_storeVars
  BY <1>1
<1>3. StoreSpec => []StoreInv
  BY StoreInvInit, StoreInvStep, PTL DEF StoreSpec
<1>4. StoreSpec => [][A]_storeVars
  BY <1>2, <1>3, PTL DEF StoreSpec
<1> QED
  BY <1>4 DEF MinedUntilReorg
=============================================================================

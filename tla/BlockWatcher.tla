---------------------------- MODULE BlockWatcher ----------------------------
(***************************************************************************)
(* The block watcher (runBlocks and ingestBlock of ingestion/blocks.go)    *)
(* between the node's newHeads feed (client/eth.go) and the tables of      *)
(* ChainStore.  The node changes its canonical chain at any time, also     *)
(* between the two calls that fetch a block and save it; heads announced   *)
(* while the subscription is down are lost; the watcher then backfills by  *)
(* number.                                                                 *)
(*                                                                         *)
(* The feed stands for the channels in and out of client.stream together:  *)
(* a dropped subscription loses what had not reached out yet.              *)
(***************************************************************************)
EXTENDS ChainStore, SequencesExt

CONSTANTS
    ParentOf,       \* block -> its parent, or NoBlock for the oldest blocks modelled
    Branch,         \* block -> the block and its ancestors
    MaxBackfill,    \* maxBlockBackfill
    WordSize,       \* 2^64: heights are uint64
    MaxTips,        \* bound: how often the canonical chain changes
    MaxDrops,       \* bound: dropped subscriptions
    MaxFailures,    \* bound: failed calls of the watcher
    MaxRestarts     \* bound: restarts of the process

\* A chain contains a transaction once: its nonce is used up.
ASSUME WatcherAssumption ==
    /\ ParentOf \in [Block -> Block \cup {NoBlock}]
    /\ \A b \in Block : ParentOf[b] # NoBlock => HeightOf[b] = HeightOf[ParentOf[b]] + 1
    /\ Branch \in [Block -> SUBSET Block]
    /\ \A b \in Block :
          Branch[b] = {b} \cup IF ParentOf[b] = NoBlock THEN {} ELSE Branch[ParentOf[b]]
    /\ \A b, c \in Block : ParentOf[b] = NoBlock => HeightOf[b] <= HeightOf[c]
    /\ \A b \in Block : \A c, d \in Branch[b] : TxsOf[c] \cap TxsOf[d] # {} => c = d
    /\ IsFiniteSet(Block)
    /\ {MaxBackfill, WordSize} \subseteq Nat \ {0}
    /\ \A n \in Height : n + MaxBackfill < WordSize
    /\ {MaxTips, MaxDrops, MaxFailures, MaxRestarts} \subseteq Nat

VARIABLES
    tip,            \* the node's canonical head
    feed,           \* announced heads the watcher has not received
    connected,      \* the subscription is up
    watcher,        \* the locals of runBlocks
    first,          \* history: number of the first head received since the process started
    tips, drops, failures, restarts

nodeVars == <<tip, tips>>
feedVars == <<feed, connected, drops>>
watcherVars == <<watcher, first, failures>>
watchVars == <<storeVars, nodeVars, feedVars, watcherVars, restarts>>

\* last: number of the previous head; head: the one being processed; n: the loop counter;
\* block: the block fetched and not yet saved.
Watcher ==
    [pc : {"wait", "fetch", "save"}, last : Height \cup {0}, head : Block \cup {NoBlock},
     n : Nat, block : Block \cup {NoBlock}]

Started == [pc |-> "wait", last |-> 0, head |-> NoBlock, n |-> 0, block |-> NoBlock]

Canonical == IF tip = NoBlock THEN {} ELSE Branch[tip]

WatchInit ==
    /\ StoreInit
    /\ tip = NoBlock
    /\ feed = <<>> /\ connected = FALSE
    /\ watcher = Started /\ first = 0
    /\ tips = 0 /\ drops = 0 /\ failures = 0 /\ restarts = 0
-----------------------------------------------------------------------------
(***************************************************************************)
(* The node and the subscription.                                          *)
(***************************************************************************)

\* The headers that are new to the canonical chain when b becomes its tip, oldest first.
NewHeaders(b) ==
    LET added == Branch[b] \ Canonical IN
    {s \in [1 .. Cardinality(added) -> added] :
        \A i, j \in DOMAIN s : i < j => HeightOf[s[i]] < HeightOf[s[j]]}

\* The node adopts b, of at least the old height, and announces the new headers.
NewTip(b) ==
    /\ tips < MaxTips /\ tips' = tips + 1
    /\ b \notin Canonical
    /\ tip # NoBlock => HeightOf[b] >= HeightOf[tip]
    /\ tip' = b
    /\ IF connected THEN \E s \in NewHeaders(b) : feed' = feed \o s
                    ELSE UNCHANGED feed
    /\ UNCHANGED <<storeVars, connected, drops, watcherVars, restarts>>

\* stream: subscribe succeeded.
Subscribe ==
    /\ ~connected /\ connected' = TRUE
    /\ UNCHANGED <<storeVars, nodeVars, feed, drops, watcherVars, restarts>>

\* pump returned: only what it had forwarded to out survives.
DropSubscription ==
    /\ connected /\ connected' = FALSE
    /\ drops < MaxDrops /\ drops' = drops + 1
    /\ feed' \in Prefixes(feed)
    /\ UNCHANGED <<storeVars, nodeVars, watcherVars, restarts>>
-----------------------------------------------------------------------------
(***************************************************************************)
(* The watcher.                                                            *)
(***************************************************************************)

\* Mutant of Start: no backfill.
StartAtHead(last, number) == number

\* The first block to fetch for a head.  The subtraction is unsigned.
Start(last, number) ==
    IF last # 0 /\ number > last + 1
    THEN Max({last + 1, (number + WordSize - MaxBackfill + 1) % WordSize})
    ELSE number

\* The end of the loop, also by break: last is the head's number whatever was saved.
Finished(w) ==
    [pc |-> "wait", last |-> HeightOf[w.head], head |-> w.head, n |-> 0, block |-> NoBlock]

\* The loop goes on at n, or ends because n is past the head.
LoopAt(w, n) ==
    IF n <= HeightOf[w.head] THEN [w EXCEPT !.pc = "fetch", !.n = n, !.block = NoBlock]
                             ELSE Finished(w)

Receive ==
    LET number == HeightOf[Head(feed)] IN
    /\ watcher.pc = "wait" /\ feed # <<>>
    /\ feed' = Tail(feed)
    /\ watcher' = LoopAt([watcher EXCEPT !.head = Head(feed)], Start(watcher.last, number))
    /\ first' = IF first = 0 THEN number ELSE first
    /\ UNCHANGED <<storeVars, nodeVars, connected, drops, failures, restarts>>

\* Mutant of Fetchable: the head too is fetched by number.
FetchableByNumber == {b \in Canonical : HeightOf[b] = watcher.n}

\* The head itself by hash, older blocks by number: whichever is canonical at this moment.
Fetchable ==
    IF watcher.n = HeightOf[watcher.head] THEN {watcher.head}
    ELSE {b \in Canonical : HeightOf[b] = watcher.n}

Fetch ==
    /\ watcher.pc = "fetch"
    /\ \E b \in Fetchable : watcher' = [watcher EXCEPT !.pc = "save", !.block = b]
    /\ UNCHANGED <<storeVars, nodeVars, feedVars, first, failures, restarts>>

\* BlockReceipts, then SaveBlock, which skips a block stored under the same hash.
Save(receipts) ==
    LET b == watcher.block IN
    /\ watcher.pc = "save"
    /\ \/ SaveBlock(b, receipts)
       \/ blocks[HeightOf[b]] = b /\ UNCHANGED storeVars
    /\ watcher' = LoopAt(watcher, watcher.n + 1)
    /\ UNCHANGED <<nodeVars, feedVars, first, restarts>>

SaveWithReceipts == Save(TRUE) /\ UNCHANGED failures

Failure == failures < MaxFailures /\ failures' = failures + 1

SaveWithoutReceipts == Save(FALSE) /\ Failure

\* A block that cannot be fetched or saved ends the loop.
Break ==
    /\ watcher.pc \in {"fetch", "save"}
    /\ Failure
    /\ watcher' = Finished(watcher)
    /\ UNCHANGED <<storeVars, nodeVars, feedVars, first, restarts>>

Watch == Receive \/ Fetch \/ SaveWithReceipts \/ SaveWithoutReceipts \/ Break
-----------------------------------------------------------------------------
\* The mempool feed.
Observe ==
    /\ \E t \in Tx : SaveTransaction(t)
    /\ UNCHANGED <<nodeVars, feedVars, watcherVars, restarts>>

\* maintenance.go marks dropped transactions only when a head arrived recently.
Maintain ==
    /\ watcher.head # NoBlock
    /\ \E old \in SUBSET Tx : MarkDroppedTransactions(old)
    /\ UNCHANGED <<nodeVars, feedVars, watcherVars, restarts>>

Restart ==
    /\ restarts < MaxRestarts /\ restarts' = restarts + 1
    /\ watcher' = Started /\ first' = 0
    /\ feed' = <<>> /\ connected' = FALSE
    /\ UNCHANGED <<storeVars, nodeVars, drops, failures>>

WatchNext ==
    \/ \E b \in Block : NewTip(b)
    \/ Subscribe \/ DropSubscription
    \/ Watch
    \/ Observe \/ Maintain
    \/ Restart

WatchSpec == WatchInit /\ [][WatchNext]_watchVars
-----------------------------------------------------------------------------
(***************************************************************************)
(* Properties.                                                             *)
(***************************************************************************)

\* The watcher's locals agree with its position in the loop.
WatchTypeOK ==
    /\ StoreTypeOK
    /\ tip \in Block \cup {NoBlock}
    /\ feed \in Seq(Block)
    /\ connected \in BOOLEAN
    /\ failures \in 0 .. MaxFailures
    /\ watcher \in Watcher
    /\ watcher.pc # "wait" => watcher.head # NoBlock /\ watcher.n \in 1 .. HeightOf[watcher.head]
    /\ watcher.pc = "save" <=> watcher.block # NoBlock

\* Every announcement has been processed and the node has announced nothing since.
Settled == watcher.pc = "wait" /\ feed = <<>> /\ tip # NoBlock /\ watcher.head = tip

\* The canonical blocks the watcher had a chance to see: from the first head of this process
\* on, and no further back than one backfill reaches.
Recent == {b \in Canonical : HeightOf[b] >= first /\ HeightOf[b] + MaxBackfill > HeightOf[tip]}

\* "PostgreSQL is always correct now": every recent height holds the canonical block.
BlocksCanonical == Settled => \A b \in Recent : blocks[HeightOf[b]] = b

NoForks == \A b, c \in Block : HeightOf[b] = HeightOf[c] => b = c

\* What the code keeps of it, for a reorg during a disconnect breaks it.  While no call
\* fails, reorgs overwrite what they replace in the order they are announced; and on a chain
\* without reorgs runBlocks backfills the blocks whose heads a dropped subscription lost.
RecentBlocksCanonical == failures = 0 /\ (drops = 0 \/ NoForks) => BlocksCanonical

Undisturbed == failures = 0 /\ drops = 0 /\ restarts = 0

\* Once settled, every transaction of a recent canonical block is mined at a canonical
\* height, whatever blocks had mined, replaced or dropped it before.
CanonicalTxsMined ==
    Undisturbed /\ Settled => \A b \in Recent : \A t \in TxsOf[b] :
        transactions[t].status = "mined" /\ t \in TxsOf[blocks[transactions[t].block]]

\* Once settled, every token transfer of a recent canonical block is stored, also when a
\* reorg moved it to a competing block.
CanonicalTransfersStored ==
    Undisturbed /\ Settled => \A b \in Recent : \A x \in TransfersOf[b] : tokenTransfers[x] # Null

\* The watcher gives up a head whose block is not stored only because a call failed or the
\* process stopped: gap arithmetic and loop bounds never skip it.
HeadStoredUnlessFailed ==
    [][\A b \in Block :
        watcher' # watcher /\ watcher'.pc = "wait" /\ watcher'.head = b
        => blocks'[HeightOf[b]] = b \/ failures' # failures]_watchVars
=============================================================================

------------------------- MODULE BlockWatcher_proofs -------------------------
(***************************************************************************)
(* The watcher's locals are typed, it writes the tables only through the   *)
(* transactions of ChainStore, whose invariants it therefore keeps, above  *)
(* the first blocks of a chain it skips no head, and once it has settled   *)
(* the tables hold the recent canonical blocks with their transactions     *)
(* and transfers, for any tree of blocks.                                  *)
(***************************************************************************)
EXTENDS BlockWatcher, ChainStore_proofs, FiniteSetTheorems, SequenceTheorems, WellFoundedInduction

\* The subtraction of Start does not wrap when the head's number reaches MaxBackfill - 1.
LEMMA NoWrap ==
    ASSUME NEW a \in Nat, NEW w \in Nat, a < w
    PROVE  (a + w) % w = a
OBVIOUS

LEMMA MaxOfTwo ==
    ASSUME NEW a \in Nat, NEW b \in Nat
    PROVE  Max({a, b}) \in {a, b} /\ Max({a, b}) >= a
<1>1. \E m \in {a, b} : \A y \in {a, b} : m >= y
  BY SMT
<1> QED
  BY <1>1 DEF Max

LEMMA StartTyped ==
    ASSUME NEW last \in Height \cup {0}, NEW number \in Height
    PROVE  Start(last, number) \in Nat \ {0}
<1> DEFINE back == (number + WordSize - MaxBackfill + 1) % WordSize
<1>1. last \in Nat /\ number \in Nat \ {0} /\ number + WordSize - MaxBackfill + 1 \in Nat
      /\ WordSize \in Nat \ {0}
  BY ChainAssumption, WatcherAssumption DEF ChainAssumption, WatcherAssumption
<1>2. back \in Nat
  BY <1>1
<1> HIDE DEF back
<1>3. Max({last + 1, back}) \in Nat \ {0}
  BY <1>1, <1>2, MaxOfTwo
<1>4. Start(last, number) = IF last # 0 /\ number > last + 1 THEN Max({last + 1, back}) ELSE number
  BY DEF Start, back
<1> QED
  BY <1>1, <1>3, <1>4

LEMMA StartAtMostHead ==
    ASSUME \A n \in Height : n + 1 >= MaxBackfill,
           NEW last \in Height \cup {0}, NEW number \in Height
    PROVE  Start(last, number) <= number
<1> DEFINE back == (number + WordSize - MaxBackfill + 1) % WordSize
<1>1. /\ last \in Nat /\ number \in Nat /\ MaxBackfill \in Nat \ {0} /\ WordSize \in Nat
      /\ number + MaxBackfill < WordSize /\ number + 1 >= MaxBackfill
  BY ChainAssumption, WatcherAssumption DEF ChainAssumption, WatcherAssumption
<1>2. back = number - MaxBackfill + 1
  <2> DEFINE a == number - MaxBackfill + 1
  <2>1. a \in Nat /\ a < WordSize /\ number + WordSize - MaxBackfill + 1 = a + WordSize
    BY <1>1
  <2> QED
    BY <1>1, <2>1, NoWrap
<1> HIDE DEF back
<1>3. ASSUME last # 0, number > last + 1 PROVE Max({last + 1, back}) <= number
  BY <1>1, <1>2, <1>3, MaxOfTwo
<1>4. Start(last, number) = IF last # 0 /\ number > last + 1 THEN Max({last + 1, back}) ELSE number
  BY DEF Start, back
<1> QED
  BY <1>1, <1>3, <1>4
-----------------------------------------------------------------------------
(***************************************************************************)
(* The watcher's side of the type invariant, and the step properties of    *)
(* the loop it is used for.                                                *)
(***************************************************************************)

WatcherOK(w) ==
    /\ w \in Watcher
    /\ w.pc # "wait" => w.head # NoBlock /\ w.n \in 1 .. HeightOf[w.head]
    /\ w.pc = "save" <=> w.block # NoBlock

\* The block fetched for the head's own number is the head.
HeadFetchedByHash ==
    watcher.pc = "save" /\ watcher.n = HeightOf[watcher.head] => watcher.block = watcher.head

LEMMA LoopTyped ==
    ASSUME NEW w \in Watcher, w.head \in Block, NEW n \in Nat \ {0}
    PROVE  WatcherOK(LoopAt(w, n)) /\ WatcherOK(Finished(w))
<1>1. HeightOf[w.head] \in Height /\ HeightOf[w.head] \in Nat /\ NoBlock \notin Block
  BY ChainAssumption DEF ChainAssumption
<1>2. WatcherOK(Finished(w))
  BY <1>1 DEF WatcherOK, Watcher, Finished
<1>3. ASSUME n <= HeightOf[w.head]
      PROVE  WatcherOK([w EXCEPT !.pc = "fetch", !.n = n, !.block = NoBlock])
  <2> DEFINE l == [w EXCEPT !.pc = "fetch", !.n = n, !.block = NoBlock]
  <2>1. l.pc = "fetch" /\ l.n = n /\ l.block = NoBlock /\ l.head = w.head
    BY DEF Watcher
  <2>2. l \in Watcher
    BY DEF Watcher
  <2>3. WatcherOK(l)
    <3> HIDE DEF l
    <3> QED
      BY <1>1, <1>3, <2>1, <2>2 DEF WatcherOK
  <2> QED
    BY <2>3
<1> QED
  BY <1>2, <1>3 DEF LoopAt

\* What a receive hands to the loop.
LEMMA ReceivedHead ==
    ASSUME WatchTypeOK, feed # <<>>
    PROVE  /\ Head(feed) \in Block
           /\ HeightOf[Head(feed)] \in Height
           /\ Tail(feed) \in Seq(Block)
           /\ [watcher EXCEPT !.head = Head(feed)] \in Watcher
           /\ Start(watcher.last, HeightOf[Head(feed)]) \in Nat \ {0}
<1>1. Head(feed) \in Block /\ Tail(feed) \in Seq(Block)
  BY DEF WatchTypeOK
<1>2. HeightOf[Head(feed)] \in Height
  BY <1>1, ChainAssumption DEF ChainAssumption
<1>3. watcher.last \in Height \cup {0} /\ [watcher EXCEPT !.head = Head(feed)] \in Watcher
  BY <1>1 DEF WatchTypeOK, Watcher
<1> QED
  BY <1>1, <1>2, <1>3, StartTyped

\* Every transaction the watcher, the mempool feed and the maintenance run are ChainStore's.
LEMMA TablesStep ==
    ASSUME WatchTypeOK, [WatchNext]_watchVars
    PROVE  [StoreNext]_storeVars
<1>1. ASSUME NEW receipts \in BOOLEAN, Save(receipts) PROVE [StoreNext]_storeVars
  <2>1. watcher.block \in Block
    BY <1>1 DEF Save, WatchTypeOK, Watcher
  <2> QED
    BY <1>1, <2>1 DEF Save, StoreNext
<1>2. CASE Receive \/ Fetch \/ Break
  BY <1>2 DEF Receive, Fetch, Break
<1>3. CASE SaveWithReceipts \/ SaveWithoutReceipts
  BY <1>1, <1>3 DEF SaveWithReceipts, SaveWithoutReceipts
<1>4. CASE Observe \/ Maintain
  BY <1>4 DEF Observe, Maintain, StoreNext
<1>5. CASE Subscribe \/ DropSubscription \/ Restart \/ \E b \in Block : NewTip(b)
  BY <1>5 DEF Subscribe, DropSubscription, Restart, NewTip
<1>6. CASE UNCHANGED watchVars
  BY <1>6 DEF watchVars, storeVars
<1> QED
  BY <1>2, <1>3, <1>4, <1>5, <1>6 DEF WatchNext, Watch

LEMMA NewHeadersTyped ==
    ASSUME tip \in Block \cup {NoBlock}, NEW b \in Block, NEW s \in NewHeaders(b)
    PROVE  s \in Seq(Block)
<1> DEFINE added == Branch[b] \ Canonical
<1>1. added \in SUBSET Block /\ IsFiniteSet(Block)
  BY WatcherAssumption DEF WatcherAssumption
<1>2. Cardinality(added) \in Nat
  BY <1>1, FS_Subset, FS_CardinalityType
<1>3. s \in [1 .. Cardinality(added) -> added]
  BY DEF NewHeaders
<1> HIDE DEF added
<1> QED
  BY <1>1, <1>2, <1>3

LEMMA FetchableTyped ==
    ASSUME WatchTypeOK, watcher.pc = "fetch", NEW b \in Fetchable
    PROVE  b \in Block
<1>1. Canonical \subseteq Block
  BY WatcherAssumption DEF WatcherAssumption, Canonical, WatchTypeOK
<1> QED
  BY <1>1 DEF Fetchable, WatchTypeOK, Watcher

\* A running loop has a head, and its next number is a height or one past the head.
LEMMA RunningLoop ==
    ASSUME WatchTypeOK, watcher.pc # "wait"
    PROVE  /\ watcher \in Watcher /\ watcher.head \in Block
           /\ HeightOf[watcher.head] \in Nat
           /\ watcher.n \in 1 .. HeightOf[watcher.head]
           /\ watcher.n + 1 \in Nat \ {0}
<1>1. watcher \in Watcher /\ watcher.head \in Block /\ watcher.n \in 1 .. HeightOf[watcher.head]
  BY DEF WatchTypeOK, Watcher
<1>2. HeightOf[watcher.head] \in Nat
  BY <1>1, ChainAssumption DEF ChainAssumption
<1> QED
  BY <1>1, <1>2

LEMMA WatchTypeInit == WatchInit => WatchTypeOK
<1> SUFFICES ASSUME WatchInit PROVE WatchTypeOK
  OBVIOUS
<1>1. WatcherOK(watcher)
  BY DEF WatchInit, Started, WatcherOK, Watcher
<1>2. failures \in 0 .. MaxFailures
  BY WatcherAssumption DEF WatchInit, WatcherAssumption
<1>3. tip \in Block \cup {NoBlock} /\ feed \in Seq(Block) /\ connected \in BOOLEAN
  BY EmptySeq DEF WatchInit
<1> QED
  BY <1>1, <1>2, <1>3, StoreTypeInit DEF WatchInit, WatchTypeOK, WatcherOK

LEMMA WatchTypeStep == WatchTypeOK /\ [WatchNext]_watchVars => WatchTypeOK'
<1> SUFFICES ASSUME WatchTypeOK, [WatchNext]_watchVars PROVE WatchTypeOK'
  OBVIOUS
<1>1. StoreTypeOK'
  BY TablesStep, StoreTypeStep DEF WatchTypeOK
<1>2. failures' \in 0 .. MaxFailures
  <2>1. failures' = failures \/ Failure
    BY DEF WatchNext, Watch, watchVars, watcherVars, NewTip, Subscribe, DropSubscription, Receive,
           Fetch, SaveWithReceipts, SaveWithoutReceipts, Break, Observe, Maintain, Restart
  <2>2. MaxFailures \in Nat
    BY WatcherAssumption DEF WatcherAssumption
  <2> QED
    BY <2>1, <2>2 DEF Failure, WatchTypeOK
<1> SUFFICES /\ tip' \in Block \cup {NoBlock}
             /\ feed' \in Seq(Block)
             /\ connected' \in BOOLEAN
             /\ WatcherOK(watcher')
  BY <1>1, <1>2 DEF WatchTypeOK, WatcherOK
<1> USE DEF nodeVars, feedVars, watcherVars, storeVars
<1>3. WatcherOK(watcher)
  BY DEF WatchTypeOK, WatcherOK
<1>4. ASSUME NEW b \in Block, NewTip(b)
      PROVE  tip' \in Block \cup {NoBlock} /\ feed' \in Seq(Block)
  <2>1. \A s \in NewHeaders(b) : feed \o s \in Seq(Block)
    BY NewHeadersTyped DEF WatchTypeOK
  <2> QED
    BY <1>4, <2>1 DEF NewTip, WatchTypeOK
<1>5. CASE \E b \in Block : NewTip(b)
  BY <1>3, <1>4, <1>5 DEF NewTip, WatchTypeOK
<1>6. CASE Subscribe
  BY <1>3, <1>6 DEF Subscribe, WatchTypeOK
<1>7. CASE DropSubscription
  <2>1. feed' \in Seq(Block)
    BY <1>7 DEF DropSubscription, Prefixes, WatchTypeOK
  <2> QED
    BY <1>3, <1>7, <2>1 DEF DropSubscription, WatchTypeOK
<1>8. CASE Receive
  <2>1. WatcherOK(watcher')
    BY <1>8, ReceivedHead, LoopTyped DEF Receive, Watcher, WatchTypeOK
  <2> QED
    BY <1>8, <2>1, ReceivedHead DEF Receive, WatchTypeOK
<1>9. CASE Fetch
  <2>1. PICK b \in Fetchable : watcher' = [watcher EXCEPT !.pc = "save", !.block = b]
    BY <1>9 DEF Fetch
  <2>2. b \in Block /\ b # NoBlock
    BY <1>9, FetchableTyped, ChainAssumption DEF Fetch, ChainAssumption
  <2>3. WatcherOK(watcher')
    BY <1>9, <2>1, <2>2 DEF Fetch, WatchTypeOK, WatcherOK, Watcher
  <2> QED
    BY <1>9, <2>3 DEF Fetch, WatchTypeOK
<1>10. CASE SaveWithReceipts \/ SaveWithoutReceipts
  <2>1. PICK receipts \in BOOLEAN : Save(receipts)
    BY <1>10 DEF SaveWithReceipts, SaveWithoutReceipts
  <2>2. WatcherOK(watcher')
    BY <2>1, RunningLoop, LoopTyped DEF Save
  <2> QED
    BY <2>1, <2>2 DEF Save, WatchTypeOK
<1>11. CASE Break
  <2>1. WatcherOK(watcher')
    BY <1>11, RunningLoop, LoopTyped DEF Break
  <2> QED
    BY <1>11, <2>1 DEF Break, WatchTypeOK
<1>12. CASE Observe \/ Maintain
  BY <1>3, <1>12 DEF Observe, Maintain, WatchTypeOK
<1>13. CASE Restart
  BY <1>13, EmptySeq DEF Restart, WatchTypeOK, Started, WatcherOK, Watcher
<1>14. CASE UNCHANGED watchVars
  BY <1>3, <1>14 DEF watchVars, WatchTypeOK
<1> QED
  BY <1>5, <1>6, <1>7, <1>8, <1>9, <1>10, <1>11, <1>12, <1>13, <1>14 DEF WatchNext, Watch

\* The watcher's locals, the feed and the tables are well formed for every chain, feed and
\* bound.
THEOREM WatchTypeCorrect == WatchSpec => []WatchTypeOK
BY WatchTypeInit, WatchTypeStep, PTL DEF WatchSpec

\* The watcher, the mempool feed and maintenance change the tables only by the transactions
\* of ChainStore: what is proved of StoreSpec holds of the composed system.
THEOREM WatchKeepsStore == WatchSpec => StoreSpec
<1>1. WatchInit => StoreInit
  BY DEF WatchInit
<1>2. WatchTypeOK /\ [WatchNext]_watchVars => [StoreNext]_storeVars
  BY TablesStep
<1> QED
  BY <1>1, <1>2, WatchTypeCorrect, PTL DEF WatchSpec, StoreSpec

\* Whatever the node, the feed and the process do, a mined row belongs to the block stored
\* at its height.
THEOREM WatchMinedRows == WatchSpec => []MinedRowInStoredBlock
BY WatchKeepsStore, StoreMinedRows
-----------------------------------------------------------------------------
LEMMA HeadFetchedInit == WatchInit => HeadFetchedByHash
BY DEF WatchInit, Started, HeadFetchedByHash

LEMMA HeadFetchedStep ==
    ASSUME WatchTypeOK, HeadFetchedByHash, [WatchNext]_watchVars
    PROVE  HeadFetchedByHash'
<1> USE DEF HeadFetchedByHash
<1>1. CASE Receive \/ SaveWithReceipts \/ SaveWithoutReceipts \/ Break \/ Restart
  <2>1. watcher'.pc # "save"
    <3>1. ASSUME NEW w \in Watcher, NEW n PROVE LoopAt(w, n).pc # "save" /\ Finished(w).pc # "save"
      BY DEF LoopAt, Finished, Watcher
    <3>2. CASE Receive
      BY <3>1, <3>2, ReceivedHead DEF Receive
    <3>3. CASE SaveWithReceipts \/ SaveWithoutReceipts \/ Break
      BY <3>1, <3>3 DEF SaveWithReceipts, SaveWithoutReceipts, Save, Break, WatchTypeOK
    <3>4. CASE Restart
      BY <3>4 DEF Restart, Started
    <3> QED
      BY <1>1, <3>2, <3>3, <3>4
  <2> QED
    BY <2>1
<1>2. CASE Fetch
  BY <1>2 DEF Fetch, Fetchable, WatchTypeOK, Watcher
<1>3. CASE Subscribe \/ DropSubscription \/ Observe \/ Maintain \/ \E b \in Block : NewTip(b)
  BY <1>3 DEF Subscribe, DropSubscription, Observe, Maintain, NewTip, watcherVars
<1>4. CASE UNCHANGED watchVars
  BY <1>4 DEF watchVars, watcherVars
<1> QED
  BY <1>1, <1>2, <1>3, <1>4 DEF WatchNext, Watch

\* Only saving the head ends a loop without a failed call.
LEMMA LoopEndsAtHead ==
    ASSUME \A n \in Height : n + 1 >= MaxBackfill,
           WatchTypeOK, HeadFetchedByHash, [WatchNext]_watchVars,
           NEW b \in Block, watcher' # watcher, watcher'.pc = "wait", watcher'.head = b
    PROVE  blocks'[HeightOf[b]] = b \/ failures' # failures
<1> USE DEF watcherVars
<1>1. CASE Receive
  <2> DEFINE number == HeightOf[Head(feed)]
             w == [watcher EXCEPT !.head = Head(feed)]
  <2>1. w \in Watcher /\ w.head = Head(feed) /\ number \in Height
    BY <1>1, ReceivedHead DEF Receive, WatchTypeOK, Watcher
  <2>2. Start(watcher.last, number) <= number
    BY <2>1, StartAtMostHead DEF WatchTypeOK, Watcher
  <2>3. LoopAt(w, Start(watcher.last, number)).pc = "fetch"
    BY <2>1, <2>2 DEF LoopAt, Watcher
  <2> QED
    BY <1>1, <2>3 DEF Receive
<1>2. ASSUME NEW receipts \in BOOLEAN, Save(receipts) PROVE blocks'[HeightOf[b]] = b
  <2>1. watcher.pc = "save" /\ watcher \in Watcher /\ watcher.block \in Block
    BY <1>2 DEF Save, WatchTypeOK, Watcher
  <2>2. watcher' = LoopAt(watcher, watcher.n + 1)
    BY <1>2 DEF Save
  <2>3. watcher.n + 1 > HeightOf[watcher.head] /\ watcher'.head = watcher.head
    BY <2>1, <2>2, RunningLoop DEF LoopAt, Finished, Watcher
  <2>4. watcher.block = b
    BY <2>1, <2>3, RunningLoop DEF HeadFetchedByHash
  <2>5. blocks \in [Height -> Block \cup {NoBlock}] /\ HeightOf[b] \in Height
    BY ChainAssumption DEF ChainAssumption, WatchTypeOK, StoreTypeOK
  <2> QED
    BY <1>2, <2>4, <2>5 DEF Save, SaveBlock, storeVars
<1>3. CASE SaveWithReceipts \/ SaveWithoutReceipts
  BY <1>2, <1>3 DEF SaveWithReceipts, SaveWithoutReceipts
<1>4. CASE Break
  <2>1. failures \in Nat
    BY WatcherAssumption DEF WatcherAssumption, WatchTypeOK
  <2> QED
    BY <1>4, <2>1 DEF Break, Failure
<1>5. CASE Fetch
  BY <1>5 DEF Fetch, WatchTypeOK, Watcher
<1>6. CASE Restart
  BY <1>6, ChainAssumption DEF Restart, Started, ChainAssumption
<1>7. CASE Subscribe \/ DropSubscription \/ Observe \/ Maintain \/ \E c \in Block : NewTip(c)
  BY <1>7 DEF Subscribe, DropSubscription, Observe, Maintain, NewTip
<1>8. CASE UNCHANGED watchVars
  BY <1>8 DEF watchVars
<1> QED
  BY <1>1, <1>3, <1>4, <1>5, <1>6, <1>7, <1>8 DEF WatchNext, Watch

\* When no block's number is below MaxBackfill - 1, no arithmetic and no loop bound skips a
\* head: it is stored, or a call failed.
THEOREM HeadNeverSkipped ==
    ASSUME \A n \in Height : n + 1 >= MaxBackfill
    PROVE  WatchSpec => HeadStoredUnlessFailed
<1>1. WatchTypeOK /\ HeadFetchedByHash /\ [WatchNext]_watchVars =>
        [\A b \in Block :
            watcher' # watcher /\ watcher'.pc = "wait" /\ watcher'.head = b
            => blocks'[HeightOf[b]] = b \/ failures' # failures]_watchVars
  BY LoopEndsAtHead
<1>2. WatchTypeOK /\ HeadFetchedByHash /\ [WatchNext]_watchVars => HeadFetchedByHash'
  BY HeadFetchedStep
<1> QED
  BY <1>1, <1>2, HeadFetchedInit, WatchTypeCorrect, PTL DEF WatchSpec, HeadStoredUnlessFailed
-----------------------------------------------------------------------------
(***************************************************************************)
(* The tree of blocks.                                                     *)
(***************************************************************************)

\* A nonempty set of naturals up to n has a smallest element.
LEMMA SmallestUpTo ==
    ASSUME NEW n \in Nat, NEW T \in SUBSET (0 .. n), T # {}
    PROVE  \E x \in T : \A y \in T : x <= y
<1> DEFINE Initial == {0 .. x : x \in T}
           Smaller == StrictSubsetOrdering(0 .. n)
<1>1. IsFiniteSet(0 .. n)
  BY FS_Interval
<1>2. IsWellFoundedOn(Smaller, FiniteSubsetsOf(0 .. n))
  BY <1>1, FS_StrictSubsetOrderingWellFounded
<1>3. Initial \subseteq FiniteSubsetsOf(0 .. n) /\ Initial # {}
  <2>1. \A x \in T : 0 .. x \subseteq 0 .. n
    OBVIOUS
  <2>2. \A x \in T : IsFiniteSet(0 .. x)
    BY FS_Interval
  <2> QED
    BY <2>1, <2>2 DEF FiniteSubsetsOf
<1>4. PICK I \in Initial : \A J \in Initial : ~(<<J, I>> \in Smaller)
  <2> HIDE DEF Smaller, Initial
  <2> QED
    BY <1>2, <1>3, WFMin
<1>5. PICK x \in T : I = 0 .. x
  BY <1>4
<1>6. ASSUME NEW y \in T PROVE x <= y
  <2> SUFFICES ASSUME y < x PROVE FALSE
    OBVIOUS
  <2>1. 0 .. y \subseteq 0 .. x /\ x \in 0 .. x /\ x \notin 0 .. y /\ 0 .. x \subseteq 0 .. n
    OBVIOUS
  <2>2. <<0 .. y, 0 .. x>> \in Smaller
    BY <2>1 DEF StrictSubsetOrdering
  <2> QED
    BY <1>4, <1>5, <2>2
<1> QED
  BY <1>6

LEMMA BlockFacts ==
    ASSUME NEW b \in Block
    PROVE  /\ HeightOf[b] \in Height /\ HeightOf[b] \in Nat \ {0} /\ b # NoBlock
           /\ Branch[b] \subseteq Block /\ b \in Branch[b] /\ IsFiniteSet(Branch[b])
           /\ ParentOf[b] = NoBlock => Branch[b] = {b}
           /\ ParentOf[b] # NoBlock => /\ ParentOf[b] \in Block
                                       /\ HeightOf[b] = HeightOf[ParentOf[b]] + 1
                                       /\ Branch[b] = {b} \cup Branch[ParentOf[b]]
           /\ ParentOf[b] = NoBlock => \A c \in Block : HeightOf[b] <= HeightOf[c]
<1>1. /\ HeightOf[b] \in Height /\ HeightOf[b] \in Nat \ {0} /\ b # NoBlock
      /\ Branch[b] \in SUBSET Block /\ IsFiniteSet(Block) /\ ParentOf[b] \in Block \cup {NoBlock}
  BY ChainAssumption, WatcherAssumption DEF ChainAssumption, WatcherAssumption
<1>2. IsFiniteSet(Branch[b])
  BY <1>1, FS_Subset
<1>3. Branch[b] = {b} \cup IF ParentOf[b] = NoBlock THEN {} ELSE Branch[ParentOf[b]]
  BY WatcherAssumption DEF WatcherAssumption
<1>4. /\ ParentOf[b] # NoBlock => HeightOf[b] = HeightOf[ParentOf[b]] + 1
      /\ ParentOf[b] = NoBlock => \A c \in Block : HeightOf[b] <= HeightOf[c]
  BY WatcherAssumption DEF WatcherAssumption
<1> QED
  BY <1>1, <1>2, <1>3, <1>4

\* The lowest block with a property.
LEMMA LowestBlock ==
    ASSUME NEW S \in SUBSET Block, S # {}
    PROVE  \E b \in S : \A c \in S : HeightOf[b] <= HeightOf[c]
<1> DEFINE T == {HeightOf[b] : b \in S}
<1>1. T \subseteq Nat
  BY BlockFacts
<1>2. PICK b \in S : TRUE
  OBVIOUS
<1>3. HeightOf[b] \in Nat /\ HeightOf[b] \in T \cap (0 .. HeightOf[b])
  BY <1>1, BlockFacts
<1> HIDE DEF T
<1>4. PICK n \in Nat : n = HeightOf[b]
  BY <1>3
<1>5. T \cap (0 .. n) \in SUBSET (0 .. n) /\ T \cap (0 .. n) # {}
  BY <1>3, <1>4
<1>6. PICK x \in T \cap (0 .. n) : \A y \in T \cap (0 .. n) : x <= y
  BY <1>4, <1>5, SmallestUpTo
<1>7. \A y \in T : x <= y
  BY <1>1, <1>4, <1>6
<1> QED
  BY <1>6, <1>7 DEF T

\* An ancestor is lower, and its ancestors are ancestors.
Rooted(b) ==
    \A c \in Branch[b] : /\ c # b => HeightOf[c] < HeightOf[b]
                         /\ Branch[c] \subseteq Branch[b]

LEMMA BranchRooted == \A b \in Block : Rooted(b)
<1> DEFINE Bad == {b \in Block : ~Rooted(b)}
<1> SUFFICES ASSUME Bad # {} PROVE FALSE
  OBVIOUS
<1>1. PICK b \in Bad : \A c \in Bad : HeightOf[b] <= HeightOf[c]
  BY LowestBlock
<1>2. CASE ParentOf[b] = NoBlock
  BY <1>1, <1>2, BlockFacts DEF Rooted
<1>3. CASE ParentOf[b] # NoBlock
  <2>1. /\ ParentOf[b] \in Block /\ Branch[b] = {b} \cup Branch[ParentOf[b]]
        /\ HeightOf[b] = HeightOf[ParentOf[b]] + 1 /\ HeightOf[ParentOf[b]] \in Nat
    BY <1>3, BlockFacts
  <2>2. ParentOf[b] \notin Bad
    BY <1>1, <2>1
  <2>3. Rooted(ParentOf[b])
    BY <2>1, <2>2
  <2>4. \A c \in Branch[ParentOf[b]] : HeightOf[c] <= HeightOf[ParentOf[b]] /\ HeightOf[c] \in Nat
    BY <2>1, <2>3, BlockFacts DEF Rooted
  <2>5. Rooted(b)
    BY <2>1, <2>3, <2>4 DEF Rooted
  <2> QED
    BY <2>5
<1> QED
  BY <1>2, <1>3

\* Two blocks of a branch: the lower one is an ancestor of the other.
LEMMA BranchLinear ==
    ASSUME NEW b \in Block, NEW c \in Branch[b], NEW d \in Branch[b], HeightOf[c] <= HeightOf[d]
    PROVE  c \in Branch[d]
<1> DEFINE Linear(e) == \A x, y \in Branch[e] : HeightOf[x] <= HeightOf[y] => x \in Branch[y]
           Bad == {e \in Block : ~Linear(e)}
<1> SUFFICES ASSUME Bad # {} PROVE FALSE
  OBVIOUS
<1>1. PICK e \in Bad : \A f \in Bad : HeightOf[e] <= HeightOf[f]
  BY LowestBlock
<1>2. CASE ParentOf[e] = NoBlock
  BY <1>1, <1>2, BlockFacts
<1>3. CASE ParentOf[e] # NoBlock
  <2>1. /\ ParentOf[e] \in Block /\ Branch[e] = {e} \cup Branch[ParentOf[e]]
        /\ HeightOf[e] = HeightOf[ParentOf[e]] + 1 /\ HeightOf[ParentOf[e]] \in Nat
    BY <1>3, BlockFacts
  <2>2. ParentOf[e] \notin Bad
    BY <1>1, <2>1
  <2>3. Linear(ParentOf[e])
    BY <2>1, <2>2
  <2>4. \A x \in Branch[ParentOf[e]] : HeightOf[x] <= HeightOf[ParentOf[e]] /\ HeightOf[x] \in Nat
    BY <2>1, BranchRooted, BlockFacts DEF Rooted
  <2>5. Linear(e)
    <3> SUFFICES ASSUME NEW x \in Branch[e], NEW y \in Branch[e], HeightOf[x] <= HeightOf[y]
                 PROVE  x \in Branch[y]
      OBVIOUS
    <3>1. CASE y = e
      BY <3>1
    <3>2. CASE y # e
      <4>1. y \in Branch[ParentOf[e]]
        BY <2>1, <3>2
      <4>2. x # e
        BY <2>1, <2>4, <4>1
      <4> QED
        BY <2>1, <2>3, <4>1, <4>2
    <3> QED
      BY <3>1, <3>2
  <2> HIDE DEF Linear
  <2> QED
    BY <2>5
<1> QED
  BY <1>2, <1>3

\* A branch has a block at every height down to its oldest one.
LEMMA BranchContiguous ==
    ASSUME NEW b \in Block, NEW a \in Branch[b], NEW n \in HeightOf[a] .. HeightOf[b]
    PROVE  \E e \in Branch[b] : HeightOf[e] = n
<1> DEFINE Gap(e) == n <= HeightOf[e] /\ a \in Branch[e] /\ \A f \in Branch[e] : HeightOf[f] # n
           Bad == {e \in Block : Gap(e)}
<1> SUFFICES ASSUME Bad # {} PROVE FALSE
  BY BlockFacts
<1>1. PICK e \in Bad : \A f \in Bad : HeightOf[e] <= HeightOf[f]
  BY LowestBlock
<1>2. n \in Nat /\ HeightOf[a] \in Nat /\ HeightOf[a] <= n /\ HeightOf[e] \in Nat /\ e \in Branch[e]
  BY <1>1, BlockFacts
<1>3. n # HeightOf[e] /\ n < HeightOf[e] /\ a # e
  BY <1>1, <1>2
<1>4. CASE ParentOf[e] = NoBlock
  BY <1>1, <1>3, <1>4, BlockFacts
<1>5. CASE ParentOf[e] # NoBlock
  <2>1. /\ ParentOf[e] \in Block /\ Branch[e] = {e} \cup Branch[ParentOf[e]]
        /\ HeightOf[e] = HeightOf[ParentOf[e]] + 1 /\ HeightOf[ParentOf[e]] \in Nat
    BY <1>5, BlockFacts
  <2>2. Gap(ParentOf[e])
    BY <1>1, <1>2, <1>3, <2>1
  <2>3. HeightOf[ParentOf[e]] < HeightOf[e]
    BY <2>1
  <2> HIDE DEF Gap
  <2> QED
    BY <1>1, <1>2, <2>1, <2>2, <2>3
<1> QED
  BY <1>4, <1>5

\* c extends the chain of p or replaces a part of it.
Follows(p, c) == c \notin Branch[p] /\ (ParentOf[c] = NoBlock \/ ParentOf[c] \in Branch[p])

\* The canonical chain has all ancestors of its blocks.
LEMMA CanonicalClosed ==
    ASSUME tip \in Block \cup {NoBlock}, NEW c \in Canonical
    PROVE  c \in Block /\ Branch[c] \subseteq Canonical
BY BranchRooted, BlockFacts DEF Canonical, Rooted

\* A new tip is announced with all its new ancestors, oldest first.
LEMMA Announced ==
    ASSUME tip \in Block \cup {NoBlock}, NEW b \in Block, b \notin Canonical, NEW s \in NewHeaders(b)
    PROVE  /\ s \in Seq(Block) /\ Len(s) \in Nat \ {0} /\ DOMAIN s = 1 .. Len(s)
           /\ \A i \in 1 .. Len(s) : s[i] \in Branch[b] \ Canonical
           /\ \A c \in Branch[b] \ Canonical : \E i \in 1 .. Len(s) : s[i] = c
           /\ \A i, j \in 1 .. Len(s) : i < j => HeightOf[s[i]] < HeightOf[s[j]]
           /\ s[Len(s)] = b
<1> DEFINE added == Branch[b] \ Canonical
<1>1. added \in SUBSET Block /\ IsFiniteSet(added) /\ b \in added
  BY BlockFacts, FS_Subset
<1>2. PICK n \in Nat : n = Cardinality(added)
  BY <1>1, FS_CardinalityType
<1>3. s \in [1 .. n -> added] /\ \A i, j \in 1 .. n : i < j => HeightOf[s[i]] < HeightOf[s[j]]
  BY <1>2 DEF NewHeaders
<1> HIDE DEF added
<1>4. \A i \in 1 .. n : s[i] \in Block /\ HeightOf[s[i]] \in Nat
  BY <1>1, <1>3, BlockFacts
<1>5. s \in Injection(1 .. n, added)
  <2> SUFFICES ASSUME NEW i \in 1 .. n, NEW j \in 1 .. n, s[i] = s[j], i # j PROVE FALSE
    BY <1>3 DEF Injection, IsInjective
  <2>1. i < j \/ j < i
    OBVIOUS
  <2> QED
    BY <1>3, <1>4, <2>1
<1>6. s \in Surjection(1 .. n, added)
  <2>1. Cardinality(1 .. n) = n
    BY <1>2, FS_Interval
  <2> QED
    BY <1>1, <1>2, <1>5, <2>1, FS_Injection
<1>7. \A c \in added : \E i \in 1 .. n : s[i] = c
  BY <1>6 DEF Surjection
<1>8. s \in Seq(Block) /\ Len(s) = n /\ DOMAIN s = 1 .. n /\ n # 0
  <2>1. s \in [1 .. n -> Block]
    BY <1>1, <1>3
  <2>2. \E i \in 1 .. n : s[i] = b
    BY <1>1, <1>7
  <2> QED
    BY <2>1, <2>2
<1>9. s[n] = b
  <2>1. PICK i \in 1 .. n : s[i] = b
    BY <1>1, <1>7
  <2>2. n \in 1 .. n /\ s[n] \in Branch[b]
    BY <1>3, <1>8 DEF added
  <2>3. s[n] = b \/ HeightOf[s[n]] < HeightOf[b]
    BY <2>2, BranchRooted DEF Rooted
  <2>4. i = n \/ HeightOf[b] < HeightOf[s[n]]
    BY <1>3, <2>1, <2>2
  <2>5. HeightOf[b] \in Nat /\ HeightOf[s[n]] \in Nat
    BY <1>4, <2>2, BlockFacts
  <2> QED
    BY <2>1, <2>3, <2>4, <2>5
<1> QED
  BY <1>3, <1>7, <1>8, <1>9 DEF added

LEMMA AnnouncedInLine ==
    ASSUME tip \in Block \cup {NoBlock}, NEW b \in Block, b \notin Canonical, NEW s \in NewHeaders(b)
    PROVE  /\ \A i \in 1 .. (Len(s) - 1) : Follows(s[i], s[i + 1])
           /\ tip # NoBlock => Follows(tip, s[1])
<1>1. /\ Len(s) \in Nat \ {0}
      /\ \A i \in 1 .. Len(s) : s[i] \in Branch[b] \ Canonical
      /\ \A c \in Branch[b] \ Canonical : \E i \in 1 .. Len(s) : s[i] = c
      /\ \A i, j \in 1 .. Len(s) : i < j => HeightOf[s[i]] < HeightOf[s[j]]
  BY Announced
<1> DEFINE n == Len(s)
<1> HIDE DEF n
<1>2. n \in Nat \ {0} /\ \A i \in 1 .. n : s[i] \in Block /\ HeightOf[s[i]] \in Nat /\ s[i] \in Branch[b]
  BY <1>1, BlockFacts DEF n
\* A parent is canonical or announced before.
<1>3. ASSUME NEW i \in 1 .. n, ParentOf[s[i]] # NoBlock
      PROVE  /\ ParentOf[s[i]] \in Branch[b] /\ ParentOf[s[i]] \in Block
             /\ HeightOf[s[i]] = HeightOf[ParentOf[s[i]]] + 1 /\ HeightOf[ParentOf[s[i]]] \in Nat
             /\ Branch[s[i]] = {s[i]} \cup Branch[ParentOf[s[i]]]
             /\ ParentOf[s[i]] \in Canonical \/ \E j \in 1 .. n : j < i /\ s[j] = ParentOf[s[i]]
  <2>1. /\ ParentOf[s[i]] \in Block /\ HeightOf[s[i]] = HeightOf[ParentOf[s[i]]] + 1
        /\ Branch[s[i]] = {s[i]} \cup Branch[ParentOf[s[i]]] /\ ParentOf[s[i]] \in Branch[ParentOf[s[i]]]
        /\ HeightOf[ParentOf[s[i]]] \in Nat
    BY <1>2, <1>3, BlockFacts
  <2>2. ParentOf[s[i]] \in Branch[b]
    BY <1>2, <2>1, BranchRooted DEF Rooted
  <2>3. ASSUME NEW j \in 1 .. n, s[j] = ParentOf[s[i]] PROVE j < i
    <3>1. HeightOf[s[j]] < HeightOf[s[i]]
      BY <2>1, <2>3
    <3>2. i # j /\ ~(i < j)
      BY <1>1, <1>2, <3>1 DEF n
    <3> QED
      BY <1>2, <3>2
  <2> QED
    BY <1>1, <2>1, <2>2, <2>3 DEF n
<1>4. ASSUME NEW i \in 1 .. (n - 1) PROVE Follows(s[i], s[i + 1])
  <2>1. i \in 1 .. n /\ i + 1 \in 1 .. n /\ i < i + 1
    BY <1>2
  <2>2. HeightOf[s[i]] < HeightOf[s[i + 1]]
    BY <1>1, <2>1 DEF n
  <2>3. s[i + 1] \notin Branch[s[i]]
    BY <1>2, <2>1, <2>2, BranchRooted DEF Rooted
  <2>4. ASSUME ParentOf[s[i + 1]] # NoBlock PROVE ParentOf[s[i + 1]] \in Branch[s[i]]
    <3> DEFINE p == ParentOf[s[i + 1]]
    <3>1. /\ p \in Branch[b] /\ HeightOf[s[i + 1]] = HeightOf[p] + 1 /\ HeightOf[p] \in Nat
          /\ p \in Canonical \/ \E j \in 1 .. n : j < i + 1 /\ s[j] = p
      BY <1>3, <2>1, <2>4
    <3> HIDE DEF p
    <3>2. s[i] \in Branch[p]
      <4>1. HeightOf[s[i]] <= HeightOf[p]
        BY <1>2, <2>1, <2>2, <3>1
      <4> QED
        BY <1>2, <2>1, <3>1, <4>1, BranchLinear
    <3>3. p \notin Canonical
      BY <1>1, <2>1, <3>2, CanonicalClosed DEF n
    <3>4. PICK j \in 1 .. n : j < i + 1 /\ s[j] = p
      BY <3>1, <3>3
    <3>5. HeightOf[p] <= HeightOf[s[i]]
      <4>1. j = i \/ j < i
        BY <3>4
      <4> QED
        BY <1>1, <1>2, <2>1, <3>1, <3>4, <4>1 DEF n
    <3>6. p \in Branch[s[i]]
      BY <1>2, <2>1, <3>1, <3>5, BranchLinear
    <3> QED
      BY <3>6 DEF p
  <2> QED
    BY <2>3, <2>4 DEF Follows
<1>5. ASSUME tip # NoBlock PROVE Follows(tip, s[1])
  <2>1. 1 \in 1 .. n /\ s[1] \notin Branch[tip]
    BY <1>1, <1>2, <1>5 DEF Canonical, n
  <2>2. ASSUME ParentOf[s[1]] # NoBlock PROVE ParentOf[s[1]] \in Branch[tip]
    <3>1. ~ \E j \in 1 .. n : j < 1
      OBVIOUS
    <3> QED
      BY <1>3, <1>5, <2>1, <2>2, <3>1 DEF Canonical
  <2> QED
    BY <2>1, <2>2 DEF Follows
<1> QED
  BY <1>4, <1>5 DEF n

\* The announced blocks reach every height from the first one on in order.
LEMMA AnnouncedHeights ==
    ASSUME tip \in Block \cup {NoBlock}, NEW b \in Block, b \notin Canonical, NEW s \in NewHeaders(b),
           NEW n \in HeightOf[s[1]] .. HeightOf[b]
    PROVE  \E j \in 1 .. Len(s) :
              /\ HeightOf[s[j]] = n /\ s[j] \notin Canonical
              /\ \A k \in 1 .. (j - 1) : HeightOf[s[k]] < n
<1>1. /\ Len(s) \in Nat \ {0}
      /\ \A i \in 1 .. Len(s) : s[i] \in Branch[b] \ Canonical
      /\ \A c \in Branch[b] \ Canonical : \E i \in 1 .. Len(s) : s[i] = c
      /\ \A i, j \in 1 .. Len(s) : i < j => HeightOf[s[i]] < HeightOf[s[j]]
  BY Announced
<1>2. s[1] \in Branch[b] /\ s[1] \notin Canonical /\ s[1] \in Block
  BY <1>1, BlockFacts
<1>3. PICK e \in Branch[b] : HeightOf[e] = n
  BY <1>2, BranchContiguous
<1>4. e \notin Canonical
  <2>1. HeightOf[s[1]] <= HeightOf[e]
    BY <1>2, <1>3, BlockFacts
  <2>2. s[1] \in Branch[e]
    BY <1>2, <2>1, BranchLinear
  <2> QED
    BY <1>2, <2>2, CanonicalClosed
<1>5. PICK j \in 1 .. Len(s) : s[j] = e
  BY <1>1, <1>4
<1>6. \A k \in 1 .. (j - 1) : HeightOf[s[k]] < n
  BY <1>1, <1>3, <1>5
<1> QED
  BY <1>3, <1>4, <1>5, <1>6

\* A later block is above the last height of its chain by at most one.
LEMMA FollowsHeight ==
    ASSUME NEW p \in Block, NEW c \in Block, Follows(p, c)
    PROVE  /\ HeightOf[c] <= HeightOf[p] + 1
           /\ \A b \in Branch[c] : b # c => b \in Branch[p]
<1>1. HeightOf[c] \in Nat /\ HeightOf[p] \in Nat
  BY BlockFacts
<1>2. CASE ParentOf[c] = NoBlock
  BY <1>1, <1>2, BlockFacts
<1>3. CASE ParentOf[c] # NoBlock
  <2> DEFINE q == ParentOf[c]
  <2>1. /\ q \in Block /\ q \in Branch[p] /\ HeightOf[q] \in Nat
        /\ HeightOf[c] = HeightOf[q] + 1 /\ Branch[c] = {c} \cup Branch[q]
    BY <1>3, BlockFacts DEF Follows
  <2> HIDE DEF q
  <2>2. (q = p \/ HeightOf[q] < HeightOf[p]) /\ Branch[q] \subseteq Branch[p]
    BY <2>1, BranchRooted DEF Rooted
  <2> QED
    BY <1>1, <2>1, <2>2
<1> QED
  BY <1>2, <1>3
-----------------------------------------------------------------------------
(***************************************************************************)
(* While no subscription drops, the feed continues the watcher's head to   *)
(* the tip without a gap, and every height a reorg takes away from the     *)
(* chain of one announced block is announced again after it.               *)
(***************************************************************************)

\* The heights of p's chain from f[i] on are announced from f[i] on with other blocks, each
\* before any greater one.
Overtakes(p, f, i) ==
    \A h \in HeightOf[f[i]] .. HeightOf[p] : \E j \in i .. Len(f) :
        /\ HeightOf[f[j]] = h /\ f[j] \notin Branch[p]
        /\ \A k \in i .. (j - 1) : HeightOf[f[k]] < h

Linked(p, f, i) == Follows(p, f[i]) /\ Overtakes(p, f, i)

FeedLinked ==
    /\ feed # <<>> \/ watcher.head # NoBlock => connected
    /\ feed = <<>> /\ watcher.head # NoBlock => watcher.head = tip
    /\ feed # <<>> => feed[Len(feed)] = tip
    /\ feed # <<>> /\ watcher.head # NoBlock => Linked(watcher.head, feed, 1)
    /\ \A i \in 1 .. (Len(feed) - 1) : Linked(feed[i], feed, i + 1)

\* Concatenation and Tail, element by element.
LEMMA Joined ==
    ASSUME NEW f \in Seq(Block), NEW s \in Seq(Block)
    PROVE  /\ f \o s \in Seq(Block) /\ Len(f \o s) = Len(f) + Len(s)
           /\ Len(f) \in Nat /\ Len(s) \in Nat
           /\ \A i \in 1 .. Len(f) : (f \o s)[i] = f[i]
           /\ \A i \in 1 .. Len(s) : (f \o s)[Len(f) + i] = s[i]
OBVIOUS

LEMMA Tailed ==
    ASSUME NEW f \in Seq(Block), f # <<>>
    PROVE  /\ Tail(f) \in Seq(Block) /\ Len(Tail(f)) = Len(f) - 1 /\ Len(f) \in Nat \ {0}
           /\ Head(f) = f[1] /\ f[1] \in Block
           /\ \A i \in 1 .. (Len(f) - 1) : Tail(f)[i] = f[i + 1]
OBVIOUS

LEMMA LinkedAppend ==
    ASSUME NEW f \in Seq(Block), NEW s \in Seq(Block), NEW p \in Block, NEW i \in 1 .. Len(f),
           Linked(p, f, i)
    PROVE  Linked(p, f \o s, i)
<1> DEFINE g == f \o s
<1>1. /\ Len(g) \in Nat /\ Len(f) \in Nat /\ Len(f) <= Len(g)
      /\ \A j \in 1 .. Len(f) : g[j] = f[j]
  BY Joined
<1> HIDE DEF g
<1>2. g[i] = f[i]
  BY <1>1
<1>3. ASSUME NEW h \in HeightOf[g[i]] .. HeightOf[p]
      PROVE  \E j \in i .. Len(g) : /\ HeightOf[g[j]] = h /\ g[j] \notin Branch[p]
                                    /\ \A k \in i .. (j - 1) : HeightOf[g[k]] < h
  <2>1. PICK j \in i .. Len(f) : /\ HeightOf[f[j]] = h /\ f[j] \notin Branch[p]
                                 /\ \A k \in i .. (j - 1) : HeightOf[f[k]] < h
    BY <1>2, <1>3 DEF Linked, Overtakes
  <2>2. j \in i .. Len(g) /\ g[j] = f[j] /\ \A k \in i .. (j - 1) : g[k] = f[k]
    BY <1>1
  <2> QED
    BY <2>1, <2>2
<1>4. Linked(p, g, i)
  BY <1>2, <1>3 DEF Linked, Overtakes
<1> QED
  BY <1>4 DEF g

LEMMA LinkedTail ==
    ASSUME NEW f \in Seq(Block), f # <<>>, NEW p \in Block, NEW i \in 2 .. Len(f),
           Linked(p, f, i)
    PROVE  Linked(p, Tail(f), i - 1)
<1> DEFINE g == Tail(f)
<1>1. /\ Len(g) \in Nat /\ Len(f) \in Nat /\ Len(g) = Len(f) - 1
      /\ \A j \in 1 .. Len(g) : g[j] = f[j + 1]
  BY Tailed
<1> HIDE DEF g
<1>2. g[i - 1] = f[i] /\ i - 1 \in 1 .. Len(g)
  BY <1>1
<1>3. ASSUME NEW h \in HeightOf[g[i - 1]] .. HeightOf[p]
      PROVE  \E j \in (i - 1) .. Len(g) : /\ HeightOf[g[j]] = h /\ g[j] \notin Branch[p]
                                          /\ \A k \in (i - 1) .. (j - 1) : HeightOf[g[k]] < h
  <2>1. PICK j \in i .. Len(f) : /\ HeightOf[f[j]] = h /\ f[j] \notin Branch[p]
                                 /\ \A k \in i .. (j - 1) : HeightOf[f[k]] < h
    BY <1>2, <1>3 DEF Linked, Overtakes
  <2>2. j - 1 \in (i - 1) .. Len(g) /\ g[j - 1] = f[j]
    BY <1>1
  <2>3. ASSUME NEW k \in (i - 1) .. (j - 1 - 1) PROVE HeightOf[g[k]] < h
    <3>1. k \in 1 .. Len(g) /\ k + 1 \in i .. (j - 1)
      BY <1>1
    <3> QED
      BY <1>1, <2>1, <3>1
  <2> QED
    BY <2>1, <2>2, <2>3
<1>4. Linked(p, g, i - 1)
  BY <1>2, <1>3 DEF Linked, Overtakes
<1> QED
  BY <1>4 DEF g

\* The headers of a new tip follow the old tip and each other, behind whatever is in the feed.
LEMMA AnnouncedLinked ==
    ASSUME tip \in Block \cup {NoBlock}, NEW b \in Block, b \notin Canonical, NEW s \in NewHeaders(b),
           tip # NoBlock => HeightOf[b] >= HeightOf[tip],
           NEW f \in Seq(Block)
    PROVE  /\ tip # NoBlock => Linked(tip, f \o s, Len(f) + 1)
           /\ \A i \in 1 .. (Len(s) - 1) : Linked(s[i], f \o s, Len(f) + i + 1)
<1> DEFINE g == f \o s
           m == Len(f)
           n == Len(s)
<1>1. /\ s \in Seq(Block) /\ n \in Nat \ {0}
      /\ \A i \in 1 .. n : s[i] \in Branch[b] \ Canonical
      /\ \A i, j \in 1 .. n : i < j => HeightOf[s[i]] < HeightOf[s[j]]
  BY Announced
<1>2. Len(g) = m + n /\ m \in Nat /\ \A i \in 1 .. n : g[m + i] = s[i]
  BY <1>1, Joined
<1>3. /\ \A i \in 1 .. (n - 1) : Follows(s[i], s[i + 1])
      /\ tip # NoBlock => Follows(tip, s[1])
  BY AnnouncedInLine
<1>4. \A h \in HeightOf[s[1]] .. HeightOf[b] : \E j \in 1 .. n :
         HeightOf[s[j]] = h /\ s[j] \notin Canonical /\ \A k \in 1 .. (j - 1) : HeightOf[s[k]] < h
  BY AnnouncedHeights
<1>5. \A i \in 1 .. n : s[i] \in Block /\ HeightOf[s[i]] \in Nat
  BY <1>1, BlockFacts
<1> HIDE DEF g, m, n
<1>6. ASSUME tip # NoBlock PROVE Linked(tip, g, m + 1)
  <2>1. g[m + 1] = s[1] /\ Canonical = Branch[tip] /\ HeightOf[tip] \in Nat /\ HeightOf[b] \in Nat
    BY <1>1, <1>2, <1>6, BlockFacts DEF Canonical
  <2>2. ASSUME NEW h \in HeightOf[g[m + 1]] .. HeightOf[tip]
        PROVE  \E j \in (m + 1) .. Len(g) : /\ HeightOf[g[j]] = h /\ g[j] \notin Branch[tip]
                                            /\ \A k \in (m + 1) .. (j - 1) : HeightOf[g[k]] < h
    <3>0. h \in HeightOf[s[1]] .. HeightOf[b]
      BY <1>1, <1>5, <1>6, <2>1
    <3>1. PICK j \in 1 .. n : /\ HeightOf[s[j]] = h /\ s[j] \notin Canonical
                              /\ \A k \in 1 .. (j - 1) : HeightOf[s[k]] < h
      BY <1>4, <3>0
    <3>2. PICK i \in (m + 1) .. Len(g) : i = m + j
      BY <1>1, <1>2
    <3>3. g[i] = s[j]
      BY <1>2, <3>2
    <3>4. ASSUME NEW k \in (m + 1) .. (i - 1) PROVE HeightOf[g[k]] < h
      <4>1. k - m \in 1 .. (j - 1) /\ k - m \in 1 .. n /\ m + (k - m) = k
        BY <1>1, <1>2, <3>2
      <4>2. g[k] = s[k - m]
        BY <1>2, <4>1
      <4> QED
        BY <3>1, <4>1, <4>2
    <3> QED
      BY <2>1, <3>1, <3>3, <3>4
  <2> QED
    BY <1>3, <1>6, <2>1, <2>2 DEF Linked, Overtakes
<1>7. ASSUME NEW i \in 1 .. (n - 1) PROVE Linked(s[i], g, m + i + 1)
  <2>1. i \in 1 .. n /\ i + 1 \in 1 .. n /\ i < i + 1 /\ m + i + 1 = m + (i + 1)
    BY <1>1, <1>2
  <2>2. g[m + i + 1] = s[i + 1] /\ HeightOf[s[i]] < HeightOf[s[i + 1]]
    BY <1>1, <1>2, <2>1
  <2>3. HeightOf[g[m + i + 1]] .. HeightOf[s[i]] = {}
    BY <1>5, <2>1, <2>2
  <2> QED
    BY <1>3, <2>2, <2>3 DEF Linked, Overtakes
<1> QED
  BY <1>6, <1>7 DEF g, m, n

LEMMA FeedLinkedNewTip ==
    ASSUME WatchTypeOK, FeedLinked, NEW b \in Block, NewTip(b)
    PROVE  FeedLinked'
<1>1. tip' = b /\ b \notin Canonical /\ (tip # NoBlock => HeightOf[b] >= HeightOf[tip])
      /\ tip \in Block \cup {NoBlock} /\ feed \in Seq(Block) /\ watcher.head \in Block \cup {NoBlock}
      /\ watcher' = watcher /\ connected' = connected
  BY DEF NewTip, WatchTypeOK, Watcher, watcherVars
<1>2. CASE ~connected
  <2>1. feed' = feed /\ feed = <<>> /\ watcher.head = NoBlock
    BY <1>2 DEF NewTip, FeedLinked
  <2>2. 1 .. (Len(feed) - 1) = {}
    BY <2>1
  <2> QED
    BY <1>1, <2>1, <2>2 DEF FeedLinked
<1>3. CASE connected
  <2>1. PICK s \in NewHeaders(b) : feed' = feed \o s
    BY <1>3 DEF NewTip
  <2> DEFINE g == feed \o s
             m == Len(feed)
             n == Len(s)
  <2>2. s \in Seq(Block) /\ n \in Nat \ {0} /\ s[n] = b
    BY <1>1, Announced
  <2>3. /\ Len(g) = m + n /\ m \in Nat /\ g \in Seq(Block)
        /\ \A i \in 1 .. m : g[i] = feed[i]
        /\ \A i \in 1 .. n : g[m + i] = s[i]
    BY <1>1, <2>2, Joined
  <2>4. /\ tip # NoBlock => Linked(tip, g, m + 1)
        /\ \A i \in 1 .. (n - 1) : Linked(s[i], g, m + i + 1)
    BY <1>1, AnnouncedLinked
  <2>5. /\ \A p \in Block, i \in 1 .. m : Linked(p, feed, i) => Linked(p, g, i)
        /\ \A i \in 1 .. m : feed[i] \in Block
        /\ feed = <<>> <=> m = 0
    BY <1>1, <2>2, LinkedAppend
  <2> HIDE DEF g, m, n
  <2>6. g # <<>> /\ g[Len(g)] = b
    BY <2>2, <2>3
  <2>7. ASSUME watcher.head # NoBlock PROVE Linked(watcher.head, g, 1)
    <3>1. CASE m = 0
      <4>1. watcher.head = tip /\ tip # NoBlock /\ m + 1 = 1
        BY <2>5, <2>7, <3>1 DEF FeedLinked
      <4> QED
        BY <2>4, <4>1
    <3>2. CASE m # 0
      <4>1. 1 \in 1 .. m /\ Linked(watcher.head, feed, 1)
        BY <2>3, <2>5, <2>7, <3>2 DEF FeedLinked
      <4> QED
        BY <1>1, <2>5, <2>7, <4>1
    <3> QED
      BY <3>1, <3>2
  <2>8. ASSUME NEW i \in 1 .. (Len(g) - 1) PROVE Linked(g[i], g, i + 1)
    <3>1. CASE i < m
      <4>1. i \in 1 .. m /\ i + 1 \in 1 .. m /\ i \in 1 .. (m - 1)
        BY <2>3, <3>1
      <4>2. Linked(feed[i], feed, i + 1)
        BY <4>1 DEF FeedLinked, m
      <4> QED
        BY <2>3, <2>5, <4>1, <4>2
    <3>2. CASE i = m
      <4>1. feed # <<>> /\ i \in 1 .. m
        BY <2>3, <2>5, <3>2
      <4>2. g[i] = tip
        BY <2>3, <3>2, <4>1 DEF FeedLinked, m
      <4>3. tip # NoBlock
        BY <2>3, <2>5, <4>1, <4>2, BlockFacts
      <4> QED
        BY <2>4, <3>2, <4>2, <4>3
    <3>3. CASE i > m
      <4>1. i - m \in 1 .. (n - 1) /\ i - m \in 1 .. n /\ m + (i - m) = i /\ m + (i - m) + 1 = i + 1
        BY <2>2, <2>3, <3>3
      <4>2. Linked(s[i - m], g, m + (i - m) + 1) /\ g[m + (i - m)] = s[i - m]
        BY <2>3, <2>4, <4>1
      <4> QED
        BY <4>1, <4>2
    <3> QED
      BY <2>3, <3>1, <3>2, <3>3
  <2>9. feed' = g
    BY <2>1 DEF g
  <2> QED
    BY <1>1, <1>3, <2>6, <2>7, <2>8, <2>9 DEF FeedLinked
<1> QED
  BY <1>2, <1>3

\* The loop keeps its head, and goes on or ends with the head's number as last.
LEMMA LoopFields ==
    ASSUME NEW w \in Watcher, NEW n \in Nat
    PROVE  /\ LoopAt(w, n).head = w.head
           /\ n <= HeightOf[w.head] => /\ LoopAt(w, n).pc = "fetch" /\ LoopAt(w, n).n = n
                                       /\ LoopAt(w, n).last = w.last
           /\ ~(n <= HeightOf[w.head]) => /\ LoopAt(w, n).pc = "wait"
                                          /\ LoopAt(w, n).last = HeightOf[w.head]
BY DEF LoopAt, Finished, Watcher

LEMMA ReceiveFields ==
    ASSUME WatchTypeOK, Receive
    PROVE  LET c == feed[1]
               n == Start(watcher.last, HeightOf[c]) IN
           /\ watcher.pc = "wait" /\ feed # <<>> /\ feed \in Seq(Block) /\ c \in Block
           /\ feed' = Tail(feed) /\ watcher'.head = c
           /\ n \in Nat \ {0} /\ watcher.last \in Height \cup {0}
           /\ n <= HeightOf[c] => watcher'.pc = "fetch" /\ watcher'.n = n
           /\ first' = IF first = 0 THEN HeightOf[c] ELSE first
<1> DEFINE c == feed[1]
           w == [watcher EXCEPT !.head = c]
           n == Start(watcher.last, HeightOf[c])
<1>1. watcher.pc = "wait" /\ feed # <<>> /\ feed \in Seq(Block) /\ watcher.last \in Height \cup {0}
  BY DEF Receive, WatchTypeOK, Watcher
<1>2. Head(feed) = c /\ c \in Block
  BY <1>1, Tailed
<1>3. w \in Watcher /\ n \in Nat \ {0}
  BY <1>1, <1>2, ReceivedHead
<1>4. w.head = c
  BY <1>1 DEF WatchTypeOK, Watcher
<1>5. /\ feed' = Tail(feed) /\ watcher' = LoopAt(w, n)
      /\ first' = IF first = 0 THEN HeightOf[c] ELSE first
  BY <1>2 DEF Receive
<1> HIDE DEF w, n, c
<1>6. /\ LoopAt(w, n).head = c
      /\ n <= HeightOf[c] => LoopAt(w, n).pc = "fetch" /\ LoopAt(w, n).n = n
  BY <1>3, <1>4, LoopFields
<1> QED
  BY <1>1, <1>2, <1>3, <1>5, <1>6 DEF n, c

\* What fetching and saving do to the watcher.
LEMMA FetchFields ==
    ASSUME WatchTypeOK, Fetch
    PROVE  /\ watcher.pc = "fetch" /\ watcher'.pc = "save" /\ watcher'.head = watcher.head
           /\ watcher'.n = watcher.n /\ watcher'.last = watcher.last
           /\ watcher'.block \in Fetchable
<1>1. PICK b \in Fetchable : watcher' = [watcher EXCEPT !.pc = "save", !.block = b]
  BY DEF Fetch
<1> QED
  BY <1>1 DEF Fetch, WatchTypeOK, Watcher

LEMMA SaveFields ==
    ASSUME WatchTypeOK, SaveWithReceipts
    PROVE  LET b == watcher.block IN
           /\ watcher.pc = "save" /\ b \in Block /\ watcher.head \in Block
           /\ watcher.n \in 1 .. HeightOf[watcher.head]
           /\ SaveBlock(b, TRUE) \/ (blocks[HeightOf[b]] = b /\ UNCHANGED storeVars)
           /\ blocks' = [blocks EXCEPT ![HeightOf[b]] = b]
           /\ watcher'.head = watcher.head
           /\ watcher.n # HeightOf[watcher.head] =>
                 watcher'.pc = "fetch" /\ watcher'.n = watcher.n + 1
           /\ watcher.n = HeightOf[watcher.head] =>
                 watcher'.pc = "wait" /\ watcher'.last = HeightOf[watcher.head]
           /\ first' = first /\ feed' = feed /\ tip' = tip
<1>1. watcher.pc = "save" /\ watcher.block \in Block /\ watcher \in Watcher
  BY DEF SaveWithReceipts, Save, WatchTypeOK, Watcher
<1>2. /\ watcher.head \in Block /\ HeightOf[watcher.head] \in Nat
      /\ watcher.n \in 1 .. HeightOf[watcher.head] /\ watcher.n + 1 \in Nat
  BY <1>1, RunningLoop
<1>3. watcher' = LoopAt(watcher, watcher.n + 1) /\ first' = first /\ feed' = feed /\ tip' = tip
  BY DEF SaveWithReceipts, Save, nodeVars, feedVars
<1>4. /\ watcher.n + 1 <= HeightOf[watcher.head] <=> watcher.n # HeightOf[watcher.head]
      /\ HeightOf[watcher.block] \in Height
  BY <1>1, <1>2, BlockFacts
<1>5. /\ \/ SaveBlock(watcher.block, TRUE)
         \/ blocks[HeightOf[watcher.block]] = watcher.block /\ UNCHANGED storeVars
      /\ blocks' = [blocks EXCEPT ![HeightOf[watcher.block]] = watcher.block]
  BY <1>4 DEF SaveWithReceipts, Save, SaveBlock, storeVars, WatchTypeOK, StoreTypeOK
<1> QED
  BY <1>1, <1>2, <1>3, <1>4, <1>5, LoopFields

\* Steps that leave the watcher's loop, its feed and the blocks alone.
Elsewhere == UNCHANGED <<tip, feed, watcher, first, blocks, failures, restarts>>

LEMMA ElsewhereSteps ==
    ASSUME Subscribe \/ Observe \/ Maintain
    PROVE  Elsewhere /\ drops' = drops /\ connected' \in {connected, TRUE}
<1>1. CASE Subscribe
  BY <1>1 DEF Subscribe, Elsewhere, storeVars, nodeVars, watcherVars
<1>2. CASE Observe \/ Maintain
  <2>1. UNCHANGED <<nodeVars, feedVars, watcherVars, restarts>> /\ blocks' = blocks
    BY <1>2 DEF Observe, Maintain, SaveTransaction, MarkDroppedTransactions
  <2> QED
    BY <2>1 DEF Elsewhere, nodeVars, feedVars, watcherVars
<1> QED
  BY <1>1, <1>2

\* The counters never go back to 0.
CountersOK == {drops, restarts} \subseteq Nat /\ first \in Height \cup {0}

LEMMA CountersInit == WatchInit => CountersOK
BY DEF WatchInit, CountersOK

LEMMA CountersStep ==
    ASSUME WatchTypeOK, CountersOK, [WatchNext]_watchVars
    PROVE  /\ CountersOK'
           /\ drops' = 0 => drops = 0 /\ ~DropSubscription
           /\ failures' = 0 => failures = 0 /\ ~SaveWithoutReceipts /\ ~Break
           /\ restarts' = 0 => restarts = 0 /\ ~Restart
<1>1. failures \in Nat /\ drops \in Nat /\ restarts \in Nat
  BY WatcherAssumption DEF WatchTypeOK, WatcherAssumption, CountersOK
<1>2. \A i \in Nat : i + 1 \in Nat /\ i + 1 # 0
  OBVIOUS
<1>3. DropSubscription \/ drops' = drops
  BY DEF WatchNext, Watch, watchVars, feedVars, NewTip, Subscribe, Receive, Fetch, SaveWithReceipts,
         SaveWithoutReceipts, Save, Break, Observe, Maintain, Restart
<1>4. Failure \/ (failures' = failures /\ ~SaveWithoutReceipts /\ ~Break)
  BY <1>1, <1>2
     DEF WatchNext, Watch, watchVars, watcherVars, NewTip, Subscribe, DropSubscription, Receive, Fetch,
         SaveWithReceipts, SaveWithoutReceipts, Break, Observe, Maintain, Restart
<1>5. Restart \/ restarts' = restarts
  BY DEF WatchNext, Watch, watchVars, NewTip, Subscribe, DropSubscription, Receive, Fetch,
         SaveWithReceipts, SaveWithoutReceipts, Save, Break, Observe, Maintain
<1>6. CASE Receive
  <2>1. first' \in Height \cup {0}
    BY <1>6, ReceiveFields, BlockFacts DEF CountersOK
  <2> QED
    BY <1>1, <1>2, <1>3, <1>4, <1>5, <2>1 DEF CountersOK, DropSubscription, Failure, Restart
<1>7. CASE ~Receive
  <2>1. first' \in {first, 0}
    BY <1>7 DEF WatchNext, Watch, watchVars, watcherVars, NewTip, Subscribe, DropSubscription, Fetch,
                SaveWithReceipts, SaveWithoutReceipts, Save, Break, Observe, Maintain, Restart
  <2> QED
    BY <1>1, <1>2, <1>3, <1>4, <1>5, <2>1 DEF CountersOK, DropSubscription, Failure, Restart
<1> QED
  BY <1>6, <1>7

LEMMA FeedLinkedInit == WatchInit => FeedLinked
<1> SUFFICES ASSUME WatchInit PROVE FeedLinked
  OBVIOUS
<1>1. feed = <<>> /\ watcher.head = NoBlock
  BY DEF WatchInit, Started
<1>2. 1 .. (Len(feed) - 1) = {}
  BY <1>1
<1> QED
  BY <1>1, <1>2 DEF FeedLinked

LEMMA FeedLinkedReceive ==
    ASSUME WatchTypeOK, FeedLinked, Receive
    PROVE  FeedLinked'
<1> DEFINE c == feed[1]
           g == Tail(feed)
<1>1. /\ feed # <<>> /\ feed \in Seq(Block) /\ c \in Block /\ feed' = g /\ watcher'.head = c
  BY ReceiveFields
<1>2. connected' = connected /\ tip' = tip
  BY DEF Receive, nodeVars
<1>3. /\ g \in Seq(Block) /\ Len(g) = Len(feed) - 1 /\ Len(feed) \in Nat \ {0}
      /\ \A i \in 1 .. (Len(feed) - 1) : g[i] = feed[i + 1]
      /\ g = <<>> <=> Len(g) = 0
  BY <1>1, Tailed
<1>4. \A p \in Block, i \in 2 .. Len(feed) : Linked(p, feed, i) => Linked(p, g, i - 1)
  BY <1>1, LinkedTail
<1>5. \A i \in 1 .. Len(feed) : feed[i] \in Block
  BY <1>1
<1> HIDE DEF g
<1>6. CASE g = <<>>
  <2>0. Len(g) = 0 /\ Len(feed) = 1
    BY <1>3, <1>6
  <2>1. c = tip
    BY <1>1, <2>0 DEF FeedLinked
  <2>2. 1 .. (Len(g) - 1) = {}
    BY <2>0
  <2> QED
    BY <1>1, <1>2, <1>6, <2>1, <2>2 DEF FeedLinked
<1>7. CASE g # <<>>
  <2>1. g[Len(g)] = tip
    BY <1>1, <1>3, <1>7 DEF FeedLinked
  <2>2. Linked(c, g, 1)
    <3>1. 2 \in 2 .. Len(feed) /\ 1 \in 1 .. (Len(feed) - 1) /\ 2 - 1 = 1
      BY <1>3, <1>7
    <3>2. Linked(c, feed, 2)
      BY <3>1 DEF FeedLinked
    <3> QED
      BY <1>1, <1>4, <3>1, <3>2
  <2>3. ASSUME NEW i \in 1 .. (Len(g) - 1) PROVE Linked(g[i], g, i + 1)
    <3>1. i + 1 \in 1 .. (Len(feed) - 1) /\ i + 2 \in 2 .. Len(feed) /\ i + 2 - 1 = i + 1
      BY <1>3
    <3>2. g[i] = feed[i + 1] /\ feed[i + 1] \in Block
      BY <1>3, <1>5, <3>1
    <3>3. Linked(feed[i + 1], feed, i + 2)
      BY <3>1 DEF FeedLinked
    <3> QED
      BY <1>4, <3>1, <3>2, <3>3
  <2> QED
    BY <1>1, <1>2, <1>7, <2>1, <2>2, <2>3 DEF FeedLinked
<1> QED
  BY <1>6, <1>7

LEMMA FeedLinkedStep ==
    ASSUME WatchTypeOK, FeedLinked, [WatchNext]_watchVars, ~DropSubscription
    PROVE  FeedLinked'
<1>1. CASE \E b \in Block : NewTip(b)
  BY <1>1, FeedLinkedNewTip
<1>2. CASE Receive
  BY <1>2, FeedLinkedReceive
<1>3. CASE Subscribe \/ Observe \/ Maintain
  BY <1>3, ElsewhereSteps DEF Elsewhere, FeedLinked, Linked, Overtakes
<1>4. CASE Fetch \/ SaveWithReceipts \/ SaveWithoutReceipts \/ Break
  <2>1. watcher'.head = watcher.head
    <3>1. CASE Fetch
      BY <3>1, FetchFields
    <3>2. CASE SaveWithReceipts \/ SaveWithoutReceipts
      <4>1. watcher' = LoopAt(watcher, watcher.n + 1) /\ watcher.pc = "save"
        BY <3>2 DEF SaveWithReceipts, SaveWithoutReceipts, Save
      <4> QED
        BY <4>1, RunningLoop, LoopFields
    <3>3. CASE Break
      BY <3>3 DEF Break, Finished
    <3> QED
      BY <1>4, <3>1, <3>2, <3>3
  <2>2. UNCHANGED <<tip, feed, connected>>
    BY <1>4 DEF Fetch, SaveWithReceipts, SaveWithoutReceipts, Save, Break, nodeVars, feedVars
  <2> QED
    BY <2>1, <2>2 DEF FeedLinked, Linked, Overtakes
<1>5. CASE Restart
  <2>1. feed' = <<>> /\ watcher'.head = NoBlock
    BY <1>5 DEF Restart, Started
  <2>2. 1 .. (Len(feed') - 1) = {}
    BY <2>1
  <2> QED
    BY <2>1, <2>2 DEF FeedLinked
<1>6. CASE UNCHANGED watchVars
  BY <1>6 DEF watchVars, nodeVars, feedVars, watcherVars, FeedLinked, Linked, Overtakes
<1> QED
  BY <1>1, <1>2, <1>3, <1>4, <1>5, <1>6 DEF WatchNext, Watch
-----------------------------------------------------------------------------
(***************************************************************************)
(* While in addition no call fails, every block the watcher has processed  *)
(* on the branch of its head is the stored one.                            *)
(***************************************************************************)

Processed == {b \in Branch[watcher.head] :
                HeightOf[b] >= first /\ (watcher.pc = "wait" \/ b # watcher.head)}

NotStarted ==
    watcher.head = NoBlock => watcher.pc = "wait" /\ watcher.last = 0 /\ first = 0

HeadStored ==
    watcher.head # NoBlock =>
        /\ first # 0
        /\ watcher.pc = "wait" => watcher.last = HeightOf[watcher.head]
        /\ watcher.pc # "wait" => watcher.n = HeightOf[watcher.head]
        /\ \A b \in Processed : blocks[HeightOf[b]] = b

LEMMA NotStartedStep ==
    ASSUME WatchTypeOK, NotStarted, [WatchNext]_watchVars
    PROVE  NotStarted'
<1>1. CASE Receive
  <2>1. watcher'.head # NoBlock
    BY <1>1, ReceiveFields, BlockFacts
  <2> QED
    BY <2>1 DEF NotStarted
<1>2. CASE Fetch \/ SaveWithReceipts \/ SaveWithoutReceipts \/ Break
  <2>1. watcher.pc # "wait"
    BY <1>2 DEF Fetch, SaveWithReceipts, SaveWithoutReceipts, Save, Break
  <2>2. watcher \in Watcher /\ watcher.head \in Block /\ watcher.n + 1 \in Nat
    BY <2>1, RunningLoop
  <2>3. watcher'.head = watcher.head
    <3>1. CASE Fetch
      BY <3>1, FetchFields
    <3>2. CASE SaveWithReceipts \/ SaveWithoutReceipts
      <4>1. watcher' = LoopAt(watcher, watcher.n + 1)
        BY <3>2 DEF SaveWithReceipts, SaveWithoutReceipts, Save
      <4> QED
        BY <2>2, <4>1, LoopFields
    <3>3. CASE Break
      BY <3>3 DEF Break, Finished
    <3> QED
      BY <1>2, <3>1, <3>2, <3>3
  <2> QED
    BY <2>2, <2>3, BlockFacts DEF NotStarted
<1>3. CASE Restart
  BY <1>3 DEF Restart, Started, NotStarted
<1>4. CASE Subscribe \/ Observe \/ Maintain \/ DropSubscription \/ \E b \in Block : NewTip(b)
  BY <1>4 DEF Subscribe, Observe, Maintain, DropSubscription, NewTip, watcherVars, NotStarted
<1>5. CASE UNCHANGED watchVars
  BY <1>5 DEF watchVars, watcherVars, NotStarted
<1> QED
  BY <1>1, <1>2, <1>3, <1>4, <1>5 DEF WatchNext, Watch

\* An announced head is never further than one above the previous one: there is nothing to
\* backfill, and what counts as processed was processed for the previous head.
LEMMA ReceiveInLine ==
    ASSUME WatchTypeOK, FeedLinked, NotStarted, HeadStored, Receive
    PROVE  LET c == feed[1] IN
           /\ c \in Block /\ watcher'.head = c /\ watcher'.pc = "fetch" /\ watcher'.n = HeightOf[c]
           /\ watcher.pc = "wait" /\ first' # 0 /\ feed # <<>> /\ feed \in Seq(Block)
           /\ watcher.head = NoBlock => Processed' = {}
           /\ watcher.head # NoBlock => /\ watcher.head \in Block
                                        /\ Linked(watcher.head, feed, 1)
                                        /\ HeightOf[c] <= HeightOf[watcher.head] + 1
                                        /\ Processed' \subseteq Processed
           /\ feed' = Tail(feed) /\ UNCHANGED <<transactions, blocks, tokenTransfers>>
<1> DEFINE c == feed[1]
           last == watcher.last
<1>1. /\ watcher.pc = "wait" /\ feed # <<>> /\ feed \in Seq(Block) /\ c \in Block
      /\ watcher'.head = c /\ feed' = Tail(feed)
      /\ Start(last, HeightOf[c]) <= HeightOf[c] =>
            watcher'.pc = "fetch" /\ watcher'.n = Start(last, HeightOf[c])
      /\ first' = IF first = 0 THEN HeightOf[c] ELSE first
  BY ReceiveFields
<1>2. HeightOf[c] \in Nat \ {0}
  BY <1>1, BlockFacts
<1>3. UNCHANGED <<transactions, blocks, tokenTransfers>>
  BY DEF Receive, storeVars
<1> HIDE DEF c, last
<1>4. ASSUME Start(last, HeightOf[c]) = HeightOf[c]
      PROVE  watcher'.pc = "fetch" /\ watcher'.n = HeightOf[c]
  BY <1>1, <1>2, <1>4
<1>5. CASE watcher.head = NoBlock
  <2>1. last = 0 /\ first = 0
    BY <1>5 DEF NotStarted, last
  <2>2. Start(last, HeightOf[c]) = HeightOf[c] /\ first' = HeightOf[c]
    BY <1>1, <2>1 DEF Start
  <2>3. Processed' = {}
    <3>1. \A b \in Branch[c] : HeightOf[b] \in Nat /\ (b # c => HeightOf[b] < HeightOf[c])
      BY <1>1, BranchRooted, BlockFacts DEF Rooted
    <3>2. watcher'.pc # "wait"
      BY <1>4, <2>2
    <3> QED
      BY <1>1, <1>2, <2>2, <3>1, <3>2 DEF Processed
  <2> QED
    BY <1>1, <1>2, <1>3, <1>4, <1>5, <2>2, <2>3 DEF c
<1>6. CASE watcher.head # NoBlock
  <2> DEFINE p == watcher.head
  <2>1. p \in Block /\ first # 0 /\ last = HeightOf[p] /\ HeightOf[p] \in Nat
    BY <1>1, <1>6, BlockFacts DEF HeadStored, last, WatchTypeOK, Watcher
  <2>2. Linked(p, feed, 1) /\ Follows(p, c)
    BY <1>1, <1>6 DEF FeedLinked, Linked, c
  <2> HIDE DEF p
  <2>3. /\ HeightOf[c] <= HeightOf[p] + 1
        /\ \A b \in Branch[c] : b # c => b \in Branch[p]
    BY <1>1, <2>1, <2>2, FollowsHeight
  <2>4. Start(last, HeightOf[c]) = HeightOf[c] /\ first' = first
    BY <1>1, <1>2, <2>1, <2>3 DEF Start
  <2>5. watcher'.pc # "wait"
    BY <1>4, <2>4
  <2>6. Processed' \subseteq Processed
    BY <1>1, <2>3, <2>4, <2>5 DEF Processed, p
  <2> QED
    BY <1>1, <1>3, <1>4, <1>6, <2>1, <2>2, <2>3, <2>4, <2>6 DEF c, p
<1> QED
  BY <1>5, <1>6

\* While no call fails, the block saved is the head, which then joins the processed ones.
LEMMA SaveHead ==
    ASSUME WatchTypeOK, HeadFetchedByHash, HeadStored, SaveWithReceipts
    PROVE  LET c == watcher.head IN
           /\ c \in Block /\ c # NoBlock /\ watcher.pc = "save"
           /\ watcher'.head = c /\ watcher'.pc = "wait" /\ watcher'.last = HeightOf[c]
           /\ SaveBlock(c, TRUE) \/ (blocks[HeightOf[c]] = c /\ UNCHANGED storeVars)
           /\ blocks' = [blocks EXCEPT ![HeightOf[c]] = c]
           /\ blocks \in [Height -> Block \cup {NoBlock}]
           /\ Processed' \subseteq Processed \cup {c}
           /\ \A b \in Processed : b \in Branch[c] /\ b # c /\ b \in Block /\ HeightOf[b] # HeightOf[c]
           /\ first' = first /\ feed' = feed /\ tip' = tip
<1> DEFINE c == watcher.head
<1>1. c \in Block /\ c # NoBlock /\ watcher.pc = "save" /\ watcher.n = HeightOf[c]
      /\ watcher.block = c
  BY SaveFields, BlockFacts DEF HeadStored, HeadFetchedByHash
<1>2. /\ watcher'.head = c /\ watcher'.pc = "wait" /\ watcher'.last = HeightOf[c]
      /\ SaveBlock(c, TRUE) \/ (blocks[HeightOf[c]] = c /\ UNCHANGED storeVars)
      /\ blocks' = [blocks EXCEPT ![HeightOf[c]] = c]
      /\ first' = first /\ feed' = feed /\ tip' = tip
  BY <1>1, SaveFields
<1>3. Processed' \subseteq Processed \cup {c}
  BY <1>1, <1>2 DEF Processed
<1>4. ASSUME NEW b \in Processed
      PROVE  b \in Branch[c] /\ b # c /\ b \in Block /\ HeightOf[b] # HeightOf[c]
  <2>1. b \in Branch[c] /\ b # c
    BY <1>1 DEF Processed
  <2>2. b \in Block /\ HeightOf[b] < HeightOf[c] /\ HeightOf[b] \in Nat /\ HeightOf[c] \in Nat
    BY <1>1, <2>1, BranchRooted, BlockFacts DEF Rooted
  <2> QED
    BY <2>1, <2>2
<1> QED
  BY <1>1, <1>2, <1>3, <1>4 DEF WatchTypeOK, StoreTypeOK

LEMMA HeadStoredStep ==
    ASSUME WatchTypeOK, HeadFetchedByHash, FeedLinked, NotStarted, HeadStored,
           [WatchNext]_watchVars, ~DropSubscription, ~SaveWithoutReceipts, ~Break
    PROVE  HeadStored'
<1>1. CASE Receive
  <2>1. \A b \in Processed' : blocks'[HeightOf[b]] = b
    BY <1>1, ReceiveInLine DEF HeadStored
  <2> QED
    BY <1>1, <2>1, ReceiveInLine DEF HeadStored
<1>2. CASE Fetch
  <2>1. watcher.pc # "wait" /\ watcher'.pc # "wait" /\ watcher'.head = watcher.head
        /\ watcher'.n = watcher.n
    BY <1>2, FetchFields
  <2>2. first' = first /\ blocks' = blocks
    BY <1>2 DEF Fetch, storeVars
  <2>3. Processed' = Processed
    BY <2>1, <2>2 DEF Processed
  <2> QED
    BY <2>1, <2>2, <2>3 DEF HeadStored
<1>3. CASE SaveWithReceipts
  <2> DEFINE c == watcher.head
  <2>1. /\ c \in Block /\ c # NoBlock /\ watcher'.head = c /\ watcher'.pc = "wait"
        /\ watcher'.last = HeightOf[c]
        /\ blocks' = [blocks EXCEPT ![HeightOf[c]] = c] /\ blocks \in [Height -> Block \cup {NoBlock}]
        /\ Processed' \subseteq Processed \cup {c}
        /\ \A b \in Processed : b \in Block /\ HeightOf[b] # HeightOf[c]
        /\ first' = first
    BY <1>3, SaveHead
  <2>2. \A b \in Processed : blocks[HeightOf[b]] = b
    BY <2>1 DEF HeadStored
  <2>3. \A b \in Processed' : blocks'[HeightOf[b]] = b
    BY <2>1, <2>2, BlockFacts
  <2> QED
    BY <2>1, <2>3 DEF HeadStored
<1>4. CASE Restart
  BY <1>4 DEF Restart, Started, HeadStored
<1>5. CASE Subscribe \/ Observe \/ Maintain
  <2>1. watcher' = watcher /\ first' = first /\ blocks' = blocks
    BY <1>5, ElsewhereSteps DEF Elsewhere
  <2> QED
    BY <2>1 DEF HeadStored, Processed
<1>6. CASE \E b \in Block : NewTip(b)
  <2>1. watcher' = watcher /\ first' = first /\ blocks' = blocks
    BY <1>6 DEF NewTip, storeVars, watcherVars
  <2> QED
    BY <2>1 DEF HeadStored, Processed
<1>7. CASE UNCHANGED watchVars
  <2>1. watcher' = watcher /\ first' = first /\ blocks' = blocks
    BY <1>7 DEF watchVars, storeVars, watcherVars
  <2> QED
    BY <2>1 DEF HeadStored, Processed
<1> QED
  BY <1>1, <1>2, <1>3, <1>4, <1>5, <1>6, <1>7 DEF WatchNext, Watch
-----------------------------------------------------------------------------
(***************************************************************************)
(* On a chain without reorgs the backfill makes up for dropped             *)
(* subscriptions: below the loop counter every height within reach of a    *)
(* backfill holds its block.                                               *)
(***************************************************************************)

\* Nothing announced is above the tip.
BelowTip ==
    /\ feed # <<>> \/ watcher.head # NoBlock => tip # NoBlock
    /\ \A i \in 1 .. Len(feed) : HeightOf[feed[i]] <= HeightOf[tip]
    /\ watcher.head # NoBlock => HeightOf[watcher.head] <= HeightOf[tip]

\* The block to save is of the loop's number; the loop is done with its head when it waits.
LoopPosition ==
    /\ watcher.pc = "save" => HeightOf[watcher.block] = watcher.n
    /\ watcher.pc = "wait" /\ watcher.head # NoBlock => watcher.last = HeightOf[watcher.head]

\* The last height the loop is done with.
Done == IF watcher.pc = "wait" THEN watcher.last ELSE watcher.n - 1

Backfilled ==
    watcher.head # NoBlock =>
        \A b \in Block : HeightOf[b] \in first .. Done /\ HeightOf[b] + MaxBackfill > HeightOf[tip]
                         => blocks[HeightOf[b]] = b

LEMMA BelowTipInit == WatchInit => BelowTip
BY DEF WatchInit, Started, BelowTip

LEMMA BelowTipStep ==
    ASSUME WatchTypeOK, BelowTip, [WatchNext]_watchVars
    PROVE  BelowTip'
<1>0. tip \in Block \cup {NoBlock} /\ feed \in Seq(Block) /\ watcher.head \in Block \cup {NoBlock}
      /\ Len(feed) \in Nat /\ NoBlock \notin Block /\ (feed # <<>> <=> Len(feed) # 0)
  BY ChainAssumption DEF WatchTypeOK, Watcher, ChainAssumption
<1>1. ASSUME NEW b \in Block, NewTip(b) PROVE BelowTip'
  <2>1. /\ tip' = b /\ b \notin Canonical /\ watcher' = watcher
        /\ tip # NoBlock => HeightOf[b] >= HeightOf[tip]
    BY <1>1 DEF NewTip, watcherVars
  <2>2. \A c \in Block : HeightOf[c] \in Nat
    BY BlockFacts
  <2>3. \A i \in 1 .. Len(feed) : HeightOf[feed[i]] <= HeightOf[b]
    <3> SUFFICES ASSUME NEW i \in 1 .. Len(feed) PROVE HeightOf[feed[i]] <= HeightOf[b]
      OBVIOUS
    <3>1. feed[i] \in Block /\ tip \in Block /\ feed # <<>>
      BY <1>0 DEF BelowTip
    <3> QED
      BY <2>1, <2>2, <3>1 DEF BelowTip
  <2>4. watcher.head # NoBlock => HeightOf[watcher.head] <= HeightOf[b]
    BY <1>0, <2>1, <2>2 DEF BelowTip
  <2>5. \A i \in 1 .. Len(feed') : HeightOf[feed'[i]] <= HeightOf[b]
    <3>1. CASE feed' = feed
      BY <2>3, <3>1
    <3>2. CASE feed' # feed
      <4>1. PICK s \in NewHeaders(b) : feed' = feed \o s
        BY <1>1, <3>2 DEF NewTip
      <4>2. s \in Seq(Block) /\ \A i \in 1 .. Len(s) : s[i] \in Branch[b]
        BY <1>0, <2>1, Announced
      <4>3. \A i \in 1 .. Len(s) : HeightOf[s[i]] <= HeightOf[b]
        BY <2>2, <4>2, BranchRooted, BlockFacts DEF Rooted
      <4>4. ASSUME NEW i \in 1 .. Len(feed') PROVE HeightOf[feed'[i]] <= HeightOf[b]
        <5>1. /\ Len(feed') = Len(feed) + Len(s) /\ Len(s) \in Nat
              /\ \A j \in 1 .. Len(feed) : feed'[j] = feed[j]
              /\ \A j \in 1 .. Len(s) : feed'[Len(feed) + j] = s[j]
          BY <1>0, <4>1, <4>2, Joined
        <5>2. CASE i <= Len(feed)
          BY <1>0, <2>3, <5>1, <5>2
        <5>3. CASE ~(i <= Len(feed))
          <6>1. PICK j \in 1 .. Len(s) : i = Len(feed) + j
            <7>1. i - Len(feed) \in 1 .. Len(s) /\ i = Len(feed) + (i - Len(feed))
              BY <1>0, <5>1, <5>3
            <7> QED
              BY <7>1
          <6> QED
            BY <4>3, <5>1, <6>1
        <5> QED
          BY <5>2, <5>3
      <4> QED
        BY <4>4
    <3> QED
      BY <3>1, <3>2
  <2> QED
    BY <1>0, <2>1, <2>4, <2>5 DEF BelowTip
<1>2. CASE Receive
  <2>1. /\ feed # <<>> /\ feed' = Tail(feed) /\ watcher'.head = feed[1] /\ tip' = tip
    BY <1>2, ReceiveFields DEF Receive, nodeVars
  <2>2. /\ Len(feed') = Len(feed) - 1
        /\ \A i \in 1 .. (Len(feed) - 1) : feed'[i] = feed[i + 1]
    BY <1>0, <2>1, Tailed
  <2>3. \A i \in 1 .. Len(feed') : HeightOf[feed'[i]] <= HeightOf[tip]
    <3>1. \A i \in 1 .. Len(feed') : i + 1 \in 1 .. Len(feed) /\ feed'[i] = feed[i + 1]
      BY <1>0, <2>2
    <3> QED
      BY <3>1 DEF BelowTip
  <2>4. 1 \in 1 .. Len(feed)
    BY <1>0, <2>1
  <2> QED
    BY <2>1, <2>3, <2>4 DEF BelowTip
<1>3. CASE Fetch \/ SaveWithReceipts \/ SaveWithoutReceipts \/ Break
  <2>1. watcher.pc # "wait" /\ feed' = feed /\ tip' = tip
    BY <1>3 DEF Fetch, SaveWithReceipts, SaveWithoutReceipts, Save, Break, nodeVars, feedVars
  <2>2. watcher'.head = watcher.head
    <3>1. CASE Fetch
      BY <3>1, FetchFields
    <3>2. CASE SaveWithReceipts \/ SaveWithoutReceipts
      <4>1. watcher' = LoopAt(watcher, watcher.n + 1)
        BY <3>2 DEF SaveWithReceipts, SaveWithoutReceipts, Save
      <4> QED
        BY <2>1, <4>1, RunningLoop, LoopFields
    <3>3. CASE Break
      BY <3>3 DEF Break, Finished
    <3> QED
      BY <1>3, <3>1, <3>2, <3>3
  <2> QED
    BY <2>1, <2>2 DEF BelowTip
<1>4. CASE DropSubscription
  <2>1. feed' \in Prefixes(feed) /\ tip' = tip /\ watcher' = watcher
    BY <1>4 DEF DropSubscription, nodeVars, watcherVars
  <2>2. PICK m \in 0 .. Len(feed) : feed' = SubSeq(feed, 1, m)
    BY <2>1 DEF Prefixes
  <2>3. Len(feed') = m /\ \A i \in 1 .. m : feed'[i] = feed[i]
    BY <1>0, <2>2
  <2>4. \A i \in 1 .. m : i \in 1 .. Len(feed)
    BY <1>0
  <2>5. feed' # <<>> => feed # <<>>
    BY <1>0, <2>2, <2>3
  <2> QED
    BY <2>1, <2>3, <2>4, <2>5 DEF BelowTip
<1>5. CASE Restart
  <2>1. feed' = <<>> /\ watcher'.head = NoBlock
    BY <1>5 DEF Restart, Started
  <2> QED
    BY <2>1 DEF BelowTip
<1>6. CASE Subscribe \/ Observe \/ Maintain
  BY <1>6, ElsewhereSteps DEF Elsewhere, BelowTip
<1>7. CASE UNCHANGED watchVars
  BY <1>7 DEF watchVars, nodeVars, feedVars, watcherVars, BelowTip
<1> QED
  BY <1>1, <1>2, <1>3, <1>4, <1>5, <1>6, <1>7 DEF WatchNext, Watch

LEMMA LoopPositionStep ==
    ASSUME WatchTypeOK, HeadFetchedByHash, LoopPosition, [WatchNext]_watchVars
    PROVE  LoopPosition'
<1>1. CASE Receive
  <2> DEFINE w == [watcher EXCEPT !.head = Head(feed)]
             n == Start(watcher.last, HeightOf[Head(feed)])
  <2>1. w \in Watcher /\ n \in Nat /\ watcher' = LoopAt(w, n)
    BY <1>1, ReceivedHead DEF Receive
  <2> HIDE DEF w, n
  <2> QED
    BY <2>1, LoopFields DEF LoopPosition
<1>2. CASE Fetch
  <2>1. /\ watcher.pc = "fetch" /\ watcher'.pc = "save" /\ watcher'.head = watcher.head
        /\ watcher'.n = watcher.n /\ watcher'.block \in Fetchable
    BY <1>2, FetchFields
  <2>2. HeightOf[watcher'.block] = watcher.n
    BY <2>1 DEF Fetchable
  <2> QED
    BY <2>1, <2>2 DEF LoopPosition
<1>3. CASE SaveWithReceipts \/ SaveWithoutReceipts
  <2>1. watcher' = LoopAt(watcher, watcher.n + 1) /\ watcher.pc = "save"
    BY <1>3 DEF SaveWithReceipts, SaveWithoutReceipts, Save
  <2>2. watcher \in Watcher /\ watcher.n + 1 \in Nat
    BY <2>1, RunningLoop
  <2> QED
    BY <2>1, <2>2, LoopFields DEF LoopPosition
<1>4. CASE Break
  BY <1>4 DEF Break, Finished, LoopPosition
<1>5. CASE Restart
  BY <1>5 DEF Restart, Started, LoopPosition
<1>6. CASE Subscribe \/ Observe \/ Maintain \/ DropSubscription \/ \E b \in Block : NewTip(b)
  BY <1>6 DEF Subscribe, Observe, Maintain, DropSubscription, NewTip, watcherVars, LoopPosition
<1>7. CASE UNCHANGED watchVars
  BY <1>7 DEF watchVars, watcherVars, LoopPosition
<1> QED
  BY <1>1, <1>2, <1>3, <1>4, <1>5, <1>6, <1>7 DEF WatchNext, Watch

\* The loop starts after the last head, or as far back as one backfill reaches.
LEMMA StartReach ==
    ASSUME \A n \in Height : n + 1 >= MaxBackfill,
           NEW last \in Height, NEW number \in Height, NEW h \in Nat, h < Start(last, number)
    PROVE  h <= last \/ h + MaxBackfill <= number
<1> DEFINE back == (number + WordSize - MaxBackfill + 1) % WordSize
<1>1. /\ last \in Nat \ {0} /\ number \in Nat /\ MaxBackfill \in Nat \ {0} /\ WordSize \in Nat
      /\ number + MaxBackfill < WordSize /\ number + 1 >= MaxBackfill
  BY ChainAssumption, WatcherAssumption DEF ChainAssumption, WatcherAssumption
<1>2. back = number - MaxBackfill + 1
  <2> DEFINE a == number - MaxBackfill + 1
  <2>1. a \in Nat /\ a < WordSize /\ number + WordSize - MaxBackfill + 1 = a + WordSize
    BY <1>1
  <2> QED
    BY <1>1, <2>1, NoWrap
<1> HIDE DEF back
<1>3. CASE number > last + 1
  <2>1. Start(last, number) = Max({last + 1, back})
    BY <1>1, <1>3 DEF Start, back
  <2>2. Start(last, number) \in {last + 1, back}
    BY <1>1, <1>2, <2>1, MaxOfTwo
  <2> QED
    BY <1>1, <1>2, <2>2
<1>4. CASE ~(number > last + 1)
  <2>1. Start(last, number) = number
    BY <1>4 DEF Start
  <2> QED
    BY <1>1, <1>4, <2>1
<1> QED
  BY <1>3, <1>4

LEMMA BackfilledStep ==
    ASSUME \A n \in Height : n + 1 >= MaxBackfill, NoForks,
           WatchTypeOK, CountersOK, NotStarted, BelowTip, LoopPosition, Backfilled,
           [WatchNext]_watchVars, ~SaveWithoutReceipts, ~Break
    PROVE  Backfilled'
<1>0. \A b \in Block : HeightOf[b] \in Nat \ {0} /\ HeightOf[b] \in Height
  BY BlockFacts
<1>1. MaxBackfill \in Nat
  BY WatcherAssumption DEF WatcherAssumption
<1>2. CASE Receive
  <2> DEFINE c == feed[1]
             last == watcher.last
             n == Start(last, HeightOf[c])
  <2>1. /\ c \in Block /\ watcher'.head = c /\ watcher.pc = "wait" /\ feed # <<>> /\ feed \in Seq(Block)
        /\ n \in Nat \ {0} /\ last \in Height \cup {0}
        /\ n <= HeightOf[c] => watcher'.pc = "fetch" /\ watcher'.n = n
        /\ first' = IF first = 0 THEN HeightOf[c] ELSE first
    BY <1>2, ReceiveFields
  <2>2. tip' = tip /\ blocks' = blocks /\ tip \in Block
    BY <1>2, <2>1 DEF Receive, nodeVars, storeVars, BelowTip, WatchTypeOK
  <2>3. HeightOf[c] <= HeightOf[tip]
    BY <2>1 DEF BelowTip
  <2>4. n <= HeightOf[c]
    BY <1>0, <2>1, StartAtMostHead
  <2>5. watcher'.pc = "fetch" /\ watcher'.n = n /\ Done' = n - 1
    BY <2>1, <2>4 DEF Done
  <2> SUFFICES ASSUME NEW b \in Block, HeightOf[b] \in first' .. (n - 1),
                      HeightOf[b] + MaxBackfill > HeightOf[tip]
               PROVE  blocks[HeightOf[b]] = b
    BY <2>2, <2>5 DEF Backfilled
  <2>6. first # 0 /\ first' = first
    <3>1. first # 0
      <4> SUFFICES ASSUME first = 0 PROVE FALSE
        OBVIOUS
      <4>1. first' = HeightOf[c]
        BY <2>1
      <4> HIDE DEF n
      <4> QED
        BY <1>0, <2>1, <2>4, <4>1
    <3> QED
      BY <2>1, <3>1
  <2>7. watcher.head # NoBlock /\ last = HeightOf[watcher.head] /\ watcher.head \in Block
    BY <2>1, <2>6 DEF NotStarted, LoopPosition, WatchTypeOK, Watcher
  <2>8. Done = last /\ first \in Nat /\ last \in Height
    BY <1>0, <2>1, <2>7, ChainAssumption DEF Done, CountersOK, ChainAssumption
  <2>9. HeightOf[b] <= last
    <3>1. HeightOf[b] < n
      <4> HIDE DEF n
      <4> QED
        BY <1>0, <2>1, <2>6, <2>8
    <3>2. HeightOf[b] <= last \/ HeightOf[b] + MaxBackfill <= HeightOf[c]
      BY <1>0, <2>1, <2>8, <3>1, StartReach
    <3> HIDE DEF c, last, n
    <3> QED
      BY <1>0, <1>1, <2>1, <2>2, <2>3, <3>2
  <2>10. HeightOf[b] \in first .. Done
    <3>1. HeightOf[b] >= first
      <4> HIDE DEF n
      <4> QED
        BY <1>0, <2>1, <2>6, <2>8
    <3> HIDE DEF last, n
    <3> QED
      BY <1>0, <2>7, <2>8, <2>9, <3>1
  <2> QED
    BY <2>7, <2>10 DEF Backfilled
<1>3. CASE SaveWithReceipts
  <2> DEFINE d == watcher.block
             h == watcher.n
  <2>1. /\ watcher.pc = "save" /\ d \in Block /\ watcher.head \in Block /\ h \in 1 .. HeightOf[watcher.head]
        /\ blocks' = [blocks EXCEPT ![HeightOf[d]] = d] /\ watcher'.head = watcher.head
        /\ h # HeightOf[watcher.head] => watcher'.pc = "fetch" /\ watcher'.n = h + 1
        /\ h = HeightOf[watcher.head] => watcher'.pc = "wait" /\ watcher'.last = HeightOf[watcher.head]
        /\ first' = first /\ tip' = tip
    BY <1>3, SaveFields
  <2>2. HeightOf[d] = h /\ Done = h - 1 /\ h \in Nat /\ Done \in Int
    BY <1>0, <2>1 DEF LoopPosition, Done
  <2>3. Done' = h
    <3>1. h + 1 - 1 = h
      BY <2>2
    <3> QED
      BY <2>1, <3>1 DEF Done
  <2>4. blocks \in [Height -> Block \cup {NoBlock}] /\ first \in Nat
    BY ChainAssumption DEF WatchTypeOK, StoreTypeOK, CountersOK, ChainAssumption
  <2> HIDE DEF d, h
  <2>5. ASSUME NEW b \in Block, HeightOf[b] \in first .. h, HeightOf[b] + MaxBackfill > HeightOf[tip]
        PROVE  blocks'[HeightOf[b]] = b
    <3>1. CASE HeightOf[b] = h
      <4>1. b = d
        BY <2>1, <2>2, <3>1 DEF NoForks
      <4> QED
        BY <1>0, <2>1, <2>4, <4>1
    <3>2. CASE HeightOf[b] # h
      <4>1. HeightOf[b] \in first .. (h - 1)
        BY <1>0, <2>2, <2>4, <2>5, <3>2
      <4>2. blocks[HeightOf[b]] = b
        BY <2>1, <2>2, <2>5, <4>1, BlockFacts DEF Backfilled
      <4> QED
        BY <1>0, <2>1, <2>2, <2>4, <3>2, <4>2
    <3> QED
      BY <3>1, <3>2
  <2> QED
    BY <2>1, <2>3, <2>5 DEF Backfilled
<1>4. CASE Fetch
  <2>1. watcher.pc # "wait" /\ watcher'.pc # "wait" /\ watcher'.head = watcher.head
        /\ watcher'.n = watcher.n
    BY <1>4, FetchFields
  <2>2. first' = first /\ blocks' = blocks /\ tip' = tip /\ Done' = Done
    BY <1>4, <2>1 DEF Fetch, storeVars, nodeVars, Done
  <2> QED
    BY <2>1, <2>2 DEF Backfilled
<1>5. ASSUME NEW b \in Block, NewTip(b) PROVE Backfilled'
  <2>1. /\ tip' = b /\ watcher' = watcher /\ first' = first /\ blocks' = blocks /\ Done' = Done
        /\ tip # NoBlock => HeightOf[b] >= HeightOf[tip]
    BY <1>5 DEF NewTip, watcherVars, storeVars, Done
  <2>2. ASSUME watcher.head # NoBlock, NEW c \in Block, HeightOf[c] + MaxBackfill > HeightOf[b]
        PROVE  HeightOf[c] + MaxBackfill > HeightOf[tip]
    <3>1. tip \in Block /\ tip # NoBlock
      BY <2>2 DEF BelowTip, WatchTypeOK
    <3> QED
      BY <1>0, <1>1, <2>1, <2>2, <3>1
  <2> QED
    BY <2>1, <2>2 DEF Backfilled
<1>6. CASE Restart
  BY <1>6 DEF Restart, Started, Backfilled
<1>7. CASE Subscribe \/ Observe \/ Maintain
  BY <1>7, ElsewhereSteps DEF Elsewhere, Backfilled, Done
<1>8. CASE DropSubscription
  BY <1>8 DEF DropSubscription, nodeVars, watcherVars, storeVars, Backfilled, Done
<1>9. CASE UNCHANGED watchVars
  BY <1>9 DEF watchVars, nodeVars, watcherVars, storeVars, Backfilled, Done
<1> QED
  BY <1>2, <1>3, <1>4, <1>5, <1>6, <1>7, <1>8, <1>9 DEF WatchNext, Watch
-----------------------------------------------------------------------------
(***************************************************************************)
(* The recent canonical blocks are stored once the watcher has settled.    *)
(***************************************************************************)

WatchInv ==
    /\ WatchTypeOK /\ CountersOK /\ HeadFetchedByHash
    /\ NotStarted /\ LoopPosition /\ BelowTip
    /\ drops = 0 => FeedLinked
    /\ drops = 0 /\ failures = 0 => HeadStored

LEMMA WatchInvInit == WatchInit => WatchInv
<1> SUFFICES ASSUME WatchInit PROVE WatchInv
  OBVIOUS
<1>1. NotStarted /\ LoopPosition /\ HeadStored
  BY DEF WatchInit, Started, NotStarted, LoopPosition, HeadStored
<1> QED
  BY <1>1, WatchTypeInit, CountersInit, HeadFetchedInit, BelowTipInit, FeedLinkedInit DEF WatchInv

LEMMA WatchInvStep == WatchInv /\ [WatchNext]_watchVars => WatchInv'
<1> SUFFICES ASSUME WatchInv, [WatchNext]_watchVars PROVE WatchInv'
  OBVIOUS
<1> USE DEF WatchInv
<1>1. WatchTypeOK' /\ CountersOK' /\ HeadFetchedByHash'
  BY WatchTypeStep, CountersStep, HeadFetchedStep
<1>2. NotStarted' /\ LoopPosition' /\ BelowTip'
  BY NotStartedStep, LoopPositionStep, BelowTipStep
<1>3. drops' = 0 => FeedLinked'
  BY CountersStep, FeedLinkedStep
<1>4. drops' = 0 /\ failures' = 0 => HeadStored'
  BY CountersStep, HeadStoredStep
<1> QED
  BY <1>1, <1>2, <1>3, <1>4

\* What settling means for the processed blocks.
LEMMA SettledRecent ==
    ASSUME WatchTypeOK, Settled, NEW b \in Recent
    PROVE  /\ watcher.pc = "wait" /\ watcher.head = tip /\ tip \in Block
           /\ b \in Processed /\ b \in Block /\ HeightOf[b] \in Nat /\ HeightOf[b] >= first
           /\ HeightOf[b] <= HeightOf[tip] /\ HeightOf[tip] \in Nat
           /\ HeightOf[b] + MaxBackfill > HeightOf[tip]
<1>1. watcher.pc = "wait" /\ watcher.head = tip /\ tip \in Block /\ tip # NoBlock
  BY DEF Settled, WatchTypeOK
<1>2. b \in Branch[tip] /\ HeightOf[b] >= first /\ HeightOf[b] + MaxBackfill > HeightOf[tip]
  BY <1>1 DEF Recent, Canonical
<1>3. b \in Block /\ HeightOf[b] \in Nat /\ HeightOf[tip] \in Nat
  BY <1>1, <1>2, BlockFacts
<1>4. HeightOf[b] <= HeightOf[tip]
  BY <1>1, <1>2, <1>3, BranchRooted DEF Rooted
<1> QED
  BY <1>1, <1>2, <1>3, <1>4 DEF Processed

\* Once every announcement is processed the recent canonical blocks are the stored ones, as
\* long as no call of the watcher failed, through every reorg when no subscription dropped
\* and on a chain without reorgs however many did: runBlocks saves the announced blocks in
\* their order, and its backfill reaches back to the last head.
THEOREM WatchRecentBlocks ==
    ASSUME \A n \in Height : n + 1 >= MaxBackfill
    PROVE  WatchSpec => []RecentBlocksCanonical
<1> DEFINE I == WatchInv /\ (failures = 0 /\ NoForks => Backfilled)
<1>1. WatchInit => I
  BY WatchInvInit DEF WatchInit, Started, Backfilled
<1>2. ASSUME I, [WatchNext]_watchVars PROVE I'
  <2>1. ASSUME failures' = 0, NoForks PROVE Backfilled'
    BY <1>2, <2>1, CountersStep, BackfilledStep DEF WatchInv
  <2> QED
    BY <1>2, <2>1, WatchInvStep DEF NoForks
<1>3. ASSUME I PROVE RecentBlocksCanonical
  <2> SUFFICES ASSUME failures = 0, drops = 0 \/ NoForks, Settled, NEW b \in Recent
               PROVE  blocks[HeightOf[b]] = b
    BY DEF RecentBlocksCanonical, BlocksCanonical
  <2>1. /\ watcher.pc = "wait" /\ watcher.head # NoBlock /\ watcher.head = tip /\ b \in Processed
        /\ b \in Block /\ HeightOf[b] \in Nat /\ HeightOf[b] >= first
        /\ HeightOf[b] <= HeightOf[tip] /\ HeightOf[tip] \in Nat
        /\ HeightOf[b] + MaxBackfill > HeightOf[tip]
    BY <1>3, SettledRecent, BlockFacts DEF WatchInv
  <2>2. CASE drops = 0
    BY <1>3, <2>1, <2>2 DEF WatchInv, HeadStored
  <2>3. CASE NoForks
    <3>1. Done = HeightOf[tip] /\ first \in Nat
      BY <1>3, <2>1, ChainAssumption DEF WatchInv, LoopPosition, Done, CountersOK, ChainAssumption
    <3>2. HeightOf[b] \in first .. Done
      BY <2>1, <3>1
    <3> QED
      BY <1>3, <2>1, <2>3, <3>2 DEF Backfilled
  <2> QED
    BY <2>2, <2>3
<1> QED
  BY <1>1, <1>2, <1>3, PTL DEF WatchSpec
-----------------------------------------------------------------------------
(***************************************************************************)
(* Undisturbed, the rows of the processed blocks are those blocks': a      *)
(* stored block is on the branch of the head, or the feed still replaces   *)
(* it.                                                                     *)
(***************************************************************************)

BlocksAtHeight ==
    \A h \in Height : blocks[h] # NoBlock => blocks[h] \in Block /\ HeightOf[blocks[h]] = h

\* The first block of f that reaches height h is another one than d.
Replaced(d, h, f) ==
    \E j \in 1 .. Len(f) :
        /\ HeightOf[f[j]] = h /\ f[j] # d
        /\ \A k \in 1 .. (j - 1) : HeightOf[f[k]] < h

NothingStored == watcher.head = NoBlock => \A h \in Height : blocks[h] = NoBlock

OnBranch ==
    watcher.head # NoBlock => \A h \in Height : blocks[h] # NoBlock =>
        (h < HeightOf[watcher.head] \/ (h = HeightOf[watcher.head] /\ watcher.pc = "wait")
            => blocks[h] \in Branch[watcher.head])

NotYetStored ==
    watcher.head # NoBlock /\ watcher.pc # "wait" => blocks[HeightOf[watcher.head]] # watcher.head

AboveReplaced ==
    watcher.head # NoBlock => \A h \in Height : blocks[h] # NoBlock =>
        (h > HeightOf[watcher.head] => Replaced(blocks[h], h, feed))

Fresh == NothingStored /\ OnBranch /\ NotYetStored /\ AboveReplaced

\* The transactions of a processed block are recorded at its height, its transfers are stored.
RowsFollow ==
    watcher.head # NoBlock =>
        \A b \in Processed : \A t \in TxsOf[b] : transactions[t].block = HeightOf[b]

TransfersFollow ==
    watcher.head # NoBlock =>
        \A b \in Processed : \A x \in TransfersOf[b] : tokenTransfers[x] # Null

LEMMA BlocksAtHeightStep ==
    ASSUME WatchTypeOK, BlocksAtHeight, [WatchNext]_watchVars
    PROVE  BlocksAtHeight'
<1>1. [StoreNext]_storeVars /\ blocks \in [Height -> Block \cup {NoBlock}]
  BY TablesStep DEF WatchTypeOK, StoreTypeOK
<1>2. ASSUME NEW b \in Block, NEW receipts \in BOOLEAN, SaveBlock(b, receipts) PROVE BlocksAtHeight'
  BY <1>1, <1>2, BlockFacts DEF SaveBlock, BlocksAtHeight
<1>3. CASE blocks' = blocks
  BY <1>3 DEF BlocksAtHeight
<1> QED
  BY <1>1, <1>2, <1>3 DEF StoreNext, SaveTransaction, MarkDroppedTransactions, storeVars

LEMMA ReplacedAppend ==
    ASSUME NEW f \in Seq(Block), NEW s \in Seq(Block), NEW d, NEW h, Replaced(d, h, f)
    PROVE  Replaced(d, h, f \o s)
<1> DEFINE g == f \o s
<1>1. /\ Len(g) \in Nat /\ Len(f) \in Nat /\ Len(f) <= Len(g)
      /\ \A j \in 1 .. Len(f) : g[j] = f[j]
  BY Joined
<1> HIDE DEF g
<1>2. PICK j \in 1 .. Len(f) : /\ HeightOf[f[j]] = h /\ f[j] # d
                               /\ \A k \in 1 .. (j - 1) : HeightOf[f[k]] < h
  BY DEF Replaced
<1>3. j \in 1 .. Len(g) /\ g[j] = f[j] /\ \A k \in 1 .. (j - 1) : g[k] = f[k]
  BY <1>1
<1>4. Replaced(d, h, g)
  BY <1>2, <1>3 DEF Replaced
<1> QED
  BY <1>4 DEF g

\* A replacement that is not the first announcement stays ahead.
LEMMA ReplacedTail ==
    ASSUME NEW f \in Seq(Block), f # <<>>, NEW d, NEW h, HeightOf[f[1]] # h,
           \E j \in 1 .. Len(f) : /\ HeightOf[f[j]] = h /\ f[j] # d
                                  /\ \A k \in 1 .. (j - 1) : HeightOf[f[k]] < h
    PROVE  Replaced(d, h, Tail(f))
<1> DEFINE g == Tail(f)
<1>1. /\ Len(g) \in Nat /\ Len(f) \in Nat /\ Len(g) = Len(f) - 1
      /\ \A j \in 1 .. Len(g) : g[j] = f[j + 1]
  BY Tailed
<1> HIDE DEF g
<1>2. PICK j \in 1 .. Len(f) : /\ HeightOf[f[j]] = h /\ f[j] # d
                               /\ \A k \in 1 .. (j - 1) : HeightOf[f[k]] < h
  OBVIOUS
<1>3. PICK i \in 1 .. Len(g) : j = i + 1
  <2>1. j # 1
    BY <1>2
  <2>2. j - 1 \in 1 .. Len(g) /\ j = (j - 1) + 1
    BY <1>1, <2>1
  <2> QED
    BY <2>2
<1>4. g[i] = f[j]
  BY <1>1, <1>3
<1>5. ASSUME NEW k \in 1 .. (i - 1) PROVE HeightOf[g[k]] < h
  <2>1. k \in 1 .. Len(g) /\ k + 1 \in 1 .. (j - 1)
    BY <1>1, <1>3
  <2> QED
    BY <1>1, <1>2, <2>1
<1>6. Replaced(d, h, g)
  BY <1>2, <1>4, <1>5 DEF Replaced
<1> QED
  BY <1>6 DEF g

LEMMA FreshReceive ==
    ASSUME WatchTypeOK, FeedLinked, NotStarted, HeadStored, BlocksAtHeight, Fresh, Receive
    PROVE  Fresh'
<1> DEFINE c == feed[1]
           p == watcher.head
<1>1. /\ c \in Block /\ c # NoBlock /\ watcher'.head = c /\ watcher'.pc = "fetch"
      /\ watcher.pc = "wait" /\ feed # <<>> /\ feed \in Seq(Block) /\ feed' = Tail(feed)
      /\ blocks' = blocks
      /\ p # NoBlock => p \in Block /\ Linked(p, feed, 1) /\ HeightOf[c] <= HeightOf[p] + 1
  BY ReceiveInLine, BlockFacts
<1>2. HeightOf[c] \in Nat \ {0} /\ HeightOf[c] \in Height
  BY <1>1, BlockFacts
<1> HIDE DEF c, p
<1>3. CASE p = NoBlock
  <2>1. \A h \in Height : blocks[h] = NoBlock
    BY <1>3 DEF p, Fresh, NothingStored
  <2> QED
    BY <1>1, <1>2, <2>1 DEF Fresh, NothingStored, OnBranch, NotYetStored, AboveReplaced
<1>4. CASE p # NoBlock
  <2>1. /\ p \in Block /\ HeightOf[p] \in Nat /\ HeightOf[c] <= HeightOf[p] + 1
        /\ c \notin Branch[p] /\ (ParentOf[c] = NoBlock \/ ParentOf[c] \in Branch[p])
        /\ Overtakes(p, feed, 1)
    BY <1>1, <1>4, BlockFacts DEF Linked, Follows, c
  <2>2. ASSUME NEW h \in Height, blocks[h] # NoBlock
        PROVE  /\ h \in Nat /\ blocks[h] \in Block /\ HeightOf[blocks[h]] = h
               /\ h <= HeightOf[p] => blocks[h] \in Branch[p]
               /\ h > HeightOf[p] => Replaced(blocks[h], h, feed)
    <3>1. h \in Nat /\ blocks[h] \in Block /\ HeightOf[blocks[h]] = h
      BY <2>2, ChainAssumption DEF BlocksAtHeight, ChainAssumption
    <3> QED
      BY <1>1, <1>4, <2>1, <2>2, <3>1 DEF Fresh, OnBranch, AboveReplaced, p
  <2>3. ASSUME NEW h \in Height, blocks[h] # NoBlock, h < HeightOf[c] PROVE blocks[h] \in Branch[c]
    <3> DEFINE d == blocks[h]
               q == ParentOf[c]
    <3>1. d \in Block /\ HeightOf[d] = h /\ h \in Nat /\ d \in Branch[p]
      BY <1>2, <2>1, <2>2, <2>3
    <3>2. q # NoBlock
      <4>1. ~(HeightOf[c] <= HeightOf[d])
        BY <1>2, <2>3, <3>1
      <4> QED
        BY <1>1, <3>1, <4>1, BlockFacts
    <3>3. /\ q \in Block /\ q \in Branch[p] /\ HeightOf[q] \in Nat /\ HeightOf[c] = HeightOf[q] + 1
          /\ Branch[c] = {c} \cup Branch[q]
      BY <1>1, <2>1, <3>2, BlockFacts
    <3> HIDE DEF d, q
    <3>4. HeightOf[d] <= HeightOf[q]
      BY <1>2, <2>3, <3>1, <3>3
    <3>5. d \in Branch[q]
      BY <2>1, <3>1, <3>3, <3>4, BranchLinear
    <3> QED
      BY <3>3, <3>5 DEF d
  <2>4. blocks[HeightOf[c]] # c
    <3> SUFFICES ASSUME blocks[HeightOf[c]] = c PROVE FALSE
      OBVIOUS
    <3>1. /\ HeightOf[c] <= HeightOf[p] => c \in Branch[p]
          /\ HeightOf[c] > HeightOf[p] => Replaced(c, HeightOf[c], feed)
      BY <1>1, <1>2, <2>2
    <3>2. Replaced(c, HeightOf[c], feed)
      BY <1>2, <2>1, <3>1
    <3>3. PICK j \in 1 .. Len(feed) : /\ feed[j] # c
                                      /\ \A k \in 1 .. (j - 1) : HeightOf[feed[k]] < HeightOf[c]
      BY <3>2 DEF Replaced
    <3>4. j # 1 /\ 1 \in 1 .. (j - 1)
      BY <1>1, <3>3 DEF c
    <3>5. HeightOf[c] < HeightOf[c]
      BY <3>3, <3>4 DEF c
    <3> QED
      BY <1>2, <3>5
  <2>5. ASSUME NEW h \in Height, blocks[h] # NoBlock, h > HeightOf[c]
        PROVE  Replaced(blocks[h], h, Tail(feed))
    <3>1. h \in Nat /\ h # HeightOf[c]
      BY <1>2, <2>2, <2>5
    <3>2. \E j \in 1 .. Len(feed) : /\ HeightOf[feed[j]] = h /\ feed[j] # blocks[h]
                                    /\ \A k \in 1 .. (j - 1) : HeightOf[feed[k]] < h
      <4>1. CASE h > HeightOf[p]
        BY <2>2, <2>5, <4>1 DEF Replaced
      <4>2. CASE h <= HeightOf[p]
        <5>1. blocks[h] \in Branch[p] /\ h \in HeightOf[c] .. HeightOf[p]
          BY <1>2, <2>1, <2>2, <2>5, <3>1, <4>2
        <5>2. PICK j \in 1 .. Len(feed) : /\ HeightOf[feed[j]] = h /\ feed[j] \notin Branch[p]
                                          /\ \A k \in 1 .. (j - 1) : HeightOf[feed[k]] < h
          BY <2>1, <5>1 DEF Overtakes, c
        <5> QED
          BY <5>1, <5>2
      <4> QED
        BY <2>1, <3>1, <4>1, <4>2
    <3> QED
      BY <1>1, <3>1, <3>2, ReplacedTail DEF c
  <2>6. OnBranch' /\ AboveReplaced'
    BY <1>1, <2>3, <2>5 DEF OnBranch, AboveReplaced
  <2> QED
    BY <1>1, <2>4, <2>6 DEF Fresh, NothingStored, NotYetStored
<1> QED
  BY <1>3, <1>4

LEMMA FreshSave ==
    ASSUME WatchTypeOK, HeadFetchedByHash, HeadStored, Fresh, SaveWithReceipts
    PROVE  Fresh' /\ SaveBlock(watcher.head, TRUE)
<1> DEFINE c == watcher.head
<1>1. /\ c \in Block /\ c # NoBlock /\ watcher.pc = "save" /\ watcher'.head = c /\ watcher'.pc = "wait"
      /\ SaveBlock(c, TRUE) \/ (blocks[HeightOf[c]] = c /\ UNCHANGED storeVars)
      /\ blocks' = [blocks EXCEPT ![HeightOf[c]] = c]
      /\ blocks \in [Height -> Block \cup {NoBlock}]
      /\ feed' = feed
  BY SaveHead
<1>2. HeightOf[c] \in Height /\ HeightOf[c] \in Nat /\ c \in Branch[c] /\ Height \subseteq Nat
  BY <1>1, BlockFacts, ChainAssumption DEF ChainAssumption
<1>3. SaveBlock(c, TRUE)
  BY <1>1 DEF Fresh, NotYetStored
<1>4. ASSUME NEW h \in Height
      PROVE  blocks'[h] = IF h = HeightOf[c] THEN c ELSE blocks[h]
  BY <1>1
<1> HIDE DEF c
<1>5. OnBranch'
  <2> SUFFICES ASSUME NEW h \in Height, blocks'[h] # NoBlock,
                      h < HeightOf[c] \/ h = HeightOf[c]
               PROVE  blocks'[h] \in Branch[c]
    BY <1>1 DEF OnBranch
  <2>1. CASE h = HeightOf[c]
    BY <1>2, <1>4, <2>1
  <2>2. CASE h # HeightOf[c]
    BY <1>1, <1>4, <2>2 DEF Fresh, OnBranch, c
  <2> QED
    BY <2>1, <2>2
<1>6. AboveReplaced'
  <2> SUFFICES ASSUME NEW h \in Height, blocks'[h] # NoBlock, h > HeightOf[c]
               PROVE  Replaced(blocks'[h], h, feed)
    BY <1>1 DEF AboveReplaced
  <2>1. blocks'[h] = blocks[h]
    BY <1>2, <1>4
  <2> QED
    BY <1>1, <2>1 DEF Fresh, AboveReplaced, c
<1> QED
  BY <1>1, <1>3, <1>5, <1>6 DEF Fresh, NothingStored, NotYetStored, c

LEMMA FreshStep ==
    ASSUME WatchTypeOK, HeadFetchedByHash, FeedLinked, NotStarted, HeadStored, BlocksAtHeight, Fresh,
           [WatchNext]_watchVars, ~DropSubscription, ~SaveWithoutReceipts, ~Break, ~Restart
    PROVE  Fresh'
<1>1. CASE Receive
  BY <1>1, FreshReceive
<1>2. CASE SaveWithReceipts
  BY <1>2, FreshSave
<1>3. CASE Fetch
  <2>1. watcher.pc # "wait" /\ watcher'.pc # "wait" /\ watcher'.head = watcher.head
    BY <1>3, FetchFields
  <2>2. feed' = feed /\ blocks' = blocks
    BY <1>3 DEF Fetch, storeVars, feedVars
  <2> QED
    BY <2>1, <2>2 DEF Fresh, NothingStored, OnBranch, NotYetStored, AboveReplaced
<1>4. ASSUME NEW b \in Block, NewTip(b) PROVE Fresh'
  <2>1. watcher' = watcher /\ blocks' = blocks
    BY <1>4 DEF NewTip, watcherVars, storeVars
  <2>2. ASSUME NEW h \in Height, Replaced(blocks[h], h, feed) PROVE Replaced(blocks[h], h, feed')
    <3>1. CASE feed' = feed
      BY <2>2, <3>1
    <3>2. CASE feed' # feed
      <4>1. PICK s \in NewHeaders(b) : feed' = feed \o s
        BY <1>4, <3>2 DEF NewTip
      <4>2. s \in Seq(Block) /\ feed \in Seq(Block)
        BY NewHeadersTyped DEF WatchTypeOK
      <4> QED
        BY <2>2, <4>1, <4>2, ReplacedAppend
    <3> QED
      BY <3>1, <3>2
  <2> QED
    BY <2>1, <2>2 DEF Fresh, NothingStored, OnBranch, NotYetStored, AboveReplaced
<1>5. CASE Subscribe \/ Observe \/ Maintain
  <2>1. watcher' = watcher /\ feed' = feed /\ blocks' = blocks
    BY <1>5, ElsewhereSteps DEF Elsewhere
  <2> QED
    BY <2>1 DEF Fresh, NothingStored, OnBranch, NotYetStored, AboveReplaced
<1>6. CASE UNCHANGED watchVars
  <2>1. watcher' = watcher /\ feed' = feed /\ blocks' = blocks
    BY <1>6 DEF watchVars, watcherVars, feedVars, storeVars
  <2> QED
    BY <2>1 DEF Fresh, NothingStored, OnBranch, NotYetStored, AboveReplaced
<1> QED
  BY <1>1, <1>2, <1>3, <1>4, <1>5, <1>6 DEF WatchNext, Watch

LEMMA MempoolKeepsBlocks ==
    ASSUME StoreInv, Observe \/ Maintain, NEW t \in Tx
    PROVE  transactions'[t].block = transactions[t].block
BY BlockKept DEF Observe, Maintain

LEMMA RowsFollowStep ==
    ASSUME WatchTypeOK, StoreInv, HeadFetchedByHash, FeedLinked, NotStarted, HeadStored, Fresh, RowsFollow,
           [WatchNext]_watchVars, ~DropSubscription, ~SaveWithoutReceipts, ~Break, ~Restart
    PROVE  RowsFollow'
<1>0. \A b \in Block : TxsOf[b] \in SUBSET Tx
  BY ChainAssumption DEF ChainAssumption
<1>1. CASE Receive
  <2>1. /\ transactions' = transactions
        /\ watcher.head = NoBlock => Processed' = {}
        /\ watcher.head # NoBlock => Processed' \subseteq Processed
    BY <1>1, ReceiveInLine
  <2> QED
    BY <2>1 DEF RowsFollow
<1>2. CASE SaveWithReceipts
  <2> DEFINE c == watcher.head
             rows == RevertedRows(c)
  <2>1. /\ c \in Block /\ c # NoBlock /\ watcher'.head = c /\ SaveBlock(c, TRUE)
        /\ Processed' \subseteq Processed \cup {c}
        /\ \A b \in Processed : b \in Branch[c] /\ b # c /\ b \in Block /\ HeightOf[b] # HeightOf[c]
    BY <1>2, SaveHead, FreshSave
  <2>2. PICK receipts \in BOOLEAN : SaveBlock(c, receipts)
    BY <2>1
  <2>3. rows \in [Tx -> Row] /\ transactions' = MinedRows(c, receipts, rows)
    BY <2>1, <2>2, RevertTyped DEF SaveBlock, StoreInv
  <2> HIDE DEF c, rows
  <2>4. ASSUME NEW t \in TxsOf[c] PROVE transactions'[t].block = HeightOf[c]
    BY <1>0, <2>1, <2>3, MinedColumns
  <2>5. ASSUME NEW b \in Processed, NEW t \in TxsOf[b] PROVE transactions'[t].block = HeightOf[b]
    <3>1. b \in Block /\ t \in Tx /\ HeightOf[b] # HeightOf[c] /\ transactions[t].block = HeightOf[b]
      BY <1>0, <2>1, <2>5 DEF RowsFollow, c
    <3>2. t \notin TxsOf[c]
      <4>1. b \in Branch[c] /\ c \in Branch[c] /\ b # c
        BY <2>1, BlockFacts
      <4>2. TxsOf[b] \cap TxsOf[c] = {}
        BY <2>1, <4>1, WatcherAssumption DEF WatcherAssumption
      <4> QED
        BY <2>5, <4>2
    <3>3. rows[t].block = transactions[t].block
      BY <2>1, <3>1, RevertedColumns DEF StoreInv, rows
    <3> QED
      BY <2>1, <2>3, <3>1, <3>2, <3>3, MinedColumns
  <2> QED
    BY <2>1, <2>4, <2>5 DEF RowsFollow
<1>3. CASE Fetch
  <2>1. watcher.pc # "wait" /\ watcher'.pc # "wait" /\ watcher'.head = watcher.head
    BY <1>3, FetchFields
  <2>2. first' = first /\ transactions' = transactions
    BY <1>3 DEF Fetch, storeVars
  <2> QED
    BY <2>1, <2>2 DEF RowsFollow, Processed
<1>4. CASE Observe \/ Maintain
  <2>1. watcher' = watcher /\ first' = first /\ Processed' = Processed
    BY <1>4, ElsewhereSteps DEF Elsewhere, Processed
  <2>2. watcher.head # NoBlock => \A b \in Processed : b \in Block
    BY BlockFacts DEF Processed, WatchTypeOK, Watcher
  <2> QED
    BY <1>0, <1>4, <2>1, <2>2, MempoolKeepsBlocks DEF RowsFollow
<1>5. CASE Subscribe \/ \E b \in Block : NewTip(b)
  <2>1. watcher' = watcher /\ first' = first /\ transactions' = transactions
    BY <1>5 DEF Subscribe, NewTip, watcherVars, storeVars
  <2> QED
    BY <2>1 DEF RowsFollow, Processed
<1>6. CASE UNCHANGED watchVars
  <2>1. watcher' = watcher /\ first' = first /\ transactions' = transactions
    BY <1>6 DEF watchVars, watcherVars, storeVars
  <2> QED
    BY <2>1 DEF RowsFollow, Processed
<1> QED
  BY <1>1, <1>2, <1>3, <1>4, <1>5, <1>6 DEF WatchNext, Watch

LEMMA TransfersFollowStep ==
    ASSUME \A b, c \in Block : TransfersOf[b] \cap TransfersOf[c] # {} => HeightOf[b] = HeightOf[c],
           WatchTypeOK, StoreInv, BlocksAtHeight, HeadFetchedByHash, FeedLinked, NotStarted, HeadStored,
           Fresh, TransfersFollow,
           [WatchNext]_watchVars, ~DropSubscription, ~SaveWithoutReceipts, ~Break, ~Restart
    PROVE  TransfersFollow'
<1>0. \A b \in Block : TransfersOf[b] \in SUBSET Transfer
  BY ChainAssumption DEF ChainAssumption
<1>1. CASE Receive
  <2>1. /\ tokenTransfers' = tokenTransfers
        /\ watcher.head = NoBlock => Processed' = {}
        /\ watcher.head # NoBlock => Processed' \subseteq Processed
    BY <1>1, ReceiveInLine
  <2> QED
    BY <2>1 DEF TransfersFollow
<1>2. CASE SaveWithReceipts
  <2> DEFINE c == watcher.head
             table == RevertedTransfers(c)
  <2>1. /\ c \in Block /\ c # NoBlock /\ watcher'.head = c /\ SaveBlock(c, TRUE)
        /\ Processed' \subseteq Processed \cup {c}
        /\ \A b \in Processed : b \in Block /\ HeightOf[b] # HeightOf[c]
    BY <1>2, SaveHead, FreshSave
  <2>2. HeightOf[c] \in Height /\ HeightOf[c] # Null
    BY <2>1, BlockFacts, NullIsNoHeight
  <2>3. ASSUME NEW x \in Transfer
        PROVE  /\ x \in TransfersOf[c] => tokenTransfers'[x] # Null
               /\ table[x] # Null => tokenTransfers'[x] # Null
    <3>1. tokenTransfers'[x] = IF x \in TransfersOf[c] /\ table[x] = Null THEN HeightOf[c] ELSE table[x]
      BY <2>1 DEF SaveBlock, InsertedTransfers, Decoded
    <3> HIDE DEF c, table
    <3> QED
      BY <2>2, <3>1
  <2>4. ASSUME NEW b \in Processed, NEW x \in TransfersOf[b] PROVE table[x] # Null
    <3>1. b \in Block /\ x \in Transfer /\ HeightOf[b] # HeightOf[c] /\ tokenTransfers[x] # Null
      BY <1>0, <2>1, <2>4 DEF TransfersFollow
    <3>2. tokenTransfers[x] # HeightOf[c]
      <4> SUFFICES ASSUME tokenTransfers[x] = HeightOf[c] PROVE FALSE
        OBVIOUS
      <4> DEFINE d == blocks[HeightOf[c]]
      <4>1. d # NoBlock /\ x \in TransfersOf[d]
        BY <2>2, <3>1 DEF StoreInv, TransferInStoredBlock
      <4>2. d \in Block /\ HeightOf[d] = HeightOf[c]
        BY <2>2, <4>1 DEF BlocksAtHeight
      <4> HIDE DEF d, c
      <4> QED
        BY <2>4, <3>1, <4>1, <4>2
    <3> QED
      BY <3>1, <3>2 DEF RevertedTransfers
  <2>5. \A b \in Processed' : \A x \in TransfersOf[b] : x \in Transfer
    <3>1. Processed' \subseteq Block
      BY <2>1
    <3> QED
      BY <1>0, <3>1
  <2> HIDE DEF table
  <2> QED
    BY <2>1, <2>3, <2>4, <2>5 DEF TransfersFollow
<1>3. CASE Fetch
  <2>1. watcher.pc # "wait" /\ watcher'.pc # "wait" /\ watcher'.head = watcher.head
    BY <1>3, FetchFields
  <2>2. first' = first /\ tokenTransfers' = tokenTransfers
    BY <1>3 DEF Fetch, storeVars
  <2> QED
    BY <2>1, <2>2 DEF TransfersFollow, Processed
<1>4. CASE Observe \/ Maintain \/ Subscribe \/ \E b \in Block : NewTip(b)
  <2>1. watcher' = watcher /\ first' = first /\ tokenTransfers' = tokenTransfers
    BY <1>4 DEF Observe, Maintain, SaveTransaction, MarkDroppedTransactions, Subscribe, NewTip,
                watcherVars, storeVars
  <2> QED
    BY <2>1 DEF TransfersFollow, Processed
<1>5. CASE UNCHANGED watchVars
  <2>1. watcher' = watcher /\ first' = first /\ tokenTransfers' = tokenTransfers
    BY <1>5 DEF watchVars, watcherVars, storeVars
  <2> QED
    BY <2>1 DEF TransfersFollow, Processed
<1> QED
  BY <1>1, <1>2, <1>3, <1>4, <1>5 DEF WatchNext, Watch

\* The invariant of an undisturbed watcher.
ChainInv ==
    /\ WatchInv /\ StoreInv /\ BlocksAtHeight
    /\ Undisturbed => Fresh /\ RowsFollow

LEMMA ChainInvInit == WatchInit => ChainInv
<1> SUFFICES ASSUME WatchInit PROVE ChainInv
  OBVIOUS
<1>1. watcher.head = NoBlock /\ blocks = [n \in Height |-> NoBlock]
  BY DEF WatchInit, Started, StoreInit
<1>2. Fresh /\ RowsFollow /\ BlocksAtHeight
  BY <1>1 DEF Fresh, NothingStored, OnBranch, NotYetStored, AboveReplaced, RowsFollow, BlocksAtHeight
<1> QED
  BY <1>2, WatchInvInit, StoreInvInit DEF ChainInv, WatchInit

\* An undisturbed watcher takes no disturbing step, and its feed and its head are in order.
LEMMA Calm ==
    ASSUME ChainInv, [WatchNext]_watchVars, Undisturbed'
    PROVE  /\ Undisturbed /\ Fresh /\ RowsFollow /\ FeedLinked /\ HeadStored
           /\ ~DropSubscription /\ ~SaveWithoutReceipts /\ ~Break /\ ~Restart
<1>1. WatchTypeOK /\ CountersOK
  BY DEF ChainInv, WatchInv
<1>2. /\ Undisturbed
      /\ ~DropSubscription /\ ~SaveWithoutReceipts /\ ~Break /\ ~Restart
  BY <1>1, CountersStep DEF Undisturbed
<1> QED
  BY <1>2 DEF ChainInv, WatchInv, Undisturbed

LEMMA ChainInvStep == ChainInv /\ [WatchNext]_watchVars => ChainInv'
<1> SUFFICES ASSUME ChainInv, [WatchNext]_watchVars PROVE ChainInv'
  OBVIOUS
<1>1. WatchInv' /\ StoreInv' /\ BlocksAtHeight'
  BY WatchInvStep, TablesStep, StoreInvStep, BlocksAtHeightStep DEF ChainInv, WatchInv
<1>2. ASSUME Undisturbed' PROVE Fresh' /\ RowsFollow'
  BY <1>2, Calm, FreshStep, RowsFollowStep DEF ChainInv, WatchInv
<1> QED
  BY <1>1, <1>2 DEF ChainInv

\* Undisturbed and settled, every transaction of a recent canonical block is mined, and the
\* block stored at its recorded height contains it: no reorg in between, however it moved the
\* transaction or a rival of it, leaves a row behind.
THEOREM WatchTxsMined == WatchSpec => []CanonicalTxsMined
<1>1. ASSUME ChainInv PROVE CanonicalTxsMined
  <2> SUFFICES ASSUME Undisturbed, Settled, NEW b \in Recent, NEW t \in TxsOf[b]
               PROVE  /\ transactions[t].status = "mined"
                      /\ t \in TxsOf[blocks[transactions[t].block]]
    BY DEF CanonicalTxsMined
  <2>1. watcher.head # NoBlock /\ b \in Processed /\ b \in Block
    BY <1>1, SettledRecent, BlockFacts DEF ChainInv, WatchInv
  <2>2. transactions[t].block = HeightOf[b] /\ t \in Tx /\ HeightOf[b] # Null
    BY <1>1, <2>1, BlockFacts, NullIsNoHeight, ChainAssumption DEF ChainInv, RowsFollow, ChainAssumption
  <2> QED
    BY <1>1, <2>2 DEF ChainInv, StoreInv, MinedRowInStoredBlock
<1> QED
  BY <1>1, ChainInvInit, ChainInvStep, PTL DEF WatchSpec

\* Undisturbed and settled, every token transfer of a recent canonical block is stored, when a
\* transfer's transaction is only ever mined at one height: a reorg that moves it to an earlier
\* height can lose it, which the run watcher_deepreorg shows.
THEOREM WatchTransfersStored ==
    ASSUME \A b, c \in Block : TransfersOf[b] \cap TransfersOf[c] # {} => HeightOf[b] = HeightOf[c]
    PROVE  WatchSpec => []CanonicalTransfersStored
<1> DEFINE I == ChainInv /\ (Undisturbed => TransfersFollow)
<1>1. WatchInit => I
  BY ChainInvInit DEF WatchInit, Started, TransfersFollow
<1>2. ASSUME I, [WatchNext]_watchVars PROVE I'
  <2>1. ASSUME Undisturbed' PROVE TransfersFollow'
    BY <1>2, <2>1, Calm, TransfersFollowStep DEF ChainInv, WatchInv
  <2> QED
    BY <1>2, <2>1, ChainInvStep
<1>3. ASSUME I PROVE CanonicalTransfersStored
  <2> SUFFICES ASSUME Undisturbed, Settled, NEW b \in Recent, NEW x \in TransfersOf[b]
               PROVE  tokenTransfers[x] # Null
    BY DEF CanonicalTransfersStored
  <2>1. watcher.head # NoBlock /\ b \in Processed
    BY <1>3, SettledRecent, BlockFacts DEF ChainInv, WatchInv
  <2> QED
    BY <1>3, <2>1 DEF TransfersFollow
<1> QED
  BY <1>1, <1>2, <1>3, PTL DEF WatchSpec
=============================================================================

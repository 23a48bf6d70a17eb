---------------------------- MODULE CircularFlow ----------------------------
(***************************************************************************)
(* The circular-flow detector: detectLoop of ingestion/enrichment.go,      *)
(* Evaluate of forensics/circular.go and FindReturnPath of store/neo4j.go, *)
(* run by the enrichment workers.  A worker writes the edges of a          *)
(* transaction first and then searches the graph for paths that its        *)
(* transfers close.  Jobs are claimed in any order, at once, and again.    *)
(*                                                                         *)
(* A leg is an ether or token transfer between two accounts.  Mints and    *)
(* burns have no edge and are left out, as is the contract analysis        *)
(* (ContractAnalysis) that comes between the writes and the search.        *)
(***************************************************************************)
EXTENDS EnrichmentJobs, Sequences

CONSTANTS
    Leg,            \* transfers
    Ether,          \* legs that are the value transfer of a transaction (:SENT)
    Closing,        \* ether legs that are searched: no calldata and a value
    TxOf,           \* leg -> its transaction
    From, To,       \* leg -> normalised account
    Moment,         \* leg -> first seen (ether) or mined (token)
    MaxHops,        \* CircularMaxHops
    Window,         \* CircularWindow
    Worker,
    MaxFaults       \* bound on failing calls and restarts

ASSUME CircularAssumption ==
    /\ Closing \subseteq Ether /\ Ether \subseteq Leg
    /\ TxOf \in [Leg -> Tx]
    /\ \A l \in Leg : From[l] # To[l]
    /\ Moment \in [Leg -> Nat]
    /\ \A k, l \in Ether : TxOf[k] = TxOf[l] => k = l
    /\ {MaxHops, Window, MaxFaults} \subseteq Nat

VARIABLES
    jobs,           \* hash -> row of enrichment_jobs
    mined,          \* transactions whose block, with its token transfers, is stored
    edges,          \* legs in the graph
    flags,          \* circular_flow flags: key and evidence
    worker,         \* worker -> the call it makes next, with the locals of enrich
    evaluated,      \* history: legs whose Evaluate has returned without an error
    faults

circularVars == <<jobs, mined, edges, flags, worker, evaluated, faults>>

Idle == [pc |-> "idle"]

\* ready: graphReady.  rest: the transfers detectLoop has yet to look at; loop: the one found.
Enriching ==
    [pc : {"edge", "read", "transfers", "search", "flag"}, tx : Tx, ready : BOOLEAN,
     failed : BOOLEAN, rest : SUBSET Leg, loop : Seq(Leg)]

EtherOf(t) == {l \in Ether : TxOf[l] = t}

TokensOf(t) == {l \in Leg \ Ether : TxOf[l] = t}

CircularInit ==
    /\ jobs = [t \in Tx |-> NoJob]
    /\ mined = {}
    /\ edges = {} /\ flags = {}
    /\ worker = [w \in Worker |-> Idle]
    /\ evaluated = {}
    /\ faults = 0
-----------------------------------------------------------------------------
(***************************************************************************)
(* FindReturnPath.                                                         *)
(***************************************************************************)

InWindow(k, l) == Moment[k] <= Moment[l] /\ Moment[l] <= Moment[k] + Window

\* A closing leg followed by a path of other legs: value left To[q[1]] and came back to
\* From[q[1]] through distinct transfers in the order of their moments.
Loops ==
    {q \in UNION {[1 .. n -> Leg] : n \in 2 .. MaxHops + 1} :
        /\ \A i \in 1 .. Len(q) : To[q[i]] = From[q[(i % Len(q)) + 1]]
        /\ \A i, j \in 2 .. Len(q) : i < j => q[i] # q[j] /\ Moment[q[i]] <= Moment[q[j]]
        /\ \A i \in 2 .. Len(q) : InWindow(q[i], q[1])}

\* The loops that l closes over the graph G.
ClosedBy(l, G) == {q \in Loops : q[1] = l /\ \A i \in 2 .. Len(q) : q[i] \in G}

\* Mutant of Found: only transfers before the closing one.
FoundEarlier(l) ==
    {q \in ClosedBy(l, edges) : \A i \in 2 .. Len(q) : Moment[q[i]] < Moment[l]}

\* ORDER BY hops LIMIT 1: any of the shortest.
Found(l) ==
    LET loops == ClosedBy(l, edges)
    IN  {q \in loops : \A r \in loops : Len(q) <= Len(r)}
-----------------------------------------------------------------------------
(***************************************************************************)
(* A worker.                                                               *)
(***************************************************************************)
At(w, phase) == worker[w].pc = phase

Fault == faults < MaxFaults /\ faults' = faults + 1

Claim(w, t) ==
    /\ worker[w] = Idle
    /\ Claimable(jobs[t])
    /\ jobs' = [jobs EXCEPT ![t] = Claimed(jobs[t])]
    /\ worker' = [worker EXCEPT ![w] =
                    [pc |-> "edge", tx |-> t, ready |-> FALSE, failed |-> FALSE,
                     rest |-> {}, loop |-> <<>>]]
    /\ UNCHANGED <<mined, edges, flags, evaluated, faults>>

\* A write of legs that succeeds, or fails before or after the commit; next is what enrich
\* holds afterwards.
Write(w, legs, next) ==
    \/ /\ edges' = edges \cup legs
       /\ worker' = [worker EXCEPT ![w] = next]
       /\ UNCHANGED faults
    \/ /\ edges' \in {edges, edges \cup legs}
       /\ worker' = [worker EXCEPT ![w] = [next EXCEPT !.ready = FALSE, !.failed = TRUE]]
       /\ Fault

\* SaveTransaction, when there is a recipient.
SaveEdge(w) ==
    LET this == worker[w] IN
    /\ At(w, "edge")
    /\ IF EtherOf(this.tx) # {}
       THEN Write(w, EtherOf(this.tx), [this EXCEPT !.pc = "read", !.ready = TRUE])
       ELSE /\ worker' = [worker EXCEPT ![w].pc = "read"]
            /\ UNCHANGED <<edges, faults>>
    /\ UNCHANGED <<jobs, mined, flags, evaluated>>

\* TokenTransfersForTransaction: the block may not have arrived.
ReadTransfers(w) ==
    LET t == worker[w].tx IN
    /\ At(w, "read")
    /\ \/ /\ worker' = [worker EXCEPT ![w].pc = "transfers",
                                      ![w].rest = IF t \in mined THEN TokensOf(t) ELSE {}]
          /\ UNCHANGED faults
       \/ worker' = [worker EXCEPT ![w].pc = "transfers", ![w].failed = TRUE] /\ Fault
    /\ UNCHANGED <<jobs, mined, edges, flags, evaluated>>

\* SaveTokenTransfers, when there are any.  Without a recipient they make the graph ready.
SaveTokenTransfers(w) ==
    LET this == worker[w]
        next == [this EXCEPT !.pc = "search", !.rest = @ \cup (Closing \cap EtherOf(this.tx))]
    IN
    /\ At(w, "transfers")
    /\ IF this.rest # {}
       THEN Write(w, this.rest, [next EXCEPT !.ready = @ \/ EtherOf(this.tx) = {}])
       ELSE /\ worker' = [worker EXCEPT ![w] = next]
            /\ UNCHANGED <<edges, faults>>
    /\ UNCHANGED <<jobs, mined, flags, evaluated>>

\* Evaluate, first half: nothing to flag, or a loop of l and a return path.
Search(w) ==
    LET this == worker[w] IN
    /\ At(w, "search") /\ this.ready
    /\ \E l \in this.rest :
          \/ /\ Found(l) = {}
             /\ worker' = [worker EXCEPT ![w].rest = @ \ {l}]
             /\ evaluated' = evaluated \cup {l}
             /\ UNCHANGED faults
          \/ /\ \E loop \in Found(l) :
                   worker' = [worker EXCEPT ![w].pc = "flag", ![w].rest = @ \ {l},
                                            ![w].loop = loop]
             /\ UNCHANGED <<evaluated, faults>>
          \/ /\ worker' = [worker EXCEPT ![w].rest = @ \ {l}]
             /\ Fault
             /\ UNCHANGED evaluated
    /\ UNCHANGED <<jobs, mined, edges, flags>>

\* SaveFlag: ON CONFLICT (tx_hash, address, flag_type) DO NOTHING.
Flagged(l) == \E f \in flags : f.tx = TxOf[l] /\ f.address = From[l]

\* Evaluate, second half.  detectLoop only logs an error.
SaveFlag(w) ==
    LET loop == worker[w].loop
        l == loop[1]
    IN
    /\ At(w, "flag")
    /\ worker' = [worker EXCEPT ![w].pc = "search", ![w].loop = <<>>]
    /\ \/ /\ flags' = IF Flagged(l) THEN flags
                      ELSE flags \cup {[tx |-> TxOf[l], address |-> From[l], loop |-> loop]}
          /\ evaluated' = evaluated \cup {l}
          /\ UNCHANGED faults
       \/ UNCHANGED <<flags, evaluated>> /\ Fault
    /\ UNCHANGED <<jobs, mined, edges>>

\* MarkEnrichmentDone or MarkEnrichmentFailed.
Mark(w) ==
    LET this == worker[w] IN
    /\ At(w, "search")
    /\ this.rest = {} \/ ~this.ready
    /\ jobs' = [jobs EXCEPT ![this.tx] = IF this.failed THEN MarkedFailed(@) ELSE MarkedDone(@)]
    /\ worker' = [worker EXCEPT ![w] = Idle]
    /\ UNCHANGED <<mined, edges, flags, evaluated, faults>>

Enrich(w) ==
    \/ SaveEdge(w) \/ ReadTransfers(w) \/ SaveTokenTransfers(w)
    \/ Search(w) \/ SaveFlag(w)
    \/ Mark(w)
-----------------------------------------------------------------------------
\* A pending transaction with a recipient is stored and queued.
SaveTransaction(t) ==
    /\ EtherOf(t) # {} /\ jobs[t] = NoJob
    /\ jobs' = Enqueue(jobs, {t})
    /\ UNCHANGED <<mined, edges, flags, worker, evaluated, faults>>

\* The block of t arrives: SaveBlock queues its job, again if it has token transfers.
SaveBlock(t) ==
    /\ t \notin mined
    /\ mined' = mined \cup {t}
    /\ jobs' = IF TokensOf(t) # {} THEN Requeue(jobs, {t}) ELSE Enqueue(jobs, {t})
    /\ UNCHANGED <<edges, flags, worker, evaluated, faults>>

TimePasses(t) ==
    /\ jobs[t].status \in {"pending", "processing"}
    /\ ~jobs[t].due
    /\ jobs' = [jobs EXCEPT ![t].due = TRUE]
    /\ UNCHANGED <<mined, edges, flags, worker, evaluated, faults>>

Restart ==
    /\ Fault
    /\ worker' = [w \in Worker |-> Idle]
    /\ UNCHANGED <<jobs, mined, edges, flags, evaluated>>

CircularNext ==
    \/ \E w \in Worker : Enrich(w) \/ \E t \in Tx : Claim(w, t)
    \/ \E t \in Tx : SaveTransaction(t) \/ SaveBlock(t) \/ TimePasses(t)
    \/ Restart

CircularSpec == CircularInit /\ [][CircularNext]_circularVars
-----------------------------------------------------------------------------
(***************************************************************************)
(* Properties.                                                             *)
(***************************************************************************)

\* Only legs that are in the graph are searched, by the transaction that carries them.
CircularTypeOK ==
    /\ jobs \in [Tx -> Job]
    /\ mined \subseteq Tx /\ edges \subseteq Leg /\ evaluated \subseteq edges
    /\ flags \subseteq [tx : Tx, address : {From[l] : l \in Leg}, loop : Seq(Leg)]
    /\ worker \in [Worker -> Enriching \cup {Idle}]
    /\ \A w \in Worker : At(w, "search") /\ worker[w].ready => worker[w].rest \subseteq edges
    /\ faults \in 0 .. MaxFaults

\* Legs that all close a path over the others: the loops within one moment, of one block.
Circles == {L \in (SUBSET Leg) \ {{}} : \A l \in L : ClosedBy(l, L) # {}}

\* Each transaction writes its edges before it searches, so of the transfers of a circle,
\* enriched at once by different workers, the one that searches last finds the loop.
CircleIsFlagged ==
    \A L \in Circles : L \subseteq evaluated => \E l \in L : Flagged(l)
=============================================================================

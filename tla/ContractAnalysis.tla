-------------------------- MODULE ContractAnalysis --------------------------
(***************************************************************************)
(* The bytecode detector: analyseContract of ingestion/enrichment.go and   *)
(* EvaluateContract of forensics/anomaly.go, run by the enrichment         *)
(* workers, against handleLabelEntity of api/server.go and PropagateLabel, *)
(* run by an investigator's request, and ReembedMissing, run by            *)
(* maintenance.  All of them read and write contract_vectors, the labels   *)
(* and the flags, one statement at a time.                                 *)
(*                                                                         *)
(* Jobs are the rows of EnrichmentJobs; the other calls of enrich are in   *)
(* EnrichmentQueue.  Risk is "medium or high" or not.  The nearest         *)
(* neighbours of a contract are its clones (at or above the similarity     *)
(* threshold) before any other, in any order among themselves.             *)
(***************************************************************************)
EXTENDS EnrichmentJobs, FiniteSetsExt

CONSTANTS
    Contract,       \* contract addresses
    Clones,         \* contract -> the contracts whose code is similar to its own
    TargetOf,       \* transaction -> contractTarget
    Legacy,         \* contracts stored by the first vector model, without an embedding
    Worker,
    Investigator,   \* concurrent labelling requests
    EvaluateLimit,  \* neighbours EvaluateContract reads
    PropagateLimit, \* neighbours PropagateLabel reads
    Fault,          \* what may go wrong: "error", "abandon", "restart"
    MaxFaults       \* bound: how often

ASSUME AnalysisAssumption ==
    /\ Clones \in [Contract -> SUBSET Contract]
    /\ \A c, d \in Contract : c \notin Clones[c] /\ (d \in Clones[c] => c \in Clones[d])
    /\ TargetOf \in [Tx -> Contract]
    /\ Legacy \subseteq Contract
    /\ IsFiniteSet(Contract)
    /\ Fault \subseteq {"error", "abandon", "restart"}
    /\ {EvaluateLimit, PropagateLimit, MaxFaults} \subseteq Nat

VARIABLES
    jobs,           \* hash -> row of enrichment_jobs
    embedded,       \* contract_vectors: rows with an embedding
    marked,         \* contract_vectors: rows with flagged = TRUE
    risky,          \* known_entities: contracts labelled medium or high
    flags,          \* forensic_flags: contracts with a similar_bytecode flag
    worker,         \* worker -> the call it makes next
    request,        \* investigator -> the call its request makes next
    unseen,         \* history: contracts labelled risky before they had an embedding
    faults

riskVars == <<embedded, marked, risky, flags>>
analysisVars == <<jobs, riskVars, worker, request, unseen, faults>>

Idle == [pc |-> "idle"]

\* failed: analyseContract returned an error.
Busy == [pc : {"fetch", "store", "compare", "mark", "save", "finish"},
         tx : Tx, failed : BOOLEAN]

\* match: the contract PropagateLabel is flagging; rest: those it has yet to flag.
Labelling ==
    [pc : {"propagate"}, contract : Contract]
    \cup [pc : {"mark", "save"}, contract : Contract, rest : SUBSET Contract, match : Contract]

AnalysisInit ==
    /\ jobs = [t \in Tx |-> FreshJob]
    /\ embedded = {} /\ marked = {} /\ risky = {} /\ flags = {}
    /\ worker = [w \in Worker |-> Idle]
    /\ request = [i \in Investigator |-> Idle]
    /\ unseen = {}
    /\ faults = 0

\* The answers of a search that ends after limit neighbours, without those that are not clones.
Nearest(c, limit) ==
    LET stored == Clones[c] \cap embedded IN
    kSubset(Min({limit, Cardinality(stored)}), stored)

\* Mutant of Risky: labels are not read.
RiskyByFlag(c) == c \in marked \cup flags

\* riskyNeighbour: marked, or risky by label or flag (address_risk_level).
Risky(c) == c \in marked \cup risky \cup flags

Happens(fault) == fault \in Fault /\ faults < MaxFaults /\ faults' = faults + 1
-----------------------------------------------------------------------------
(***************************************************************************)
(* A worker.                                                               *)
(***************************************************************************)
Claim(w, t) ==
    /\ worker[w] = Idle
    /\ Claimable(jobs[t])
    /\ jobs' = [jobs EXCEPT ![t] = Claimed(jobs[t])]
    /\ worker' = [worker EXCEPT ![w] = [pc |-> "fetch", tx |-> t, failed |-> FALSE]]
    /\ UNCHANGED <<riskVars, request, unseen, faults>>

At(w, phase) == worker[w].pc = phase

Target(w) == TargetOf[worker[w].tx]

GoTo(w, phase) == worker' = [worker EXCEPT ![w].pc = phase] /\ UNCHANGED faults

\* An error ends analyseContract.
Fail(w) == worker' = [worker EXCEPT ![w].pc = "finish", ![w].failed = TRUE] /\ Happens("error")

\* HasEmbedding, then CodeAt, UpsertAccount and MarkContract.  A contract that is embedded
\* is skipped, and so is one that is not deployed yet at the node's head.
FetchCode(w) ==
    /\ At(w, "fetch")
    /\ \/ Target(w) \notin embedded /\ GoTo(w, "store")
       \/ GoTo(w, "finish")
       \/ Fail(w)
    /\ UNCHANGED <<jobs, riskVars, request, unseen>>

\* Mutant of StoreContract: the flag of the row is reset.
StoreContractAnew(w) ==
    /\ At(w, "store")
    /\ \/ /\ embedded' = embedded \cup {Target(w)}
          /\ marked' = marked \ {Target(w)}
          /\ GoTo(w, "compare")
       \/ UNCHANGED <<embedded, marked>> /\ Fail(w)
    /\ UNCHANGED <<jobs, risky, flags, request, unseen>>

\* UpsertContract keeps the flag of a row that exists.
StoreContract(w) ==
    /\ At(w, "store")
    /\ \/ embedded' = embedded \cup {Target(w)} /\ GoTo(w, "compare")
       \/ UNCHANGED embedded /\ Fail(w)
    /\ UNCHANGED <<jobs, marked, risky, flags, request, unseen>>

\* EvaluateContract: one statement reads the neighbours with their risk.
Compare(w) ==
    /\ At(w, "compare")
    /\ \/ \E found \in Nearest(Target(w), EvaluateLimit) :
             GoTo(w, IF \E c \in found : Risky(c) THEN "mark" ELSE "finish")
       \/ Fail(w)
    /\ UNCHANGED <<jobs, riskVars, request, unseen>>

\* flag: MarkFlagged, then SaveFlag.
MarkFlagged(w) ==
    /\ At(w, "mark")
    /\ \/ marked' = marked \cup {Target(w)} /\ GoTo(w, "save")
       \/ UNCHANGED marked /\ Fail(w)
    /\ UNCHANGED <<jobs, embedded, risky, flags, request, unseen>>

SaveFlag(w) ==
    /\ At(w, "save")
    /\ \/ flags' = flags \cup {Target(w)} /\ GoTo(w, "finish")
       \/ UNCHANGED flags /\ Fail(w)
    /\ UNCHANGED <<jobs, embedded, marked, risky, request, unseen>>

Finish(w) ==
    LET t == worker[w].tx IN
    /\ At(w, "finish")
    /\ worker' = [worker EXCEPT ![w] = Idle]
    /\ \/ /\ jobs' = [jobs EXCEPT ![t] = IF worker[w].failed THEN MarkedFailed(@) ELSE MarkedDone(@)]
          /\ UNCHANGED faults
       \/ UNCHANGED jobs /\ Happens("error")
    /\ UNCHANGED <<riskVars, request, unseen>>

Analyse(w) ==
    \/ FetchCode(w) \/ StoreContract(w)
    \/ Compare(w) \/ MarkFlagged(w) \/ SaveFlag(w)
    \/ Finish(w)
-----------------------------------------------------------------------------
(***************************************************************************)
(* A labelling request.                                                    *)
(***************************************************************************)

\* UpsertKnownEntity with a medium or high risk.
Label(i, c) ==
    /\ request[i] = Idle
    /\ risky' = risky \cup {c}
    /\ request' = [request EXCEPT ![i] = [pc |-> "propagate", contract |-> c]]
    /\ UNCHANGED <<jobs, embedded, marked, flags, worker, unseen, faults>>

\* UpsertKnownEntity with none or low: nothing is propagated and no flag is taken back.
Unlabel(i, c) ==
    /\ request[i] = Idle
    /\ c \in risky /\ risky' = risky \ {c}
    /\ UNCHANGED <<jobs, embedded, marked, flags, worker, request, unseen, faults>>

\* An error ends the request, whose answer does not show it; so does a client that leaves.
Abandon(i) ==
    /\ request[i] # Idle
    /\ request' = [request EXCEPT ![i] = Idle]
    /\ Happens("abandon")
    /\ UNCHANGED <<jobs, riskVars, worker, unseen>>

\* PropagateLabel goes on with one of the matches it has left, or ends.
\* LatestTransactionHashFor finds the transaction that revealed the match.
Continue(i, c, rest) ==
    \/ \E match \in rest :
          request' = [request EXCEPT ![i] =
                        [pc |-> "mark", contract |-> c, rest |-> rest \ {match}, match |-> match]]
    \/ rest = {} /\ request' = [request EXCEPT ![i] = Idle]

\* SimilarContracts: nothing is similar to a contract that has no embedding itself.
Propagate(i) ==
    LET c == request[i].contract IN
    /\ request[i].pc = "propagate"
    /\ IF c \in embedded
       THEN /\ \E found \in Nearest(c, PropagateLimit) : Continue(i, c, found)
            /\ unseen' = unseen \ {c}
       ELSE /\ Continue(i, c, {})
            /\ unseen' = unseen \cup {c}
    /\ UNCHANGED <<jobs, riskVars, worker, faults>>

MarkMatch(i) ==
    /\ request[i].pc = "mark"
    /\ marked' = marked \cup {request[i].match}
    /\ request' = [request EXCEPT ![i].pc = "save"]
    /\ UNCHANGED <<jobs, embedded, risky, flags, worker, unseen, faults>>

SaveMatch(i) ==
    /\ request[i].pc = "save"
    /\ flags' = flags \cup {request[i].match}
    /\ Continue(i, request[i].contract, request[i].rest)
    /\ UNCHANGED <<jobs, embedded, marked, risky, worker, unseen, faults>>

Serve(i) == Propagate(i) \/ MarkMatch(i) \/ SaveMatch(i)
-----------------------------------------------------------------------------
\* ReembedMissing embeds stored bytecode and compares it with nothing.
ReembedMissing ==
    /\ \E c \in Legacy \ embedded : embedded' = embedded \cup {c}
    /\ UNCHANGED <<jobs, marked, risky, flags, worker, request, unseen, faults>>

TimePasses(t) ==
    /\ jobs[t].status \in {"pending", "processing"}
    /\ ~jobs[t].due
    /\ jobs' = [jobs EXCEPT ![t].due = TRUE]
    /\ UNCHANGED <<riskVars, worker, request, unseen, faults>>

Restart ==
    /\ Happens("restart")
    /\ worker' = [w \in Worker |-> Idle]
    /\ request' = [i \in Investigator |-> Idle]
    /\ UNCHANGED <<jobs, riskVars, unseen>>

AnalysisNext ==
    \/ \E w \in Worker : Analyse(w) \/ \E t \in Tx : Claim(w, t)
    \/ \E i \in Investigator :
          Serve(i) \/ Abandon(i) \/ \E c \in Contract : Label(i, c) \/ Unlabel(i, c)
    \/ ReembedMissing
    \/ \E t \in Tx : TimePasses(t)
    \/ Restart

AnalysisSpec == AnalysisInit /\ [][AnalysisNext]_analysisVars
-----------------------------------------------------------------------------
(***************************************************************************)
(* Properties.                                                             *)
(***************************************************************************)

\* Workers and requests carry what their next call needs; only rows that exist are marked.
AnalysisTypeOK ==
    /\ jobs \in [Tx -> Job]
    /\ embedded \subseteq Contract /\ risky \subseteq Contract /\ flags \subseteq Contract
    /\ marked \subseteq embedded
    /\ worker \in [Worker -> Busy \cup {Idle}]
    /\ request \in [Investigator -> Labelling \cup {Idle}]
    /\ faults \in 0 .. MaxFaults

\* c and d are stored clones and d was labelled risky when it was stored.  Contracts that
\* ReembedMissing may have embedded are never compared and are left out.
CloneOfLabelled(c, d) ==
    /\ d \in risky \ unseen
    /\ c \in Clones[d] \ Legacy
    /\ {c, d} \subseteq embedded

\* Nobody is analysing c or propagating the label of d.
AtRest(c, d) ==
    /\ \A w \in Worker : worker[w] = Idle \/ Target(w) # c
    /\ \A i \in Investigator : request[i] = Idle \/ request[i].contract # d

\* "A contract is flagged when it scores >= 0.85 against a contract labelled ... medium or
\* high risk": whether the label or the clone comes first, or both at once, either the
\* worker sees the label or the request sees the clone.  The search is taken to be exact, which
\* the index of the code is not.
NoCloneEscapes ==
    faults = 0 => \A c, d \in Contract : CloneOfLabelled(c, d) /\ AtRest(c, d) => c \in flags

\* A flag is in the risk view only with its mark on the vector row: detectors that die
\* between the two writes, or write again, never leave the flag alone.
FlagIsMarked == flags \subseteq marked
=============================================================================

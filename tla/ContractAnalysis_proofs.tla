----------------------- MODULE ContractAnalysis_proofs -----------------------
(***************************************************************************)
(* Proofs about ContractAnalysis, for any number of contracts, workers and *)
(* labelling requests: types, the order of the two flag writes, and, when  *)
(* a search returns every clone, that a label and a clone never miss each  *)
(* other.                                                                  *)
(***************************************************************************)
EXTENDS ContractAnalysis, TLAPS, FiniteSetTheorems

(***************************************************************************)
(* What is stored when a call is made.  A worker compares and flags what   *)
(* it has stored; a request flags matches that were stored; whoever is     *)
(* about to save a flag has marked the row.                                *)
(***************************************************************************)
PastStore(w) == worker[w].pc \in {"compare", "mark", "save"}

Matching(i) == request[i].pc \in {"mark", "save"}

Targets(i) == request[i].rest \cup {request[i].match}

TargetStored == \A w \in Worker : PastStore(w) => Target(w) \in embedded

MatchesStored == \A i \in Investigator : Matching(i) => Targets(i) \subseteq embedded

MarkBeforeSave ==
    /\ \A w \in Worker : At(w, "save") => Target(w) \in marked
    /\ \A i \in Investigator : request[i].pc = "save" => request[i].match \in marked

AnalysisInv ==
    /\ AnalysisTypeOK
    /\ TargetStored /\ MatchesStored
    /\ MarkBeforeSave
    /\ FlagIsMarked

Phase == {"fetch", "store", "compare", "mark", "save", "finish"}
-----------------------------------------------------------------------------
LEMMA BusyWorker ==
    ASSUME AnalysisTypeOK, NEW w \in Worker, worker[w].pc # "idle"
    PROVE  worker[w] \in Busy /\ worker[w].tx \in Tx
BY DEF AnalysisTypeOK, Busy, Idle

LEMMA BusyRequest ==
    ASSUME AnalysisTypeOK, NEW i \in Investigator, request[i].pc # "idle"
    PROVE  /\ request[i] \in Labelling /\ request[i].contract \in Contract
           /\ Matching(i) => request[i].rest \subseteq Contract /\ request[i].match \in Contract
BY DEF AnalysisTypeOK, Labelling, Idle, Matching

\* A worker's next call: only its phase changes, and on an error failed is set.
LEMMA Moves ==
    ASSUME AnalysisTypeOK, NEW w \in Worker, worker[w].pc # "idle",
           NEW phase \in Phase, NEW failed \in BOOLEAN,
           \/ worker' = [worker EXCEPT ![w].pc = phase]
           \/ worker' = [worker EXCEPT ![w].pc = phase, ![w].failed = failed]
    PROVE  /\ worker' \in [Worker -> Busy \cup {Idle}]
           /\ worker'[w].pc = phase /\ worker'[w].tx = worker[w].tx
           /\ \A v \in Worker : v # w => worker'[v] = worker[v]
<1>1. worker[w] \in Busy
  BY BusyWorker
<1>2. worker \in [Worker -> Busy \cup {Idle}]
  BY DEF AnalysisTypeOK
<1>3. \/ worker'[w] = [worker[w] EXCEPT !.pc = phase]
      \/ worker'[w] = [worker[w] EXCEPT !.pc = phase, !.failed = failed]
  BY <1>2
<1>4. \A v \in Worker : v # w => worker'[v] = worker[v]
  BY <1>2
<1>5. worker'[w] \in Busy /\ worker'[w].pc = phase /\ worker'[w].tx = worker[w].tx
  BY <1>1, <1>3 DEF Busy, Phase
<1>6. worker' = [v \in Worker |-> worker'[v]]
  BY <1>2
<1> QED
  BY <1>2, <1>4, <1>5, <1>6

\* An abandoned or failed call is counted.
LEMMA Counted ==
    ASSUME AnalysisTypeOK, NEW fault, Happens(fault)
    PROVE  faults' \in 0 .. MaxFaults /\ faults' # 0
BY AnalysisAssumption DEF AnalysisTypeOK, Happens

\* The rows of a job stay rows.
LEMMA JobRows ==
    ASSUME NEW job \in Job
    PROVE  Claimed(job) \in Job /\ MarkedDone(job) \in Job /\ MarkedFailed(job) \in Job
           /\ [job EXCEPT !.due = TRUE] \in Job
<1>1. Claimed(job) \in Job
  BY DEF Job, JobStatus, Claimed
<1>2. \A s \in JobStatus : [job EXCEPT !.status = s, !.due = FALSE] \in Job
  BY DEF Job
<1>3. MarkedDone(job) \in Job
  BY <1>2 DEF MarkedDone, JobStatus
<1>4. MarkedFailed(job) \in Job
  <2>1. (IF job.attempts >= MaxAttempts THEN "failed" ELSE "pending") \in JobStatus
    BY DEF JobStatus
  <2> QED
    BY <1>2, <2>1 DEF MarkedFailed
<1> QED
  BY <1>1, <1>3, <1>4 DEF Job

\* What a search may answer.
LEMMA NearestStored ==
    ASSUME NEW c, NEW limit, NEW found \in Nearest(c, limit)
    PROVE  found \subseteq Clones[c] \cap embedded
BY DEF Nearest, kSubset

\* PropagateLabel's next match.
LEMMA Continued ==
    ASSUME AnalysisTypeOK, NEW i \in Investigator, NEW c \in Contract,
           NEW rest \in SUBSET Contract, Continue(i, c, rest)
    PROVE  /\ request' \in [Investigator -> Labelling \cup {Idle}]
           /\ \A j \in Investigator : j # i => request'[j] = request[j]
           /\ \/ rest = {} /\ request'[i].pc = "idle"
              \/ /\ request'[i].pc = "mark" /\ request'[i].contract = c
                 /\ request'[i].rest \cup {request'[i].match} = rest
<1>0. request \in [Investigator -> Labelling \cup {Idle}]
  BY DEF AnalysisTypeOK
<1>1. CASE rest = {} /\ request' = [request EXCEPT ![i] = Idle]
  BY <1>0, <1>1 DEF Idle
<1>2. ASSUME NEW match \in rest,
             request' = [request EXCEPT ![i] =
                           [pc |-> "mark", contract |-> c, rest |-> rest \ {match}, match |-> match]]
      PROVE  /\ request' \in [Investigator -> Labelling \cup {Idle}]
             /\ \A j \in Investigator : j # i => request'[j] = request[j]
             /\ request'[i].pc = "mark" /\ request'[i].contract = c
             /\ request'[i].rest \cup {request'[i].match} = rest
  <2>1. [pc |-> "mark", contract |-> c, rest |-> rest \ {match}, match |-> match] \in Labelling
    BY <1>2 DEF Labelling
  <2>2. request'[i] = [pc |-> "mark", contract |-> c, rest |-> rest \ {match}, match |-> match]
    BY <1>0, <1>2
  <2> QED
    BY <1>0, <1>2, <2>1, <2>2
<1> QED
  BY <1>1, <1>2 DEF Continue
-----------------------------------------------------------------------------
LEMMA AnalysisInitial == AnalysisInit => AnalysisInv
<1> SUFFICES ASSUME AnalysisInit PROVE AnalysisInv
  OBVIOUS
<1>1. FreshJob \in Job
  BY DEF FreshJob, Job, JobStatus
<1>2. AnalysisTypeOK
  BY <1>1, AnalysisAssumption DEF AnalysisInit, AnalysisTypeOK
<1> QED
  BY <1>2 DEF AnalysisInit, AnalysisInv, TargetStored, MatchesStored, PastStore, Matching,
              MarkBeforeSave, FlagIsMarked, At, Idle

\* Rows are never deleted and marks never taken back, which keeps what workers and requests
\* rely on while others move.
LEMMA AnalysisInductive == AnalysisInv /\ [AnalysisNext]_analysisVars => AnalysisInv'
<1> SUFFICES ASSUME AnalysisInv, [AnalysisNext]_analysisVars PROVE AnalysisInv'
  OBVIOUS
<1> USE DEF AnalysisInv
<1>0. /\ jobs \in [Tx -> Job]
      /\ worker \in [Worker -> Busy \cup {Idle}]
      /\ request \in [Investigator -> Labelling \cup {Idle}]
  BY DEF AnalysisTypeOK
<1>1. ASSUME NEW w \in Worker, NEW t \in Tx, Claim(w, t) PROVE AnalysisInv'
  <2>1. jobs' \in [Tx -> Job]
    BY <1>0, <1>1, JobRows DEF Claim
  <2>2. [pc |-> "fetch", tx |-> t, failed |-> FALSE] \in Busy
    BY DEF Busy
  <2>3. /\ worker' \in [Worker -> Busy \cup {Idle}]
        /\ worker'[w].pc = "fetch" /\ \A v \in Worker : v # w => worker'[v] = worker[v]
    BY <1>0, <1>1, <2>2 DEF Claim
  <2>4. UNCHANGED <<embedded, marked, risky, flags, request, faults>>
    BY <1>1 DEF Claim, riskVars
  <2> QED
    BY <2>1, <2>3, <2>4 DEF AnalysisTypeOK, TargetStored, MatchesStored, PastStore, Matching, Targets,
                            MarkBeforeSave, FlagIsMarked, At, Target
<1>2. ASSUME NEW w \in Worker, FetchCode(w) PROVE AnalysisInv'
  <2>1. UNCHANGED <<jobs, embedded, marked, risky, flags, request>>
    BY <1>2 DEF FetchCode, riskVars
  <2>2. faults' \in 0 .. MaxFaults
    BY <1>2, Counted DEF FetchCode, GoTo, Fail, AnalysisTypeOK
  <2>3. PICK phase \in Phase \ {"compare", "mark", "save"} :
           \/ worker' = [worker EXCEPT ![w].pc = phase]
           \/ worker' = [worker EXCEPT ![w].pc = phase, ![w].failed = TRUE]
    BY <1>2 DEF FetchCode, GoTo, Fail, Phase
  <2>4. /\ worker' \in [Worker -> Busy \cup {Idle}]
        /\ worker'[w].pc = phase /\ \A v \in Worker : v # w => worker'[v] = worker[v]
    BY <1>2, <2>3, Moves DEF FetchCode, At
  <2> QED
    BY <2>1, <2>2, <2>3, <2>4 DEF AnalysisTypeOK, TargetStored, MatchesStored, PastStore, Matching,
                                  Targets, MarkBeforeSave, FlagIsMarked, At, Target
<1>3. ASSUME NEW w \in Worker, StoreContract(w) PROVE AnalysisInv'
  <2>1. UNCHANGED <<jobs, marked, risky, flags, request>>
    BY <1>3 DEF StoreContract
  <2>2. faults' \in 0 .. MaxFaults
    BY <1>3, Counted DEF StoreContract, GoTo, Fail, AnalysisTypeOK
  <2>3. Target(w) \in Contract
    BY <1>3, BusyWorker, AnalysisAssumption DEF StoreContract, At, Target
  <2>4. PICK phase \in {"compare", "finish"} :
           /\ \/ worker' = [worker EXCEPT ![w].pc = phase]
              \/ worker' = [worker EXCEPT ![w].pc = phase, ![w].failed = TRUE]
           /\ embedded' \in {embedded, embedded \cup {Target(w)}}
           /\ phase = "compare" => embedded' = embedded \cup {Target(w)}
    BY <1>3 DEF StoreContract, GoTo, Fail
  <2>5. /\ worker' \in [Worker -> Busy \cup {Idle}]
        /\ worker'[w].pc = phase /\ worker'[w].tx = worker[w].tx
        /\ \A v \in Worker : v # w => worker'[v] = worker[v]
    BY <1>3, <2>4, Moves DEF StoreContract, At, Phase
  <2> QED
    BY <2>1, <2>2, <2>3, <2>4, <2>5 DEF AnalysisTypeOK, TargetStored, MatchesStored, PastStore,
                                  Matching, Targets, MarkBeforeSave, FlagIsMarked, At, Target
<1>4. ASSUME NEW w \in Worker, Compare(w) PROVE AnalysisInv'
  <2>1. UNCHANGED <<jobs, embedded, marked, risky, flags, request>>
    BY <1>4 DEF Compare, riskVars
  <2>2. faults' \in 0 .. MaxFaults
    BY <1>4, Counted DEF Compare, GoTo, Fail, AnalysisTypeOK
  <2>3. PICK phase \in {"mark", "finish"} :
           \/ worker' = [worker EXCEPT ![w].pc = phase]
           \/ worker' = [worker EXCEPT ![w].pc = phase, ![w].failed = TRUE]
    BY <1>4 DEF Compare, GoTo, Fail
  <2>4. /\ worker' \in [Worker -> Busy \cup {Idle}]
        /\ worker'[w].pc = phase /\ worker'[w].tx = worker[w].tx
        /\ \A v \in Worker : v # w => worker'[v] = worker[v]
    BY <1>4, <2>3, Moves DEF Compare, At, Phase
  <2>5. Target(w) \in embedded
    BY <1>4 DEF Compare, At, PastStore, TargetStored
  <2> QED
    BY <2>1, <2>2, <2>3, <2>4, <2>5 DEF AnalysisTypeOK, TargetStored, MatchesStored, PastStore,
                                  Matching, Targets, MarkBeforeSave, FlagIsMarked, At, Target
<1>5. ASSUME NEW w \in Worker, MarkFlagged(w) PROVE AnalysisInv'
  <2>1. UNCHANGED <<jobs, embedded, risky, flags, request>>
    BY <1>5 DEF MarkFlagged
  <2>2. faults' \in 0 .. MaxFaults
    BY <1>5, Counted DEF MarkFlagged, GoTo, Fail, AnalysisTypeOK
  <2>3. PICK phase \in {"save", "finish"} :
           /\ \/ worker' = [worker EXCEPT ![w].pc = phase]
              \/ worker' = [worker EXCEPT ![w].pc = phase, ![w].failed = TRUE]
           /\ marked' \in {marked, marked \cup {Target(w)}}
           /\ phase = "save" => marked' = marked \cup {Target(w)}
    BY <1>5 DEF MarkFlagged, GoTo, Fail
  <2>4. /\ worker' \in [Worker -> Busy \cup {Idle}]
        /\ worker'[w].pc = phase /\ worker'[w].tx = worker[w].tx
        /\ \A v \in Worker : v # w => worker'[v] = worker[v]
    BY <1>5, <2>3, Moves DEF MarkFlagged, At, Phase
  <2>5. Target(w) \in embedded
    BY <1>5 DEF MarkFlagged, At, PastStore, TargetStored
  <2> QED
    BY <2>1, <2>2, <2>3, <2>4, <2>5 DEF AnalysisTypeOK, TargetStored, MatchesStored, PastStore,
                                  Matching, Targets, MarkBeforeSave, FlagIsMarked, At, Target
<1>6. ASSUME NEW w \in Worker, SaveFlag(w) PROVE AnalysisInv'
  <2>1. UNCHANGED <<jobs, embedded, marked, risky, request>>
    BY <1>6 DEF SaveFlag
  <2>2. faults' \in 0 .. MaxFaults
    BY <1>6, Counted DEF SaveFlag, GoTo, Fail, AnalysisTypeOK
  <2>3. /\ \/ worker' = [worker EXCEPT ![w].pc = "finish"]
           \/ worker' = [worker EXCEPT ![w].pc = "finish", ![w].failed = TRUE]
        /\ flags' \in {flags, flags \cup {Target(w)}}
    BY <1>6 DEF SaveFlag, GoTo, Fail
  <2>4. /\ worker' \in [Worker -> Busy \cup {Idle}]
        /\ worker'[w].pc = "finish"
        /\ \A v \in Worker : v # w => worker'[v] = worker[v]
    BY <1>6, <2>3, Moves DEF SaveFlag, At, Phase
  <2>5. Target(w) \in marked /\ marked \subseteq Contract
    BY <1>6 DEF SaveFlag, At, MarkBeforeSave, AnalysisTypeOK
  <2> QED
    BY <2>1, <2>2, <2>3, <2>4, <2>5 DEF AnalysisTypeOK, TargetStored, MatchesStored, PastStore,
                                  Matching, Targets, MarkBeforeSave, FlagIsMarked, At, Target
<1>7. ASSUME NEW w \in Worker, Finish(w) PROVE AnalysisInv'
  <2>1. UNCHANGED <<embedded, marked, risky, flags, request>>
    BY <1>7 DEF Finish, riskVars
  <2>2. faults' \in 0 .. MaxFaults
    BY <1>7, Counted DEF Finish, AnalysisTypeOK
  <2>3. jobs' \in [Tx -> Job]
    <3>1. worker[w].tx \in Tx
      BY <1>7, BusyWorker DEF Finish, At
    <3>2. jobs[worker[w].tx] \in Job
      BY <1>0, <3>1
    <3> QED
      BY <1>0, <1>7, <3>1, <3>2, JobRows DEF Finish
  <2>4. /\ worker' \in [Worker -> Busy \cup {Idle}]
        /\ worker'[w].pc = "idle" /\ \A v \in Worker : v # w => worker'[v] = worker[v]
    BY <1>0, <1>7 DEF Finish, Idle
  <2> QED
    BY <2>1, <2>2, <2>3, <2>4 DEF AnalysisTypeOK, TargetStored, MatchesStored, PastStore,
                                  Matching, Targets, MarkBeforeSave, FlagIsMarked, At, Target
<1>8. ASSUME NEW i \in Investigator, NEW c \in Contract, Label(i, c) \/ Unlabel(i, c)
      PROVE  AnalysisInv'
  <2>1. UNCHANGED <<jobs, embedded, marked, flags, worker, faults>> /\ risky' \subseteq Contract
    BY <1>8 DEF Label, Unlabel, AnalysisTypeOK
  <2>2. [pc |-> "propagate", contract |-> c] \in Labelling
    BY DEF Labelling
  <2>3. /\ request' \in [Investigator -> Labelling \cup {Idle}]
        /\ request'[i].pc = "propagate" \/ request'[i] = request[i]
        /\ \A j \in Investigator : j # i => request'[j] = request[j]
    BY <1>0, <1>8, <2>2 DEF Label, Unlabel
  <2> QED
    BY <2>1, <2>3 DEF AnalysisTypeOK, TargetStored, MatchesStored, PastStore, Matching, Targets,
                      MarkBeforeSave, FlagIsMarked, At, Target
<1>9. ASSUME NEW i \in Investigator, Abandon(i) PROVE AnalysisInv'
  <2>1. UNCHANGED <<jobs, embedded, marked, risky, flags, worker>> /\ faults' \in 0 .. MaxFaults
    BY <1>9, Counted DEF Abandon, riskVars
  <2>2. /\ request' \in [Investigator -> Labelling \cup {Idle}]
        /\ request'[i].pc = "idle" /\ \A j \in Investigator : j # i => request'[j] = request[j]
    BY <1>0, <1>9 DEF Abandon, Idle
  <2> QED
    BY <2>1, <2>2 DEF AnalysisTypeOK, TargetStored, MatchesStored, PastStore, Matching, Targets,
                      MarkBeforeSave, FlagIsMarked, At, Target
<1>10. ASSUME NEW i \in Investigator, Propagate(i) PROVE AnalysisInv'
  <2>1. UNCHANGED <<jobs, embedded, marked, risky, flags, worker, faults>>
    BY <1>10 DEF Propagate, riskVars
  <2>2. request[i].contract \in Contract
    BY <1>10, BusyRequest DEF Propagate
  <2>3. PICK found \in SUBSET embedded : Continue(i, request[i].contract, found)
    <3>1. \A found \in Nearest(request[i].contract, PropagateLimit) : found \subseteq embedded
      BY NearestStored
    <3> QED
      BY <1>10, <3>1 DEF Propagate
  <2>4. found \subseteq Contract
    BY DEF AnalysisTypeOK
  <2>5. /\ request' \in [Investigator -> Labelling \cup {Idle}]
        /\ \A j \in Investigator : j # i => request'[j] = request[j]
        /\ \/ request'[i].pc = "idle"
           \/ request'[i].pc = "mark" /\ request'[i].rest \cup {request'[i].match} = found
    BY <2>2, <2>3, <2>4, Continued
  <2> QED
    BY <2>1, <2>3, <2>5 DEF AnalysisTypeOK, TargetStored, MatchesStored, PastStore, Matching,
                            Targets, MarkBeforeSave, FlagIsMarked, At, Target
<1>11. ASSUME NEW i \in Investigator, MarkMatch(i) PROVE AnalysisInv'
  <2>1. UNCHANGED <<jobs, embedded, risky, flags, worker, faults>>
    BY <1>11 DEF MarkMatch
  <2>2. request[i].match \in embedded /\ request[i] \in Labelling
    BY <1>11, BusyRequest DEF MarkMatch, Matching, MatchesStored, Targets
  <2>3. /\ request' \in [Investigator -> Labelling \cup {Idle}]
        /\ request'[i].pc = "save" /\ request'[i].match = request[i].match
        /\ request'[i].rest = request[i].rest
        /\ \A j \in Investigator : j # i => request'[j] = request[j]
    <3>1. [request[i] EXCEPT !.pc = "save"] \in Labelling
      BY <1>11, <2>2 DEF MarkMatch, Labelling
    <3> QED
      BY <1>0, <1>11, <2>2, <3>1 DEF MarkMatch, Labelling
  <2>4. marked' = marked \cup {request[i].match}
    BY <1>11 DEF MarkMatch
  <2>5. Targets(i) \subseteq embedded
    BY <1>11 DEF MarkMatch, Matching, MatchesStored
  <2> QED
    BY <2>1, <2>2, <2>3, <2>4, <2>5 DEF AnalysisTypeOK, TargetStored, MatchesStored, PastStore, Matching,
                            Targets, MarkBeforeSave, FlagIsMarked, At, Target
<1>12. ASSUME NEW i \in Investigator, SaveMatch(i) PROVE AnalysisInv'
  <2>1. UNCHANGED <<jobs, embedded, marked, risky, worker, faults>>
    BY <1>12 DEF SaveMatch
  <2>2. request[i].contract \in Contract /\ Targets(i) \subseteq embedded /\ embedded \subseteq Contract
    BY <1>12, BusyRequest DEF SaveMatch, Matching, MatchesStored, AnalysisTypeOK
  <2>3. /\ request' \in [Investigator -> Labelling \cup {Idle}]
        /\ \A j \in Investigator : j # i => request'[j] = request[j]
        /\ \/ request'[i].pc = "idle"
           \/ request'[i].pc = "mark" /\ request'[i].rest \cup {request'[i].match} = request[i].rest
    BY <1>12, <2>2, Continued DEF SaveMatch, Targets
  <2>4. flags' = flags \cup {request[i].match} /\ request[i].match \in marked
    BY <1>12 DEF SaveMatch, MarkBeforeSave
  <2> QED
    BY <2>1, <2>2, <2>3, <2>4 DEF AnalysisTypeOK, TargetStored, MatchesStored, PastStore, Matching,
                            Targets, MarkBeforeSave, FlagIsMarked, At, Target
<1>13. CASE ReembedMissing
  <2>1. /\ UNCHANGED <<jobs, marked, risky, flags, worker, request, faults>>
        /\ embedded \subseteq embedded' /\ embedded' \subseteq Contract
    BY <1>13, AnalysisAssumption DEF ReembedMissing, AnalysisTypeOK
  <2> QED
    BY <2>1 DEF AnalysisTypeOK, TargetStored, MatchesStored, PastStore, Matching, Targets,
                MarkBeforeSave, FlagIsMarked, At, Target
<1>14. ASSUME NEW t \in Tx, TimePasses(t) PROVE AnalysisInv'
  <2>1. jobs' \in [Tx -> Job]
    <3>1. [jobs[t] EXCEPT !.due = TRUE] \in Job
      BY <1>0, JobRows
    <3> QED
      BY <1>0, <1>14, <3>1 DEF TimePasses
  <2>2. UNCHANGED <<embedded, marked, risky, flags, worker, request, faults>>
    BY <1>14 DEF TimePasses, riskVars
  <2> QED
    BY <2>1, <2>2 DEF AnalysisTypeOK, TargetStored, MatchesStored, PastStore, Matching, Targets,
                      MarkBeforeSave, FlagIsMarked, At, Target
<1>15. CASE Restart
  <2>1. UNCHANGED <<jobs, embedded, marked, risky, flags>> /\ faults' \in 0 .. MaxFaults
    BY <1>15, Counted DEF Restart, riskVars
  <2>2. /\ worker' \in [Worker -> Busy \cup {Idle}] /\ \A w \in Worker : worker'[w].pc = "idle"
        /\ request' \in [Investigator -> Labelling \cup {Idle}]
        /\ \A i \in Investigator : request'[i].pc = "idle"
    BY <1>15 DEF Restart, Idle
  <2> QED
    BY <2>1, <2>2 DEF AnalysisTypeOK, TargetStored, MatchesStored, PastStore, Matching,
                      MarkBeforeSave, FlagIsMarked, At
<1>16. CASE UNCHANGED analysisVars
  BY <1>16 DEF analysisVars, riskVars, AnalysisTypeOK, TargetStored, MatchesStored, PastStore,
               Matching, Targets, MarkBeforeSave, FlagIsMarked, At, Target
<1> QED
  BY <1>1, <1>2, <1>3, <1>4, <1>5, <1>6, <1>7, <1>8, <1>9, <1>10, <1>11, <1>12, <1>13, <1>14, <1>15,
     <1>16 DEF AnalysisNext, Analyse, Serve
-----------------------------------------------------------------------------
(***************************************************************************)
(* A label and a clone.  While a clone of a labelled contract is not       *)
(* flagged, somebody is still going to flag it: the worker that stored it  *)
(* and has yet to compare or flag it, or the request that has yet to read  *)
(* the neighbours of the label or to flag this one.  A labelled contract   *)
(* that is not stored has a request that has yet to read its neighbours,   *)
(* or was found missing by one.                                            *)
(***************************************************************************)
Comparing(c) == \E w \in Worker : PastStore(w) /\ Target(w) = c

Propagating(d) == \E i \in Investigator : request[i].pc = "propagate" /\ request[i].contract = d

Flagging(c, d) == \E i \in Investigator : Matching(i) /\ request[i].contract = d /\ c \in Targets(i)

Pursued(c, d) == c \in flags \/ Comparing(c) \/ Propagating(d) \/ Flagging(c, d)

ClonesPursued == \A c, d \in Contract : CloneOfLabelled(c, d) => Pursued(c, d)

LabelsPursued == \A d \in (risky \ unseen) \ embedded : Propagating(d)

EscapeInv == AnalysisInv /\ (faults = 0 => ClonesPursued /\ LabelsPursued)

\* The limits of the two searches are not smaller than a family of clones.
WideSearch ==
    \A c \in Contract : /\ Cardinality(Clones[c]) <= EvaluateLimit
                        /\ Cardinality(Clones[c]) <= PropagateLimit

\* A wide search answers every stored clone.
LEMMA NearestWide ==
    ASSUME NEW c \in Contract, NEW limit \in Nat, Cardinality(Clones[c]) <= limit,
           NEW found \in Nearest(c, limit)
    PROVE  found = Clones[c] \cap embedded
<1> DEFINE stored == Clones[c] \cap embedded
<1>1. IsFiniteSet(Clones[c])
  BY AnalysisAssumption, FS_Subset
<1>2. IsFiniteSet(stored) /\ Cardinality(stored) <= Cardinality(Clones[c])
  BY <1>1, FS_Subset
<1>3. Cardinality(stored) \in Nat /\ Cardinality(Clones[c]) \in Nat
  BY <1>1, <1>2, FS_CardinalityType
<1>4. Min({limit, Cardinality(stored)}) = Cardinality(stored)
  <2> DEFINE n == Cardinality(stored)
  <2>1. n \in Nat /\ n <= limit
    BY <1>2, <1>3
  <2>2. \A x \in {limit, n} : (\A y \in {limit, n} : x <= y) <=> x = n
    BY <2>1
  <2>3. Min({limit, n}) = n
    <3> HIDE DEF n
    <3>1. Min({limit, n}) = CHOOSE x \in {limit, n} : \A y \in {limit, n} : x <= y
      BY DEF Min
    <3> QED
      BY <2>2, <3>1
  <2> QED
    BY <2>3
<1>5. found \subseteq stored /\ Cardinality(found) = Cardinality(stored)
  BY <1>4 DEF Nearest, kSubset
<1> QED
  BY <1>2, <1>5, FS_Subset

\* A request that reads its neighbours, or flags one, leaves to itself whatever it pursued.
LEMMA ServePursues ==
    ASSUME AnalysisInv, ClonesPursued, LabelsPursued, WideSearch,
           NEW i \in Investigator, Serve(i)
    PROVE  ClonesPursued' /\ LabelsPursued'
<1> USE DEF AnalysisInv
<1> DEFINE label == request[i].contract
<1>0. request \in [Investigator -> Labelling \cup {Idle}]
  BY DEF AnalysisTypeOK
<1>1. CASE Propagate(i)
  <2>1. UNCHANGED <<embedded, risky, flags, worker>> /\ request[i].pc = "propagate"
    BY <1>1 DEF Propagate, riskVars
  <2>2. label \in Contract
    BY <2>1, BusyRequest
  <2>3. CASE label \in embedded
    <3>1. PICK found \in Nearest(label, PropagateLimit) : Continue(i, label, found)
      BY <1>1, <2>3 DEF Propagate
    <3>2. found = Clones[label] \cap embedded
      BY <2>2, <3>1, NearestWide, AnalysisAssumption DEF WideSearch
    <3>3. /\ \A j \in Investigator : j # i => request'[j] = request[j]
          /\ \/ found = {} /\ request'[i].pc = "idle"
             \/ /\ request'[i].pc = "mark" /\ request'[i].contract = label
                /\ request'[i].rest \cup {request'[i].match} = found
      <4>1. found \in SUBSET Contract
        BY <3>2 DEF AnalysisTypeOK
      <4> QED
        BY <2>2, <3>1, <4>1, Continued
    <3>4. unseen' = unseen \ {label}
      BY <1>1, <2>3 DEF Propagate
    <3>5. ASSUME NEW c \in Contract, NEW d \in Contract, CloneOfLabelled(c, d)' PROVE Pursued(c, d)'
      <4>1. CASE d = label
        BY <2>1, <3>2, <3>3, <3>5, <4>1 DEF CloneOfLabelled, Pursued, Flagging, Matching, Targets
      <4>2. CASE d # label
        <5>1. Pursued(c, d)
          BY <2>1, <3>4, <3>5, <4>2 DEF CloneOfLabelled, ClonesPursued
        <5>2. Comparing(c) => Comparing(c)'
          BY <2>1 DEF Comparing, PastStore, Target
        <5>3. Propagating(d) => Propagating(d)'
          BY <3>3, <4>2 DEF Propagating
        <5>4. Flagging(c, d) => Flagging(c, d)'
          BY <3>3, <4>2 DEF Flagging, Matching, Targets
        <5> QED
          BY <2>1, <5>1, <5>2, <5>3, <5>4 DEF Pursued
      <4> QED
        BY <4>1, <4>2
    <3>6. LabelsPursued'
      BY <2>1, <2>3, <3>3, <3>4 DEF LabelsPursued, Propagating
    <3> QED
      BY <3>5, <3>6 DEF ClonesPursued
  <2>4. CASE label \notin embedded
    <3>1. Continue(i, label, {}) /\ unseen' = unseen \cup {label}
      BY <1>1, <2>4 DEF Propagate
    <3>2. \A j \in Investigator : j # i => request'[j] = request[j]
      BY <2>2, <3>1, Continued
    <3>3. ASSUME NEW c \in Contract, NEW d \in Contract, CloneOfLabelled(c, d)' PROVE Pursued(c, d)'
      <4>1. CloneOfLabelled(c, d) /\ d # label
        BY <2>1, <2>4, <3>1, <3>3 DEF CloneOfLabelled
      <4>2. Pursued(c, d)
        BY <4>1 DEF ClonesPursued
      <4>3. Comparing(c) => Comparing(c)'
        BY <2>1 DEF Comparing, PastStore, Target
      <4>4. Propagating(d) => Propagating(d)'
        BY <3>2, <4>1 DEF Propagating
      <4>5. Flagging(c, d) => Flagging(c, d)'
        BY <3>2, <4>1 DEF Flagging, Matching, Targets
      <4> QED
        BY <2>1, <4>2, <4>3, <4>4, <4>5 DEF Pursued
    <3>4. LabelsPursued'
      BY <2>1, <3>1, <3>2 DEF LabelsPursued, Propagating
    <3> QED
      BY <3>3, <3>4 DEF ClonesPursued
  <2> QED
    BY <2>3, <2>4
<1>2. CASE MarkMatch(i)
  <2>1. UNCHANGED <<embedded, risky, unseen, flags, worker>> /\ request[i].pc = "mark"
    BY <1>2 DEF MarkMatch
  <2>2. /\ request'[i].pc = "save" /\ request'[i].contract = label
        /\ Targets(i)' = Targets(i)
        /\ \A j \in Investigator : j # i => request'[j] = request[j]
    <3>1. request[i] \in Labelling
      BY <2>1, BusyRequest
    <3> QED
      BY <1>0, <1>2, <3>1 DEF MarkMatch, Labelling, Targets
  <2>3. \A d : Propagating(d) => Propagating(d)'
    BY <2>1, <2>2 DEF Propagating
  <2>4. \A c, d : Flagging(c, d) => Flagging(c, d)'
    BY <2>1, <2>2 DEF Flagging, Matching, Targets
  <2> QED
    BY <2>1, <2>3, <2>4 DEF ClonesPursued, LabelsPursued, CloneOfLabelled, Pursued, Comparing,
                            PastStore, Target
<1>3. CASE SaveMatch(i)
  <2>1. /\ UNCHANGED <<embedded, risky, unseen, worker>> /\ request[i].pc = "save"
        /\ flags' = flags \cup {request[i].match}
    BY <1>3 DEF SaveMatch
  <2>2. /\ \A j \in Investigator : j # i => request'[j] = request[j]
        /\ \/ request[i].rest = {} /\ request'[i].pc = "idle"
           \/ /\ request'[i].pc = "mark" /\ request'[i].contract = label
              /\ Targets(i)' = request[i].rest
    BY <1>3, <2>1, BusyRequest, Continued DEF SaveMatch, Matching, Targets
  <2>3. \A d : Propagating(d) => Propagating(d)'
    BY <2>1, <2>2 DEF Propagating
  <2>4. \A c, d : Flagging(c, d) => Flagging(c, d)' \/ c \in flags'
    BY <2>1, <2>2 DEF Flagging, Matching, Targets
  <2> QED
    BY <2>1, <2>3, <2>4 DEF ClonesPursued, LabelsPursued, CloneOfLabelled, Pursued, Comparing,
                            PastStore, Target
<1> QED
  BY <1>1, <1>2, <1>3 DEF Serve

\* A worker that is not disturbed stores, compares and flags, or leaves what it has stored
\* to the requests.
LEMMA AnalysePursues ==
    ASSUME AnalysisInv, ClonesPursued, LabelsPursued, WideSearch,
           NEW w \in Worker, Analyse(w), faults' = 0
    PROVE  ClonesPursued' /\ LabelsPursued'
<1> USE DEF AnalysisInv
<1>0. worker \in [Worker -> Busy \cup {Idle}] /\ ~ Happens("error")
  BY Counted DEF AnalysisTypeOK
<1>1. /\ UNCHANGED <<risky, unseen, request>>
      /\ \A d : Propagating(d)' <=> Propagating(d)
      /\ \A c, d : Flagging(c, d)' <=> Flagging(c, d)
  <2>1. UNCHANGED <<risky, unseen, request>>
    BY DEF Analyse, FetchCode, StoreContract, Compare, MarkFlagged, SaveFlag, Finish, riskVars
  <2> QED
    BY <2>1 DEF Propagating, Flagging, Matching, Targets
<1>2. CASE StoreContract(w)
  <2>1. /\ embedded' = embedded \cup {Target(w)} /\ UNCHANGED flags
        /\ worker' = [worker EXCEPT ![w].pc = "compare"]
    BY <1>0, <1>2 DEF StoreContract, GoTo, Fail
  <2>2. /\ worker'[w].pc = "compare" /\ worker'[w].tx = worker[w].tx
        /\ \A v \in Worker : v # w => worker'[v] = worker[v]
    BY <1>2, <2>1, Moves DEF StoreContract, At, Phase
  <2>3. \A c : c = Target(w) \/ Comparing(c) => Comparing(c)'
    BY <1>2, <2>2 DEF StoreContract, At, Comparing, PastStore, Target
  <2>4. ASSUME NEW c \in Contract, NEW d \in Contract, CloneOfLabelled(c, d)' PROVE Pursued(c, d)'
    <3>1. CASE c = Target(w)
      BY <2>3, <3>1 DEF Pursued
    <3>2. CASE d \notin embedded
      BY <1>1, <2>4, <3>2 DEF CloneOfLabelled, LabelsPursued, Pursued
    <3>3. CASE c # Target(w) /\ d \in embedded
      <4>1. CloneOfLabelled(c, d)
        BY <1>1, <2>1, <2>4, <3>3 DEF CloneOfLabelled
      <4> QED
        BY <1>1, <2>1, <2>3, <4>1 DEF ClonesPursued, Pursued
    <3> QED
      BY <3>1, <3>2, <3>3
  <2>5. LabelsPursued'
    BY <1>1, <2>1 DEF LabelsPursued
  <2> QED
    BY <2>4, <2>5 DEF ClonesPursued
<1>3. CASE Compare(w)
  <2>1. UNCHANGED <<embedded, flags>>
    BY <1>3 DEF Compare, riskVars
  <2>2. Target(w) \in Contract /\ Target(w) \in embedded
    BY <1>3, BusyWorker, AnalysisAssumption DEF Compare, At, Target, PastStore, TargetStored
  <2>3. PICK phase \in {"mark", "finish"} :
           /\ worker' = [worker EXCEPT ![w].pc = phase]
           /\ (\E c \in Clones[Target(w)] \cap embedded : Risky(c)) => phase = "mark"
    <3>1. PICK found \in Nearest(Target(w), EvaluateLimit) :
             GoTo(w, IF \E c \in found : Risky(c) THEN "mark" ELSE "finish")
      BY <1>0, <1>3 DEF Compare, Fail
    <3>2. found = Clones[Target(w)] \cap embedded
      BY <2>2, <3>1, NearestWide, AnalysisAssumption DEF WideSearch
    <3> QED
      BY <3>1, <3>2 DEF GoTo
  <2>4. /\ worker'[w].pc = phase /\ worker'[w].tx = worker[w].tx
        /\ \A v \in Worker : v # w => worker'[v] = worker[v]
    BY <1>3, <2>3, Moves DEF Compare, At, Phase
  <2>5. ASSUME NEW c \in Contract, NEW d \in Contract, CloneOfLabelled(c, d)' PROVE Pursued(c, d)'
    <3>1. CloneOfLabelled(c, d) /\ Pursued(c, d)
      BY <1>1, <2>1, <2>5 DEF CloneOfLabelled, ClonesPursued
    <3>2. CASE c = Target(w)
      <4>1. d \in Clones[c] \cap embedded /\ Risky(d)
        BY <3>1, AnalysisAssumption DEF CloneOfLabelled, Risky
      <4>2. worker'[w].pc = "mark"
        BY <2>3, <2>4, <3>2, <4>1
      <4> QED
        BY <2>4, <3>2, <4>2 DEF Pursued, Comparing, PastStore, Target
    <3>3. CASE c # Target(w)
      BY <1>1, <2>1, <2>4, <3>1, <3>3 DEF Pursued, Comparing, PastStore, Target
    <3> QED
      BY <3>2, <3>3
  <2> QED
    BY <1>1, <2>1, <2>5 DEF ClonesPursued, LabelsPursued
<1>4. CASE MarkFlagged(w)
  <2>1. UNCHANGED <<embedded, flags>> /\ worker' = [worker EXCEPT ![w].pc = "save"]
    BY <1>0, <1>4 DEF MarkFlagged, GoTo, Fail
  <2>2. /\ worker'[w].pc = "save" /\ worker'[w].tx = worker[w].tx
        /\ \A v \in Worker : v # w => worker'[v] = worker[v]
    BY <1>4, <2>1, Moves DEF MarkFlagged, At, Phase
  <2>3. \A c : Comparing(c) => Comparing(c)'
    BY <2>2 DEF Comparing, PastStore, Target
  <2> QED
    BY <1>1, <2>1, <2>3 DEF ClonesPursued, LabelsPursued, CloneOfLabelled, Pursued
<1>5. CASE SaveFlag(w)
  <2>1. /\ UNCHANGED embedded /\ flags' = flags \cup {Target(w)}
        /\ worker' = [worker EXCEPT ![w].pc = "finish"]
    BY <1>0, <1>5 DEF SaveFlag, GoTo, Fail
  <2>2. \A v \in Worker : v # w => worker'[v] = worker[v]
    BY <1>0, <2>1
  <2>3. \A c : Comparing(c) => Comparing(c)' \/ c \in flags'
    BY <2>1, <2>2 DEF Comparing, PastStore, Target
  <2> QED
    BY <1>1, <2>1, <2>3 DEF ClonesPursued, LabelsPursued, CloneOfLabelled, Pursued
<1>6. CASE FetchCode(w) \/ Finish(w)
  <2>1. UNCHANGED <<embedded, flags>> /\ ~ PastStore(w)
    BY <1>6 DEF FetchCode, Finish, At, PastStore, riskVars
  <2>2. \A v \in Worker : v # w => worker'[v] = worker[v]
    BY <1>0, <1>6 DEF FetchCode, Finish, GoTo, Fail
  <2>3. \A c : Comparing(c) => Comparing(c)'
    BY <2>1, <2>2 DEF Comparing, PastStore, Target
  <2> QED
    BY <1>1, <2>1, <2>3 DEF ClonesPursued, LabelsPursued, CloneOfLabelled, Pursued
<1> QED
  BY <1>2, <1>3, <1>4, <1>5, <1>6 DEF Analyse

\* The other steps: labels, re-embedding and the clock, and the steps that leave the tables
\* alone.  An abandoned request and a restart are faults.
LEMMA EscapeInductive ==
    WideSearch => (EscapeInv /\ [AnalysisNext]_analysisVars => EscapeInv')
<1> SUFFICES ASSUME WideSearch, EscapeInv, [AnalysisNext]_analysisVars, faults' = 0
             PROVE  ClonesPursued' /\ LabelsPursued'
  BY AnalysisInductive DEF EscapeInv
<1> USE DEF EscapeInv
<1>0. /\ AnalysisTypeOK
      /\ \A fault : ~ Happens(fault)
  BY Counted DEF AnalysisInv
<1>1. ClonesPursued /\ LabelsPursued
  <2>1. faults = 0 \/ faults' = faults \/ \E fault : Happens(fault)
    BY DEF AnalysisNext, analysisVars, Analyse, Claim, FetchCode, StoreContract, Compare, MarkFlagged,
           SaveFlag, Finish, GoTo, Fail, Serve, Propagate, MarkMatch, SaveMatch, Abandon, Label, Unlabel,
           ReembedMissing, TimePasses, Restart
  <2> QED
    BY <1>0, <2>1
<1>2. ASSUME NEW w \in Worker, Analyse(w) PROVE ClonesPursued' /\ LabelsPursued'
  BY <1>1, <1>2, AnalysePursues
<1>3. ASSUME NEW i \in Investigator, Serve(i) PROVE ClonesPursued' /\ LabelsPursued'
  BY <1>1, <1>3, ServePursues
<1>4. ASSUME NEW w \in Worker, NEW t \in Tx, Claim(w, t) PROVE ClonesPursued' /\ LabelsPursued'
  <2>1. /\ UNCHANGED <<embedded, risky, flags, unseen, request>>
        /\ worker[w].pc = "idle" /\ \A v \in Worker : v # w => worker'[v] = worker[v]
    BY <1>0, <1>4 DEF Claim, riskVars, Idle, AnalysisTypeOK
  <2>2. \A c : Comparing(c) => Comparing(c)'
    BY <2>1 DEF Comparing, PastStore, Target
  <2> QED
    BY <1>1, <2>1, <2>2 DEF ClonesPursued, LabelsPursued, CloneOfLabelled, Pursued, Propagating,
                            Flagging, Matching, Targets
<1>5. ASSUME NEW i \in Investigator, NEW l \in Contract, Label(i, l)
      PROVE  ClonesPursued' /\ LabelsPursued'
  <2>1. /\ UNCHANGED <<embedded, flags, unseen, worker>> /\ risky' = risky \cup {l}
        /\ request[i].pc = "idle"
        /\ request'[i].pc = "propagate" /\ request'[i].contract = l
        /\ \A j \in Investigator : j # i => request'[j] = request[j]
    BY <1>0, <1>5 DEF Label, Idle, AnalysisTypeOK
  <2>2. \A d : d = l \/ Propagating(d) => Propagating(d)'
    BY <2>1 DEF Propagating
  <2>3. \A c, d : Flagging(c, d) => Flagging(c, d)'
    BY <2>1 DEF Flagging, Matching, Targets
  <2> QED
    BY <1>1, <2>1, <2>2, <2>3 DEF ClonesPursued, LabelsPursued, CloneOfLabelled, Pursued, Comparing,
                                  PastStore, Target
<1>6. ASSUME NEW i \in Investigator, NEW l \in Contract, Unlabel(i, l)
      PROVE  ClonesPursued' /\ LabelsPursued'
  BY <1>1, <1>6 DEF Unlabel, ClonesPursued, LabelsPursued, CloneOfLabelled, Pursued, Comparing,
                    PastStore, Target, Propagating, Flagging, Matching, Targets
<1>7. CASE ReembedMissing
  <2>1. PICK l \in Legacy \ embedded :
           /\ embedded' = embedded \cup {l}
           /\ UNCHANGED <<risky, flags, unseen, worker, request>>
    BY <1>7 DEF ReembedMissing
  <2>2. ASSUME NEW c \in Contract, NEW d \in Contract, CloneOfLabelled(c, d)' PROVE Pursued(c, d)
    <3>1. CASE d = l
      BY <1>1, <2>1, <2>2, <3>1 DEF CloneOfLabelled, LabelsPursued, Pursued
    <3>2. CASE d # l
      BY <1>1, <2>1, <2>2, <3>2 DEF CloneOfLabelled, ClonesPursued
    <3> QED
      BY <3>1, <3>2
  <2>3. \A c, d : Pursued(c, d) => Pursued(c, d)'
    BY <2>1 DEF Pursued, Comparing, PastStore, Target, Propagating, Flagging, Matching, Targets
  <2>4. LabelsPursued'
    BY <1>1, <2>1 DEF LabelsPursued, Propagating
  <2> QED
    BY <2>2, <2>3, <2>4 DEF ClonesPursued
<1>8. CASE UNCHANGED analysisVars \/ \E t \in Tx : TimePasses(t)
  <2>1. UNCHANGED <<embedded, risky, flags, unseen, worker, request>>
    BY <1>8 DEF TimePasses, analysisVars, riskVars
  <2> QED
    BY <1>1, <2>1 DEF ClonesPursued, LabelsPursued, CloneOfLabelled, Pursued, Comparing, PastStore,
                      Target, Propagating, Flagging, Matching, Targets
<1> QED
  BY <1>0, <1>2, <1>3, <1>4, <1>5, <1>6, <1>7, <1>8 DEF AnalysisNext, Abandon, Restart
-----------------------------------------------------------------------------
LEMMA AnalysisInvariant == AnalysisSpec => []AnalysisInv
BY AnalysisInitial, AnalysisInductive, PTL DEF AnalysisSpec

\* Workers and requests hold what their next call needs, for every number of them.
THEOREM AnalysisTypeCorrect == AnalysisSpec => []AnalysisTypeOK
<1>1. AnalysisInv => AnalysisTypeOK
  BY DEF AnalysisInv
<1> QED
  BY <1>1, AnalysisInvariant, PTL

\* MarkFlagged before SaveFlag: whatever fails, restarts or runs at the same time, a flag is
\* in the risk view only with its mark on the vector row.
THEOREM FlagsMarked == AnalysisSpec => []FlagIsMarked
<1>1. AnalysisInv => FlagIsMarked
  BY DEF AnalysisInv
<1> QED
  BY <1>1, AnalysisInvariant, PTL

\* EvaluateContract against PropagateLabel: if the searches are wide enough to return every
\* clone and nothing fails, each stored clone of a labelled contract ends up flagged.
THEOREM ClonesFlagged == ASSUME WideSearch PROVE AnalysisSpec => []NoCloneEscapes
<1>1. AnalysisInit => EscapeInv
  BY AnalysisInitial DEF AnalysisInit, EscapeInv, ClonesPursued, LabelsPursued, CloneOfLabelled
<1>2. EscapeInv /\ [AnalysisNext]_analysisVars => EscapeInv'
  BY EscapeInductive
<1>3. EscapeInv => NoCloneEscapes
  <2> SUFFICES ASSUME EscapeInv, faults = 0,
                      NEW c \in Contract, NEW d \in Contract, CloneOfLabelled(c, d), AtRest(c, d)
               PROVE  c \in flags
    BY DEF NoCloneEscapes
  <2>1. Pursued(c, d)
    BY DEF EscapeInv, ClonesPursued
  <2>2. ~ Comparing(c)
    BY DEF AtRest, Comparing, PastStore, Idle
  <2>3. ~ Propagating(d) /\ ~ Flagging(c, d)
    BY DEF AtRest, Propagating, Flagging, Matching, Idle
  <2> QED
    BY <2>1, <2>2, <2>3 DEF Pursued
<1> QED
  BY <1>1, <1>2, <1>3, PTL DEF AnalysisSpec
=============================================================================

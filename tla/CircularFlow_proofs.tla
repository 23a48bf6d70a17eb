------------------------ MODULE CircularFlow_proofs ------------------------
(***************************************************************************)
(* Proofs about CircularFlow, for any set of transfers and workers: types, *)
(* with the order of the writes and the search, and that no circle whose   *)
(* transfers were all searched goes without a flag.                        *)
(***************************************************************************)
EXTENDS CircularFlow, TLAPS, WellFoundedInduction, FiniteSetTheorems

(***************************************************************************)
(* What is in the graph when a worker reaches a call.                      *)
(***************************************************************************)
WrittenBeforeSearch ==
    \A w \in Worker :
       /\ worker[w].pc \in {"read", "transfers"} /\ worker[w].ready
             => EtherOf(worker[w].tx) \subseteq edges
       /\ At(w, "flag") /\ worker[w].ready => worker[w].rest \subseteq edges
       /\ At(w, "flag") => worker[w].loop \in Loops /\ worker[w].loop[1] \in edges

CircularInv == CircularTypeOK /\ WrittenBeforeSearch
-----------------------------------------------------------------------------
\* A nonempty set of naturals up to n has a smallest element.
LEMMA SmallestExists ==
    ASSUME NEW n \in Nat, NEW T \in SUBSET (0 .. n), T # {}
    PROVE  \E x \in T : \A y \in T : x <= y
<1> DEFINE S == 0 .. n
           Less == StrictSubsetOrdering(S)
           Below == {0 .. x : x \in T}
<1>1. IsFiniteSet(S)
  BY FS_Interval
<1>2. IsWellFoundedOn(Less, FiniteSubsetsOf(S))
  BY <1>1, FS_StrictSubsetOrderingWellFounded
<1>3. Below \subseteq FiniteSubsetsOf(S) /\ Below # {}
  <2>1. \A x \in T : 0 .. x \in SUBSET S
    OBVIOUS
  <2>2. \A x \in T : IsFiniteSet(0 .. x)
    BY <1>1, <2>1, FS_Subset
  <2> QED
    BY <2>1, <2>2 DEF FiniteSubsetsOf
<1>4. PICK B \in Below : \A C \in Below : ~ (<<C, B>> \in Less)
  <2> HIDE DEF Less, Below
  <2> QED
    BY <1>2, <1>3, WFMin
<1>5. PICK x \in T : B = 0 .. x
  BY <1>4
<1>6. ASSUME NEW y \in T, y < x PROVE FALSE
  <2>1. 0 .. y \subseteq 0 .. x /\ x \in 0 .. x /\ x \notin 0 .. y /\ 0 .. x \subseteq S
    BY <1>6
  <2>2. <<0 .. y, 0 .. x>> \in Less
    BY <2>1 DEF StrictSubsetOrdering
  <2> QED
    BY <1>4, <1>5, <2>2
<1> QED
  BY <1>6

\* Loops are sequences of bounded length.
LEMMA LoopSequences ==
    ASSUME NEW q \in Loops
    PROVE  q \in Seq(Leg) /\ Len(q) \in 2 .. MaxHops + 1 /\ q[1] \in Leg
<1>1. PICK n \in 2 .. MaxHops + 1 : q \in [1 .. n -> Leg]
  BY DEF Loops
<1>2. MaxHops \in Nat
  BY CircularAssumption
<1> QED
  BY <1>1, <1>2

\* A search that finds nothing means that the graph has no loop through the leg.
LEMMA SearchIsComplete ==
    ASSUME NEW l, Found(l) = {}
    PROVE  ClosedBy(l, edges) = {}
<1> SUFFICES ASSUME ClosedBy(l, edges) # {} PROVE FALSE
  OBVIOUS
<1> DEFINE T == {Len(q) : q \in ClosedBy(l, edges)}
<1>1. MaxHops + 1 \in Nat
  BY CircularAssumption
<1>2. T \in SUBSET (0 .. MaxHops + 1)
  BY <1>1, LoopSequences DEF ClosedBy
<1>3. PICK x \in T : \A y \in T : x <= y
  <2> HIDE DEF T
  <2>1. T # {}
    BY DEF T
  <2> QED
    BY <1>1, <1>2, <2>1, SmallestExists
<1>4. PICK q \in ClosedBy(l, edges) : x = Len(q)
  BY <1>3
<1>5. q \in Found(l)
  BY <1>3, <1>4 DEF Found
<1> QED
  BY <1>5

\* A leg closes in a graph what it closes in a part of it.
LEMMA ClosedInPart ==
    ASSUME NEW l, NEW G, NEW H, G \subseteq H, ClosedBy(l, G) # {}
    PROVE  ClosedBy(l, H) # {}
BY DEF ClosedBy

LEMMA JobRows ==
    ASSUME NEW job \in Job
    PROVE  Claimed(job) \in Job /\ MarkedDone(job) \in Job /\ MarkedFailed(job) \in Job
           /\ [job EXCEPT !.due = TRUE] \in Job
<1>1. Claimed(job) \in Job
  BY DEF Job, JobStatus, Claimed
<1>2. \A s \in JobStatus : [job EXCEPT !.status = s, !.due = FALSE] \in Job
  BY DEF Job
<1>3. MarkedDone(job) \in Job
  BY <1>2 DEF MarkedDone, JobStatus
<1>4. MarkedFailed(job) \in Job
  <2>1. (IF job.attempts >= MaxAttempts THEN "failed" ELSE "pending") \in JobStatus
    BY DEF JobStatus
  <2> QED
    BY <1>2, <2>1 DEF MarkedFailed
<1> QED
  BY <1>1, <1>3, <1>4 DEF Job

LEMMA Queued ==
    ASSUME jobs \in [Tx -> Job], NEW S
    PROVE  Enqueue(jobs, S) \in [Tx -> Job] /\ Requeue(jobs, S) \in [Tx -> Job]
<1>1. FreshJob \in Job
  BY DEF FreshJob, Job, JobStatus
<1> QED
  BY <1>1 DEF Enqueue, Requeue

LEMMA Counted ==
    ASSUME faults \in 0 .. MaxFaults, Fault
    PROVE  faults' \in 0 .. MaxFaults
BY CircularAssumption DEF Fault

LEMMA BusyWorker ==
    ASSUME CircularTypeOK, NEW w \in Worker, worker[w].pc # "idle"
    PROVE  worker[w] \in Enriching /\ worker[w].tx \in Tx /\ worker[w].rest \subseteq Leg
BY DEF CircularTypeOK, Enriching, Idle
-----------------------------------------------------------------------------
\* Edges only appear, so a step of w keeps what the others rely on: it is enough that w
\* holds a proper record for which the two facts about the graph are true.
LEMMA WorkerStep ==
    ASSUME CircularInv, NEW w \in Worker, NEW this \in Enriching \cup {Idle},
           worker' = [worker EXCEPT ![w] = this],
           edges \subseteq edges',
           this.pc \in {"read", "transfers"} /\ this.ready => EtherOf(this.tx) \subseteq edges',
           this.pc \in {"search", "flag"} /\ this.ready => this.rest \subseteq edges',
           this.pc = "flag" => this.loop \in Loops /\ this.loop[1] \in edges'
    PROVE  /\ worker' \in [Worker -> Enriching \cup {Idle}]
           /\ \A v \in Worker : At(v, "search")' /\ worker'[v].ready => worker'[v].rest \subseteq edges'
           /\ WrittenBeforeSearch'
<1>1. worker \in [Worker -> Enriching \cup {Idle}]
  BY DEF CircularInv, CircularTypeOK
<1>2. worker'[w] = this /\ \A v \in Worker : v # w => worker'[v] = worker[v]
  BY <1>1
<1>3. worker' \in [Worker -> Enriching \cup {Idle}]
  BY <1>1
<1>4. ASSUME NEW v \in Worker
      PROVE  /\ worker'[v].pc \in {"read", "transfers"} /\ worker'[v].ready
                   => EtherOf(worker'[v].tx) \subseteq edges'
             /\ worker'[v].pc \in {"search", "flag"} /\ worker'[v].ready
                   => worker'[v].rest \subseteq edges'
             /\ worker'[v].pc = "flag" => worker'[v].loop \in Loops /\ worker'[v].loop[1] \in edges'
  <2>1. CASE v = w
    BY <1>2, <2>1
  <2>2. CASE v # w
    <3>1. worker'[v] = worker[v]
      BY <1>2, <2>2
    <3> QED
      BY <3>1 DEF CircularInv, CircularTypeOK, WrittenBeforeSearch, At
  <2> QED
    BY <2>1, <2>2
<1> QED
  BY <1>3, <1>4 DEF WrittenBeforeSearch, At

\* Steps that leave the workers alone.
LEMMA OtherStep ==
    ASSUME CircularInv, UNCHANGED <<edges, worker>>
    PROVE  /\ worker' \in [Worker -> Enriching \cup {Idle}]
           /\ \A v \in Worker : At(v, "search")' /\ worker'[v].ready => worker'[v].rest \subseteq edges'
           /\ WrittenBeforeSearch'
BY DEF CircularInv, CircularTypeOK, WrittenBeforeSearch, At

\* A write leaves the worker with the legs in the graph, or with a graph that is not ready.
WriteEffect(w, legs, next) ==
    /\ edges \subseteq edges' /\ edges' \subseteq Leg /\ faults' \in 0 .. MaxFaults
    /\ \E this \in Enriching :
          /\ worker' = [worker EXCEPT ![w] = this]
          /\ this.pc = next.pc /\ this.tx = next.tx /\ this.rest = next.rest
          /\ this.ready => this = next /\ legs \subseteq edges'

LEMMA Written ==
    ASSUME CircularTypeOK, NEW w \in Worker, NEW legs \in SUBSET Leg, NEW next \in Enriching,
           Write(w, legs, next)
    PROVE  WriteEffect(w, legs, next)
<1>1. edges \subseteq Leg /\ faults \in 0 .. MaxFaults
  BY DEF CircularTypeOK
<1>2. CASE /\ edges' = edges \cup legs
           /\ worker' = [worker EXCEPT ![w] = next]
           /\ UNCHANGED faults
  BY <1>1, <1>2 DEF WriteEffect
<1>3. CASE /\ edges' \in {edges, edges \cup legs}
           /\ worker' = [worker EXCEPT ![w] = [next EXCEPT !.ready = FALSE, !.failed = TRUE]]
           /\ Fault
  <2> DEFINE this == [next EXCEPT !.ready = FALSE, !.failed = TRUE]
  <2>1. /\ this \in Enriching /\ this.ready = FALSE
        /\ this.pc = next.pc /\ this.tx = next.tx /\ this.rest = next.rest
    BY DEF Enriching
  <2> QED
    BY <1>1, <1>3, <2>1, Counted DEF WriteEffect
<1> QED
  BY <1>2, <1>3 DEF Write
-----------------------------------------------------------------------------
LEMMA CircularInitial == CircularInit => CircularInv
<1> SUFFICES ASSUME CircularInit PROVE CircularInv
  OBVIOUS
<1>1. NoJob \in Job
  BY DEF NoJob, Job, JobStatus
<1>2. 0 \in 0 .. MaxFaults
  BY CircularAssumption
<1>3. \A w \in Worker : worker[w].pc = "idle"
  BY DEF CircularInit, Idle
<1> QED
  BY <1>1, <1>2, <1>3 DEF CircularInit, CircularInv, CircularTypeOK, WrittenBeforeSearch, At

LEMMA CircularInductive == CircularInv /\ [CircularNext]_circularVars => CircularInv'
<1> SUFFICES ASSUME CircularInv, [CircularNext]_circularVars PROVE CircularInv'
  OBVIOUS
<1>0. /\ CircularTypeOK
      /\ jobs \in [Tx -> Job] /\ worker \in [Worker -> Enriching \cup {Idle}]
      /\ mined \subseteq Tx /\ edges \subseteq Leg /\ evaluated \subseteq edges
      /\ faults \in 0 .. MaxFaults
      /\ flags \subseteq [tx : Tx, address : {From[l] : l \in Leg}, loop : Seq(Leg)]
  BY DEF CircularInv, CircularTypeOK
<1>1. ASSUME NEW w \in Worker, NEW t \in Tx, Claim(w, t) PROVE CircularInv'
  <2> DEFINE this == [pc |-> "edge", tx |-> t, ready |-> FALSE, failed |-> FALSE,
                      rest |-> {}, loop |-> <<>>]
  <2>1. this \in Enriching
    BY DEF Enriching
  <2>2. jobs' \in [Tx -> Job]
    BY <1>0, <1>1, JobRows DEF Claim
  <2>3. UNCHANGED <<mined, edges, flags, evaluated, faults>> /\ worker' = [worker EXCEPT ![w] = this]
    BY <1>1 DEF Claim
  <2>4. this.pc = "edge"
    OBVIOUS
  <2> HIDE DEF this
  <2> QED
    BY <1>0, <2>1, <2>2, <2>3, <2>4, WorkerStep DEF CircularInv, CircularTypeOK
<1>2. ASSUME NEW w \in Worker, SaveEdge(w) PROVE CircularInv'
  <2>1. /\ worker[w] \in Enriching /\ worker[w].tx \in Tx
        /\ UNCHANGED <<jobs, mined, flags, evaluated>>
    BY <1>0, <1>2, BusyWorker DEF SaveEdge, At
  <2>2. CASE EtherOf(worker[w].tx) # {}
    <3> DEFINE next == [worker[w] EXCEPT !.pc = "read", !.ready = TRUE]
               legs == EtherOf(worker[w].tx)
    <3>1. next \in Enriching /\ next.pc = "read" /\ next.tx = worker[w].tx
      BY <2>1 DEF Enriching
    <3>2. legs \in SUBSET Leg
      BY CircularAssumption DEF EtherOf
    <3>3. Write(w, legs, next)
      BY <1>2, <2>2 DEF SaveEdge
    <3>4. legs = EtherOf(next.tx)
      BY <3>1
    <3> HIDE DEF next, legs
    <3>5. WriteEffect(w, legs, next)
      BY <1>0, <3>1, <3>2, <3>3, Written
    <3>6. PICK this \in Enriching :
             /\ worker' = [worker EXCEPT ![w] = this]
             /\ this.pc = "read" /\ this.tx = next.tx
             /\ this.ready => legs \subseteq edges'
      BY <3>1, <3>5 DEF WriteEffect
    <3>7. edges \subseteq edges' /\ edges' \subseteq Leg /\ faults' \in 0 .. MaxFaults
      BY <3>5 DEF WriteEffect
    <3> QED
      BY <1>0, <2>1, <3>4, <3>6, <3>7, WorkerStep DEF CircularInv, CircularTypeOK
  <2>3. CASE EtherOf(worker[w].tx) = {}
    <3> DEFINE this == [worker[w] EXCEPT !.pc = "read"]
    <3>1. this \in Enriching /\ this.pc = "read" /\ this.tx = worker[w].tx
      BY <2>1 DEF Enriching
    <3>2. worker' = [worker EXCEPT ![w] = this] /\ UNCHANGED <<edges, faults>>
      BY <1>2, <2>3 DEF SaveEdge
    <3>3. EtherOf(this.tx) \subseteq edges'
      BY <2>3, <3>1
    <3> HIDE DEF this
    <3> QED
      BY <1>0, <2>1, <3>1, <3>2, <3>3, WorkerStep DEF CircularInv, CircularTypeOK
  <2> QED
    BY <2>2, <2>3
<1>3. ASSUME NEW w \in Worker, ReadTransfers(w) PROVE CircularInv'
  <2>1. /\ worker[w] \in Enriching /\ worker[w].tx \in Tx /\ worker[w].pc = "read"
        /\ UNCHANGED <<jobs, mined, edges, flags, evaluated>>
    BY <1>0, <1>3, BusyWorker DEF ReadTransfers, At
  <2>2. faults' \in 0 .. MaxFaults
    BY <1>0, <1>3, Counted DEF ReadTransfers
  <2>3. PICK rest \in SUBSET Leg :
           \/ worker' = [worker EXCEPT ![w].pc = "transfers", ![w].rest = rest]
           \/ worker' = [worker EXCEPT ![w].pc = "transfers", ![w].failed = TRUE]
    <3>1. TokensOf(worker[w].tx) \in SUBSET Leg
      BY DEF TokensOf
    <3> QED
      BY <1>3, <3>1 DEF ReadTransfers
  <2>4. PICK this \in Enriching :
           /\ worker' = [worker EXCEPT ![w] = this]
           /\ this.pc = "transfers" /\ this.tx = worker[w].tx /\ this.ready = worker[w].ready
    <3>1. /\ [worker[w] EXCEPT !.pc = "transfers", !.rest = rest] \in Enriching
          /\ [worker[w] EXCEPT !.pc = "transfers", !.failed = TRUE] \in Enriching
      BY <2>1 DEF Enriching
    <3>2. CASE worker' = [worker EXCEPT ![w].pc = "transfers", ![w].rest = rest]
      <4>1. worker' = [worker EXCEPT ![w] = [worker[w] EXCEPT !.pc = "transfers", !.rest = rest]]
        BY <1>0, <3>2
      <4> QED
        BY <2>1, <3>1, <4>1 DEF Enriching
    <3>3. CASE worker' = [worker EXCEPT ![w].pc = "transfers", ![w].failed = TRUE]
      <4>1. worker' = [worker EXCEPT ![w] = [worker[w] EXCEPT !.pc = "transfers", !.failed = TRUE]]
        BY <1>0, <3>3
      <4> QED
        BY <2>1, <3>1, <4>1 DEF Enriching
    <3> QED
      BY <2>3, <3>2, <3>3
  <2>5. this.ready => EtherOf(this.tx) \subseteq edges'
    BY <2>1, <2>4 DEF CircularInv, WrittenBeforeSearch
  <2> QED
    BY <1>0, <2>1, <2>2, <2>4, <2>5, WorkerStep DEF CircularInv, CircularTypeOK
<1>4. ASSUME NEW w \in Worker, SaveTokenTransfers(w) PROVE CircularInv'
  <2> DEFINE tx == worker[w].tx
             next == [worker[w] EXCEPT !.pc = "search",
                                       !.rest = worker[w].rest \cup (Closing \cap EtherOf(tx))]
             ready == worker[w].ready \/ EtherOf(tx) = {}
  <2>1. /\ worker[w] \in Enriching /\ worker[w].pc = "transfers" /\ worker[w].rest \subseteq Leg
        /\ UNCHANGED <<jobs, mined, flags, evaluated>>
    BY <1>0, <1>4, BusyWorker DEF SaveTokenTransfers, At
  <2>2. worker[w].ready => EtherOf(tx) \subseteq edges
    BY <2>1 DEF CircularInv, WrittenBeforeSearch
  <2>3. EtherOf(tx) \subseteq Leg
    BY CircularAssumption DEF EtherOf
  <2>4. /\ next \in Enriching /\ next.pc = "search" /\ next.ready = worker[w].ready
        /\ next.rest = worker[w].rest \cup (Closing \cap EtherOf(tx))
    BY <2>1, <2>3 DEF Enriching
  <2>5. CASE worker[w].rest # {}
    <3> DEFINE after == [next EXCEPT !.ready = next.ready \/ EtherOf(tx) = {}]
    <3>1. /\ after \in Enriching /\ after.pc = "search" /\ after.ready = ready
          /\ after.rest = worker[w].rest \cup (Closing \cap EtherOf(tx))
      <4> HIDE DEF next
      <4> QED
        BY <2>4 DEF Enriching
    <3>2. Write(w, worker[w].rest, after)
      BY <1>4, <2>5 DEF SaveTokenTransfers
    <3>3. PICK legs \in SUBSET Leg : legs = worker[w].rest
      BY <2>1
    <3>4. Write(w, legs, after)
      BY <3>2, <3>3
    <3> HIDE DEF after, next
    <3>5. WriteEffect(w, legs, after)
      BY <1>0, <3>1, <3>4, Written
    <3>6. PICK this \in Enriching :
             /\ worker' = [worker EXCEPT ![w] = this]
             /\ this.pc = "search" /\ this.rest = after.rest
             /\ this.ready => this = after /\ legs \subseteq edges'
      BY <3>1, <3>5 DEF WriteEffect
    <3>7. this.ready => this.rest \subseteq edges'
      <4>1. ready => EtherOf(tx) \subseteq edges'
        BY <2>2, <3>5 DEF WriteEffect
      <4> QED
        BY <3>1, <3>3, <3>6, <4>1
    <3>8. edges \subseteq edges' /\ edges' \subseteq Leg /\ faults' \in 0 .. MaxFaults
      BY <3>5 DEF WriteEffect
    <3> QED
      BY <1>0, <2>1, <3>6, <3>7, <3>8, WorkerStep DEF CircularInv, CircularTypeOK
  <2>6. CASE worker[w].rest = {}
    <3>1. worker' = [worker EXCEPT ![w] = next] /\ UNCHANGED <<edges, faults>>
      BY <1>4, <2>6 DEF SaveTokenTransfers
    <3>2. next.ready => next.rest \subseteq edges'
      BY <2>2, <2>4, <2>6, <3>1
    <3> HIDE DEF next
    <3> QED
      BY <1>0, <2>1, <2>4, <3>1, <3>2, WorkerStep DEF CircularInv, CircularTypeOK
  <2> QED
    BY <2>5, <2>6
<1>5. ASSUME NEW w \in Worker, Search(w) PROVE CircularInv'
  <2>1. /\ worker[w] \in Enriching /\ worker[w].rest \subseteq edges
        /\ UNCHANGED <<jobs, mined, edges, flags>>
    BY <1>0, <1>5, BusyWorker DEF Search, At, CircularTypeOK
  <2>2. PICK l \in worker[w].rest :
          \/ /\ worker' = [worker EXCEPT ![w].rest = @ \ {l}]
             /\ evaluated' \in {evaluated, evaluated \cup {l}}
             /\ UNCHANGED faults \/ Fault
          \/ /\ \E loop \in Found(l) :
                   worker' = [worker EXCEPT ![w].pc = "flag", ![w].rest = @ \ {l},
                                            ![w].loop = loop]
             /\ UNCHANGED <<evaluated, faults>>
    BY <1>5 DEF Search
  <2>3. evaluated' \subseteq edges' /\ faults' \in 0 .. MaxFaults
    BY <1>0, <2>1, <2>2, Counted
  <2>4. PICK this \in Enriching :
           /\ worker' = [worker EXCEPT ![w] = this]
           /\ this.rest = worker[w].rest \ {l}
           /\ this.pc \in {"search", "flag"}
           /\ this.pc = "flag" => this.loop \in Found(l)
    <3>1. CASE worker' = [worker EXCEPT ![w].rest = @ \ {l}]
      <4> DEFINE this == [worker[w] EXCEPT !.rest = worker[w].rest \ {l}]
      <4>1. this \in Enriching /\ this.rest = worker[w].rest \ {l} /\ this.pc = "search"
        BY <1>5, <2>1 DEF Enriching, Search, At
      <4>2. worker' = [worker EXCEPT ![w] = this]
        BY <1>0, <3>1
      <4> HIDE DEF this
      <4> QED
        BY <4>1, <4>2
    <3>2. ASSUME NEW loop \in Found(l),
                 worker' = [worker EXCEPT ![w].pc = "flag", ![w].rest = @ \ {l}, ![w].loop = loop]
          PROVE  \E this \in Enriching :
                    /\ worker' = [worker EXCEPT ![w] = this]
                    /\ this.rest = worker[w].rest \ {l}
                    /\ this.pc \in {"search", "flag"}
                    /\ this.pc = "flag" => this.loop \in Found(l)
      <4> DEFINE this == [worker[w] EXCEPT !.pc = "flag", !.rest = worker[w].rest \ {l},
                                           !.loop = loop]
      <4>0. loop \in Seq(Leg)
        BY LoopSequences DEF Found, ClosedBy
      <4>1. /\ this \in Enriching /\ this.rest = worker[w].rest \ {l}
            /\ this.pc = "flag" /\ this.loop = loop
        BY <2>1, <4>0 DEF Enriching
      <4>2. worker' = [worker EXCEPT ![w] = this]
        BY <1>0, <3>2
      <4> HIDE DEF this
      <4> QED
        BY <4>1, <4>2
    <3> QED
      BY <2>2, <3>1, <3>2
  <2>5. this.rest \subseteq edges'
    BY <2>1, <2>4
  <2>6. this.pc = "flag" => this.loop \in Loops /\ this.loop[1] \in edges'
    BY <2>1, <2>2, <2>4 DEF Found, ClosedBy
  <2> QED
    BY <1>0, <2>1, <2>3, <2>4, <2>5, <2>6, WorkerStep DEF CircularInv, CircularTypeOK
<1>6. ASSUME NEW w \in Worker, SaveFlag(w) PROVE CircularInv'
  <2> DEFINE loop == worker[w].loop
             this == [worker[w] EXCEPT !.pc = "search", !.loop = <<>>]
             flag == [tx |-> TxOf[loop[1]], address |-> From[loop[1]], loop |-> loop]
  <2>1. /\ worker[w] \in Enriching /\ UNCHANGED <<jobs, mined, edges>>
        /\ worker[w].ready => worker[w].rest \subseteq edges
        /\ loop \in Loops /\ loop[1] \in edges
    BY <1>0, <1>6, BusyWorker DEF SaveFlag, At, CircularInv, WrittenBeforeSearch
  <2>2. flag \in [tx : Tx, address : {From[l] : l \in Leg}, loop : Seq(Leg)]
    <3>1. loop \in Seq(Leg) /\ loop[1] \in Leg
      BY <2>1, LoopSequences
    <3>2. TxOf[loop[1]] \in Tx
      BY <3>1, CircularAssumption
    <3> HIDE DEF loop
    <3> QED
      BY <3>1, <3>2
  <2>3. flags' \subseteq flags \cup {flag} /\ evaluated' \subseteq edges' /\ faults' \in 0 .. MaxFaults
    BY <1>0, <1>6, <2>1, Counted DEF SaveFlag
  <2>4. worker' = [worker EXCEPT ![w] = this]
    BY <1>0, <1>6 DEF SaveFlag
  <2>5. this \in Enriching /\ this.pc = "search" /\ this.rest = worker[w].rest
        /\ this.ready = worker[w].ready
    <3>1. <<>> \in Seq(Leg)
      OBVIOUS
    <3> QED
      BY <2>1, <3>1 DEF Enriching
  <2>6. flags' \subseteq [tx : Tx, address : {From[l] : l \in Leg}, loop : Seq(Leg)]
    BY <1>0, <2>2, <2>3
  <2> HIDE DEF this, flag, loop
  <2> QED
    BY <1>0, <2>1, <2>3, <2>4, <2>5, <2>6, WorkerStep DEF CircularInv, CircularTypeOK
<1>7. ASSUME NEW w \in Worker, Mark(w) PROVE CircularInv'
  <2>1. /\ worker[w].tx \in Tx /\ worker' = [worker EXCEPT ![w] = Idle]
        /\ UNCHANGED <<mined, edges, flags, evaluated, faults>>
    BY <1>0, <1>7, BusyWorker DEF Mark, At
  <2>2. jobs' \in [Tx -> Job]
    BY <1>0, <1>7, <2>1, JobRows DEF Mark
  <2>3. Idle.pc = "idle"
    BY DEF Idle
  <2> QED
    BY <1>0, <2>1, <2>2, <2>3, WorkerStep DEF CircularInv, CircularTypeOK
<1>8. ASSUME NEW t \in Tx, SaveTransaction(t) \/ SaveBlock(t) \/ TimePasses(t) PROVE CircularInv'
  <2>1. jobs' \in [Tx -> Job]
    <3>1. CASE SaveTransaction(t) \/ SaveBlock(t)
      BY <1>0, <3>1, Queued DEF SaveTransaction, SaveBlock
    <3>2. CASE TimePasses(t)
      BY <1>0, <3>2, JobRows DEF TimePasses
    <3> QED
      BY <1>8, <3>1, <3>2
  <2>2. mined' \subseteq Tx /\ UNCHANGED <<edges, flags, worker, evaluated, faults>>
    BY <1>0, <1>8 DEF SaveTransaction, SaveBlock, TimePasses
  <2> QED
    BY <1>0, <2>1, <2>2, OtherStep DEF CircularInv, CircularTypeOK
<1>9. ASSUME Restart PROVE CircularInv'
  <2>1. UNCHANGED <<jobs, mined, edges, flags, evaluated>> /\ faults' \in 0 .. MaxFaults
    BY <1>0, <1>9, Counted DEF Restart
  <2>2. worker' = [w \in Worker |-> Idle] /\ Idle.pc = "idle"
    BY <1>9 DEF Restart, Idle
  <2> QED
    BY <1>0, <2>1, <2>2 DEF CircularInv, CircularTypeOK, WrittenBeforeSearch, At
<1>10. CASE UNCHANGED circularVars
  <2>1. UNCHANGED <<jobs, mined, edges, flags, worker, evaluated, faults>>
    BY <1>10 DEF circularVars
  <2> QED
    BY <1>0, <2>1, OtherStep DEF CircularInv, CircularTypeOK
<1> QED
  BY <1>1, <1>2, <1>3, <1>4, <1>5, <1>6, <1>7, <1>8, <1>9, <1>10 DEF CircularNext, Enrich

\* Types, with the order that detection relies on: a worker searches only for loops through
\* transfers that are in the graph, although the writes of a job may fail before it.
THEOREM CircularTypeCorrect == CircularSpec => []CircularTypeOK
<1>1. CircularInv => CircularTypeOK
  BY DEF CircularInv
<1> QED
  BY CircularInitial, CircularInductive, <1>1, PTL DEF CircularSpec
-----------------------------------------------------------------------------
\* What a step does to the history and the flags.
LEMMA EvaluatedOrFlagged ==
    ASSUME CircularInv, [CircularNext]_circularVars
    PROVE  /\ flags \subseteq flags'
           /\ \/ evaluated' = evaluated
              \/ \E l \in Leg : /\ evaluated' = evaluated \cup {l}
                                /\ l \in edges
                                /\ ClosedBy(l, edges) = {} \/ Flagged(l)'
<1>0. CircularTypeOK /\ edges \subseteq Leg
  BY DEF CircularInv, CircularTypeOK
<1>1. ASSUME NEW w \in Worker, Search(w)
      PROVE  /\ flags = flags'
             /\ \/ evaluated' = evaluated
                \/ \E l \in Leg : /\ evaluated' = evaluated \cup {l}
                                  /\ l \in edges /\ ClosedBy(l, edges) = {}
  <2>1. worker[w].rest \subseteq edges
    BY <1>0, <1>1 DEF Search, At, CircularTypeOK
  <2>2. \/ evaluated' = evaluated
        \/ \E l \in worker[w].rest : Found(l) = {} /\ evaluated' = evaluated \cup {l}
    BY <1>1 DEF Search
  <2> QED
    BY <1>0, <1>1, <2>1, <2>2, SearchIsComplete DEF Search
<1>2. ASSUME NEW w \in Worker, SaveFlag(w)
      PROVE  /\ flags \subseteq flags'
             /\ \/ evaluated' = evaluated
                \/ \E l \in Leg : evaluated' = evaluated \cup {l} /\ l \in edges /\ Flagged(l)'
  <2>1. PICK l \in Leg : l = worker[w].loop[1] /\ l \in edges
    BY <1>0, <1>2 DEF SaveFlag, CircularInv, WrittenBeforeSearch
  <2>2. PICK flag : flag = [tx |-> TxOf[l], address |-> From[l], loop |-> worker[w].loop]
    OBVIOUS
  <2>3. /\ flag.tx = TxOf[l] /\ flag.address = From[l]
        /\ \/ UNCHANGED <<flags, evaluated>>
           \/ /\ flags' = IF Flagged(l) THEN flags ELSE flags \cup {flag}
              /\ evaluated' = evaluated \cup {l}
    BY <1>2, <2>1, <2>2 DEF SaveFlag
  <2>4. CASE UNCHANGED <<flags, evaluated>>
    BY <2>4
  <2>5. CASE Flagged(l) /\ flags' = flags /\ evaluated' = evaluated \cup {l}
    <3>1. Flagged(l)'
      BY <2>5 DEF Flagged
    <3> QED
      BY <1>0, <2>1, <2>5, <3>1
  <2>6. CASE flags' = flags \cup {flag} /\ evaluated' = evaluated \cup {l}
    <3>1. Flagged(l)'
      BY <2>3, <2>6 DEF Flagged
    <3> QED
      BY <1>0, <2>1, <2>6, <3>1
  <2> QED
    BY <2>3, <2>4, <2>5, <2>6
<1>3. ASSUME \/ \E w \in Worker : \/ SaveEdge(w) \/ ReadTransfers(w) \/ SaveTokenTransfers(w)
                                  \/ Mark(w) \/ \E t \in Tx : Claim(w, t)
             \/ \E t \in Tx : SaveTransaction(t) \/ SaveBlock(t) \/ TimePasses(t)
             \/ Restart
             \/ UNCHANGED circularVars
      PROVE  UNCHANGED <<flags, evaluated>>
  BY <1>3 DEF SaveEdge, ReadTransfers, SaveTokenTransfers, Mark, Claim, SaveTransaction, SaveBlock,
              TimePasses, Restart, circularVars
<1> QED
  BY <1>1, <1>2, <1>3 DEF CircularNext, Enrich

LEMMA CircleStep ==
    CircularInv /\ CircleIsFlagged /\ [CircularNext]_circularVars => CircleIsFlagged'
<1> SUFFICES ASSUME CircularInv, CircleIsFlagged, [CircularNext]_circularVars,
                    NEW L \in Circles, L \subseteq evaluated'
             PROVE  \E l \in L : Flagged(l)'
  BY DEF CircleIsFlagged, Circles, ClosedBy
<1>1. flags \subseteq flags' /\ evaluated \subseteq edges
  BY EvaluatedOrFlagged DEF CircularInv, CircularTypeOK
<1>2. \A l \in L : Flagged(l) => Flagged(l)'
  BY <1>1 DEF Flagged
<1>3. CASE L \subseteq evaluated
  BY <1>2, <1>3 DEF CircleIsFlagged
<1>4. CASE ~ (L \subseteq evaluated)
  <2>1. PICK l \in Leg : /\ evaluated' = evaluated \cup {l} /\ l \in edges
                         /\ ClosedBy(l, edges) = {} \/ Flagged(l)'
    BY <1>4, EvaluatedOrFlagged
  <2>2. l \in L /\ L \subseteq edges
    BY <1>1, <1>4, <2>1
  <2>3. ClosedBy(l, L) # {}
    BY <2>2 DEF Circles
  <2>4. ClosedBy(l, edges) # {}
    BY <2>2, <2>3, ClosedInPart
  <2> QED
    BY <2>1, <2>2, <2>4
<1> QED
  BY <1>3, <1>4

\* Of the transfers of a circle that were all searched, in whatever order and by whichever
\* workers, at least one is flagged.
THEOREM CirclesFlagged == CircularSpec => []CircleIsFlagged
<1>1. CircularInit => CircleIsFlagged
  <2>1. {} \notin Circles
    BY DEF Circles
  <2>2. ASSUME CircularInit, NEW L \in Circles, L \subseteq evaluated PROVE L = {}
    BY <2>2 DEF CircularInit
  <2> QED
    BY <2>1, <2>2 DEF CircleIsFlagged
<1> QED
  BY CircularInitial, CircularInductive, <1>1, CircleStep, PTL DEF CircularSpec
=============================================================================

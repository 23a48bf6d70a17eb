-------------------------- MODULE Maintenance_proofs --------------------------
(***************************************************************************)
(* Proofs about Maintenance, for any windows, intervals and number of      *)
(* restarts: types, that the rollup never loses a row, and which rows      *)
(* behaviourSince may pass over.                                           *)
(***************************************************************************)
EXTENDS Maintenance, TLAPS, FiniteSetTheorems

\* A turn is short, and behaviourSince stays an interval behind the clock, so that what is not
\* stored late is stored after it.
LoopOK ==
    /\ loop.pc # "sleep" => now <= loop.started + MaxTurn
    /\ loop.pc = "backfill" /\ restarts = 0 => loop.started = 0
    /\ loop.since <= now - Interval

\* A vector misses only what was stored after its rows were read.
VectorsFresh ==
    \A a \in Address : vectors[a] # Null =>
        \A t \in RowsOf(a) : Reflected(t, a) \/ arrived[t] >= vectors[a].at - MaxTurn

\* So does one that is being computed.
ReadingFresh ==
    loop.pc = "store" =>
        \A t \in RowsOf(loop.account) : t \in loop.rows \/ arrived[t] >= loop.started

\* behaviourSince may pass t.
Settled(t, a) == Reflected(t, a) \/ Late(t) \/ BeforeReselection(t, a) \/ BeforeLookback(t)

\* What it has not passed, the next turn selects.
NextTurnSees ==
    Cardinality(Address) <= BehaviorBatch =>
        \A t \in Row : \A a \in AddressesOf[t] : Settled(t, a) \/ timestamps[t] >= loop.since

\* While accounts are rebuilt, what the next behaviourSince passes is settled or in the batch.
TurnCovers ==
    Cardinality(Address) <= BehaviorBatch /\ loop.pc \in {"features", "store"} =>
        \A t \in Row : \A a \in AddressesOf[t] :
            \/ Settled(t, a) \/ a \in loop.batch
            \/ timestamps[t] >= loop.started - Interval \/ timestamps[t] < loop.since

MaintenanceInv ==
    MaintenanceTypeOK /\ LoopOK /\ VectorsFresh /\ ReadingFresh /\ TurnCovers /\ NextTurnSees
-----------------------------------------------------------------------------
(***************************************************************************)
(* The rollup.                                                             *)
(***************************************************************************)

LEMMA HourBounds ==
    ASSUME NEW time \in Int
    PROVE  /\ Hour(time) \in Int
           /\ Hour(time) * HourLength <= time /\ time < Hour(time) * HourLength + HourLength
<1>1. HourLength \in Nat \ {0}
  BY MaintenanceAssumption
<1>2. ASSUME NEW b \in Nat \ {0}
      PROVE  time \div b \in Int /\ (time \div b) * b <= time /\ time < (time \div b) * b + b
  OBVIOUS
<1> QED
  BY <1>1, <1>2 DEF Hour

\* A row of an hour that a window touches is in the window itself.
LEMMA WholeHours ==
    ASSUME NEW since \in Int, NEW u \in Int, NEW v \in Int,
           u >= Hour(since) * HourLength, Hour(v) = Hour(u)
    PROVE  v >= Hour(since) * HourLength
<1> DEFINE q == Hour(since)
           r == Hour(u)
<1>1. q \in Int /\ r \in Int /\ HourLength \in Nat \ {0} /\ u < r * HourLength + HourLength
      /\ r * HourLength <= v
  BY HourBounds, MaintenanceAssumption
<1>2. q * HourLength < r * HourLength + HourLength
  <2> HIDE DEF q, r
  <2>1. q * HourLength \in Int /\ r * HourLength \in Int
    BY <1>1
  <2> QED
    BY <1>1, <2>1 DEF q
<1>3. q <= r
  <2>1. ASSUME NEW i \in Int, NEW j \in Int, NEW b \in Nat \ {0}, i * b < j * b + b PROVE i <= j
    BY <2>1
  <2> HIDE DEF q, r
  <2> QED
    BY <1>1, <1>2, <2>1
<1>4. q * HourLength <= r * HourLength
  <2>1. ASSUME NEW i \in Int, NEW j \in Int, NEW b \in Nat \ {0}, i <= j PROVE i * b <= j * b
    BY <2>1
  <2> HIDE DEF q, r
  <2> QED
    BY <1>1, <1>3, <2>1
<1> QED
  <2> HIDE DEF q, r
  <2>1. q * HourLength \in Int /\ r * HourLength \in Int
    BY <1>1
  <2>2. q * HourLength <= v
    BY <1>1, <1>4, <2>1
  <2> QED
    BY <2>2 DEF q

LEMMA RefreshKeeps ==
    ASSUME MaintenanceTypeOK, NEW since \in Int
    PROVE  Refreshed(since) \subseteq Row /\ rollup \subseteq Refreshed(since)
<1> DEFINE windowed == {t \in Row : timestamps[t] >= Hour(since) * HourLength}
           hours == {Hour(timestamps[t]) : t \in windowed}
<1>1. Refreshed(since) = {t \in rollup : Hour(timestamps[t]) \notin hours} \cup windowed
  BY DEF Refreshed
<1>2. rollup \subseteq Row /\ \A t \in Row : timestamps[t] \in Int
  BY DEF MaintenanceTypeOK, Row
<1>3. ASSUME NEW t \in rollup, Hour(timestamps[t]) \in hours PROVE t \in windowed
  <2>1. PICK u \in windowed : Hour(timestamps[t]) = Hour(timestamps[u])
    BY <1>3
  <2> QED
    BY <1>2, <2>1, WholeHours
<1> QED
  <2> HIDE DEF windowed
  <2>1. windowed \subseteq Row
    BY DEF windowed
  <2> HIDE DEF hours
  <2> QED
    BY <1>1, <1>2, <1>3, <2>1
-----------------------------------------------------------------------------
(***************************************************************************)
(* Types.                                                                  *)
(***************************************************************************)

LEMMA Numbers ==
    /\ {Interval, HourLength, BehaviorBatch} \subseteq Nat \ {0}
    /\ {Lookback, SkipWindow, RecentWindow, BackfillWindow, Latency, MaxTurn, MaxTime} \subseteq Nat
    /\ Interval <= Lookback /\ MaxTurn <= Lookback
    /\ Null \notin Nat /\ Null \notin Vector
<1>1. Vector \subseteq [rows : SUBSET Tx, at : Nat]
  BY DEF Vector
<1> QED
  BY <1>1, MaintenanceAssumption

\* What the turn does with the loop's locals.
LEMMA LoopTypes ==
    ASSUME MaintenanceTypeOK
    PROVE  /\ Failed(loop) \in Loop /\ Failed(loop).pc = "sleep"
           /\ Failed(loop).since = loop.since /\ Failed(loop).started = loop.started
           /\ Finished(loop) \in Loop /\ Finished(loop).pc = "sleep"
           /\ Finished(loop).since = loop.started - Interval /\ Finished(loop).started = loop.started
<1> DEFINE asleep == Asleep(loop)
<1>1. loop \in Loop /\ loop.started \in Nat
  BY DEF MaintenanceTypeOK, Loop
<1>2. asleep \in Loop /\ asleep.pc = "sleep" /\ asleep.since = loop.since
      /\ asleep.started = loop.started
  BY <1>1 DEF Asleep, Loop
<1>3. loop.started - Interval \in Int
  BY <1>1, Numbers
<1>4. Finished(loop) = [asleep EXCEPT !.since = loop.started - Interval] /\ Failed(loop) = asleep
  BY DEF Finished, Failed
<1> HIDE DEF asleep
<1>5. [asleep EXCEPT !.since = loop.started - Interval] \in Loop
  BY <1>2, <1>3 DEF Loop
<1> QED
  BY <1>2, <1>3, <1>4, <1>5 DEF Loop

LEMMA StartingTypes ==
    ASSUME NEW time \in Nat
    PROVE  /\ Starting(time) \in Loop /\ Starting(time).pc = "backfill"
           /\ Starting(time).started = time /\ Starting(time).since = time - Lookback
BY Numbers DEF Loop, Starting

LEMMA InitTypes == MaintenanceInit => MaintenanceTypeOK
BY StartingTypes DEF MaintenanceInit, MaintenanceTypeOK, Row

\* The rows that come are stored now, and are not younger than that.
LEMMA InsertTypes ==
    ASSUME MaintenanceTypeOK, NEW txs \in SUBSET Tx, Insert(txs)
    PROVE  /\ MaintenanceTypeOK' /\ Row \subseteq Row'
           /\ \A t \in Row : timestamps'[t] = timestamps[t] /\ arrived'[t] = arrived[t]
           /\ \A t \in Row' \ Row : timestamps'[t] \in 0 .. now /\ arrived'[t] = now
<1> PICK time \in {now - age : age \in Ages} \cap Nat :
       timestamps' = [t \in Tx |-> IF t \in txs \ Row THEN time ELSE timestamps[t]]
  BY DEF Insert
<1>1. timestamps \in [Tx -> (0 .. now) \cup {Null}] /\ arrived \in [Tx -> (0 .. now) \cup {Null}]
      /\ now \in Nat /\ time \in 0 .. now /\ now \in 0 .. now
  BY MaintenanceAssumption DEF MaintenanceTypeOK
<1>2. time # Null /\ now # Null
  BY <1>1, Numbers
<1>3. timestamps' \in [Tx -> (0 .. now) \cup {Null}] /\ arrived' \in [Tx -> (0 .. now) \cup {Null}]
  BY <1>1 DEF Insert
<1>4. \A t \in Tx : t \notin txs \ Row => timestamps'[t] = timestamps[t] /\ arrived'[t] = arrived[t]
  BY DEF Insert
<1>5. \A t \in Tx : t \in txs \ Row => timestamps'[t] = time /\ arrived'[t] = now
  BY DEF Insert
<1>6. Row' = Row \cup txs
  BY <1>2, <1>4, <1>5 DEF Row
<1>7. /\ \A t \in Row : timestamps'[t] = timestamps[t] /\ arrived'[t] = arrived[t]
      /\ \A t \in Row' \ Row : timestamps'[t] = time /\ arrived'[t] = now
  BY <1>4, <1>5, <1>6 DEF Row
<1>8. \A t \in Row' : arrived'[t] # Null /\ arrived'[t] >= timestamps'[t]
  BY <1>1, <1>2, <1>7 DEF MaintenanceTypeOK
<1>9. \A a : RowsOf(a) \subseteq RowsOf(a)'
  BY <1>6 DEF RowsOf
<1>10. UNCHANGED <<now, rollup, vectors, loop, errors, restarts>>
  BY DEF Insert, derivedVars
<1>11. MaintenanceTypeOK'
  BY <1>3, <1>6, <1>8, <1>9, <1>10 DEF MaintenanceTypeOK
<1>12. \A t \in Row' \ Row : timestamps'[t] \in 0 .. now
  BY <1>1, <1>7
<1> QED
  BY <1>6, <1>7, <1>11, <1>12

\* The types that mention the clock stay as it advances.
LEMMA LaterTypes ==
    ASSUME MaintenanceTypeOK, now' \in Nat, now <= now',
           UNCHANGED <<timestamps, arrived, vectors>>
    PROVE  /\ timestamps' \in [Tx -> (0 .. now') \cup {Null}]
           /\ arrived' \in [Tx -> (0 .. now') \cup {Null}]
           /\ \A t \in Row' : arrived'[t] # Null /\ arrived'[t] >= timestamps'[t]
           /\ \A a \in Address : vectors'[a] # Null => vectors'[a].at <= now'
           /\ Row' = Row /\ (\A a : RowsOf(a)' = RowsOf(a))
           /\ loop.started <= now'
<1>1. now \in Nat /\ loop.started \in Nat
  BY DEF MaintenanceTypeOK, Loop
<1>2. (0 .. now) \cup {Null} \subseteq (0 .. now') \cup {Null}
  BY <1>1
<1>3. timestamps' \in [Tx -> (0 .. now') \cup {Null}] /\ arrived' \in [Tx -> (0 .. now') \cup {Null}]
  BY <1>2 DEF MaintenanceTypeOK
<1>4. ASSUME NEW a \in Address, vectors[a] # Null PROVE vectors[a].at <= now'
  BY <1>1, <1>4 DEF MaintenanceTypeOK, Vector
<1>5. Row' = Row /\ (\A a : RowsOf(a)' = RowsOf(a))
  BY DEF Row, RowsOf
<1>6. \A t \in Row' : arrived'[t] # Null /\ arrived'[t] >= timestamps'[t]
  BY <1>5 DEF MaintenanceTypeOK
<1> QED
  BY <1>1, <1>3, <1>4, <1>5, <1>6 DEF MaintenanceTypeOK

LEMMA NextTypes ==
    ASSUME MaintenanceTypeOK, [MaintenanceNext]_maintenanceVars
    PROVE  MaintenanceTypeOK'
<1> USE DEF rowVars, derivedVars
<1>1. ASSUME NEW txs \in SUBSET Tx, Insert(txs) PROVE MaintenanceTypeOK'
  BY <1>1, InsertTypes
<1>2. CASE ClockTicks
  <2>1. /\ now' \in Nat /\ now <= now'
        /\ UNCHANGED <<timestamps, arrived, rollup, vectors, loop, errors, restarts>>
    BY <1>2 DEF ClockTicks, MaintenanceTypeOK
  <2> QED
    BY <2>1, LaterTypes DEF MaintenanceTypeOK
<1>3. CASE Backfill
  <2>1. PICK ok \in BOOLEAN :
           /\ IF ok THEN rollup' = Refreshed(now - BackfillWindow) /\ UNCHANGED errors
                    ELSE Error /\ UNCHANGED rollup
           /\ loop' = [loop EXCEPT !.pc = "rollup", !.since = now - Lookback, !.started = now,
                                   !.backfilled = ok]
    BY <1>3 DEF Backfill
  <2>2. loop' \in Loop /\ loop'.pc = "rollup" /\ loop'.started = now
    <3>1. now \in Nat /\ now - Lookback \in Int /\ loop \in Loop
      BY Numbers DEF MaintenanceTypeOK
    <3> QED
      BY <2>1, <3>1 DEF Loop
  <2>3. rollup' \subseteq Row /\ errors' \in Nat
    BY <2>1, RefreshKeeps, Numbers DEF MaintenanceTypeOK, Error
  <2> QED
    BY <1>3, <2>2, <2>3 DEF Backfill, MaintenanceTypeOK, Row, RowsOf
<1>4. CASE RefreshRecent
  <2>1. loop' \in Loop /\ loop'.pc = "select" /\ loop'.started = loop.started
    BY <1>4 DEF RefreshRecent, MaintenanceTypeOK, Loop
  <2>2. rollup' \subseteq Row /\ errors' \in Nat
    BY <1>4, RefreshKeeps, Numbers DEF RefreshRecent, MaintenanceTypeOK, Error
  <2> QED
    BY <1>4, <2>1, <2>2 DEF RefreshRecent, MaintenanceTypeOK, Row, RowsOf
<1>5. CASE Select
  <2>1. loop' \in Loop /\ loop'.pc # "store" /\ loop'.started = loop.started
    <3>1. ASSUME NEW B \in Batches, loop' = [loop EXCEPT !.pc = "features", !.batch = B]
          PROVE  loop' \in Loop /\ loop'.pc # "store" /\ loop'.started = loop.started
      BY <3>1 DEF MaintenanceTypeOK, Loop, Batches, Selectable
    <3> QED
      BY <1>5, <3>1, LoopTypes DEF Select
  <2>2. errors' \in Nat
    <3>1. UNCHANGED errors \/ Error
      BY <1>5 DEF Select
    <3> QED
      BY <3>1 DEF MaintenanceTypeOK, Error
  <2> QED
    BY <1>5, <2>1, <2>2 DEF Select, MaintenanceTypeOK, Row, RowsOf
<1>6. CASE ComputeFeatures
  <2>1. loop' \in Loop /\ loop'.started = loop.started
        /\ (loop'.pc = "store" => loop'.account \in loop'.batch /\ loop'.rows = RowsOf(loop'.account))
    <3>1. ASSUME NEW a \in loop.batch,
                 loop' = [loop EXCEPT !.pc = "store", !.account = a, !.rows = RowsOf(a)]
          PROVE  loop' \in Loop /\ loop'.started = loop.started
                 /\ loop'.account \in loop'.batch /\ loop'.rows = RowsOf(loop'.account)
      BY <3>1 DEF MaintenanceTypeOK, Loop, RowsOf, Row
    <3> QED
      BY <1>6, <3>1, LoopTypes DEF ComputeFeatures
  <2>2. errors' \in Nat
    <3>1. UNCHANGED errors \/ Error
      BY <1>6 DEF ComputeFeatures
    <3> QED
      BY <3>1 DEF MaintenanceTypeOK, Error
  <2> QED
    BY <1>6, <2>1, <2>2 DEF ComputeFeatures, MaintenanceTypeOK, Row, RowsOf
<1>7. CASE StoreVector
  <2>1. loop.account \in Address /\ loop.rows \subseteq RowsOf(loop.account) /\ loop.rows \subseteq Tx
        /\ loop \in Loop /\ now \in Nat
    BY <1>7 DEF StoreVector, MaintenanceTypeOK, Loop
  <2>2. loop' \in Loop /\ loop'.pc # "store" /\ loop'.started = loop.started
    <3>1. ASSUME NEW rest \in SUBSET Address,
                 loop' = [loop EXCEPT !.pc = "features", !.batch = rest, !.account = Null, !.rows = {}]
          PROVE  loop' \in Loop /\ loop'.pc # "store" /\ loop'.started = loop.started
      BY <2>1, <3>1 DEF Loop
    <3>2. loop.batch \ {loop.account} \in SUBSET Address
      BY <2>1 DEF Loop
    <3> QED
      BY <1>7, <3>1, <3>2, LoopTypes DEF StoreVector
  <2>3. errors' \in Nat
    BY <1>7 DEF StoreVector, MaintenanceTypeOK, Error
  <2>4. UNCHANGED <<rowVars, rollup, restarts>>
    BY <1>7 DEF StoreVector
  <2>5. CASE vectors' = [vectors EXCEPT ![loop.account] = [rows |-> loop.rows, at |-> now]]
    <3>1. [rows |-> loop.rows, at |-> now] \in Vector
      BY <2>1 DEF Vector
    <3>2. vectors' \in [Address -> Vector \cup {Null}]
      BY <2>5, <3>1 DEF MaintenanceTypeOK
    <3>3. \A a \in Address : vectors'[a] # Null => vectors'[a].at <= now /\ vectors'[a].rows \subseteq RowsOf(a)
      BY <2>1, <2>5 DEF MaintenanceTypeOK
    <3> QED
      BY <2>2, <2>3, <2>4, <3>2, <3>3 DEF MaintenanceTypeOK, Row, RowsOf
  <2>6. CASE vectors' = vectors
    BY <2>2, <2>3, <2>4, <2>6 DEF MaintenanceTypeOK, Row, RowsOf
  <2> QED
    BY <1>7, <2>5, <2>6 DEF StoreVector
<1>8. CASE Wake
  <2>1. loop' \in Loop /\ loop'.pc = "rollup" /\ loop'.started = now
    BY <1>8 DEF Wake, MaintenanceTypeOK, Loop
  <2> QED
    BY <1>8, <2>1 DEF Wake, MaintenanceTypeOK, Row, RowsOf
<1>9. CASE Restart
  <2>1. PICK later \in now .. MaxTime : now' = later /\ loop' = Starting(later)
    BY <1>9 DEF Restart
  <2>2. now' \in Nat /\ now <= now'
    BY <2>1, Numbers DEF MaintenanceTypeOK
  <2>3. loop' \in Loop /\ loop'.pc = "backfill" /\ loop'.started = now'
    BY <2>1, <2>2, StartingTypes
  <2> QED
    BY <1>9, <2>2, <2>3, LaterTypes DEF Restart, MaintenanceTypeOK
<1>10. CASE UNCHANGED maintenanceVars
  BY <1>10 DEF maintenanceVars, MaintenanceTypeOK, Row, RowsOf
<1> QED
  BY <1>1, <1>2, <1>3, <1>4, <1>5, <1>6, <1>7, <1>8, <1>9, <1>10 DEF MaintenanceNext, RunMaintenance,
     SaveTransaction, SaveBlock
-----------------------------------------------------------------------------
(***************************************************************************)
(* What the vectors do not reflect.                                        *)
(***************************************************************************)

\* A row and one of its accounts.
Pair(t, a) == t \in Row /\ a \in AddressesOf[t]

LEMMA PairTypes ==
    ASSUME MaintenanceTypeOK, NEW t, NEW a, Pair(t, a)
    PROVE  /\ t \in Tx /\ a \in Address /\ t \in RowsOf(a)
           /\ timestamps[t] \in Nat /\ arrived[t] \in Nat
           /\ timestamps[t] <= arrived[t] /\ arrived[t] <= now
           /\ vectors[a] # Null => vectors[a] \in Vector /\ vectors[a].at \in Nat /\ vectors[a].at <= now
<1>1. t \in Tx /\ a \in Address /\ timestamps[t] \in 0 .. now /\ arrived[t] \in 0 .. now
      /\ timestamps[t] <= arrived[t]
  BY MaintenanceAssumption DEF Pair, Row, MaintenanceTypeOK
<1>2. now \in Nat
  BY DEF MaintenanceTypeOK
<1>3. vectors[a] # Null => vectors[a] \in Vector /\ vectors[a].at \in Nat /\ vectors[a].at <= now
  BY <1>1 DEF MaintenanceTypeOK, Vector
<1> QED
  BY <1>1, <1>2, <1>3 DEF Pair, RowsOf

\* What is settled stays so while the vectors do.
LEMMA SettledStays ==
    ASSUME MaintenanceTypeOK, now' \in Nat, now <= now', UNCHANGED <<timestamps, arrived, vectors>>,
           restarts # 0 => restarts' # 0,
           NEW t, NEW a, Pair(t, a), Settled(t, a)
    PROVE  Settled(t, a)'
<1>1. Reflected(t, a) => Reflected(t, a)'
  BY DEF Reflected
<1>2. (Late(t) => Late(t)') /\ (BeforeReselection(t, a) => BeforeReselection(t, a)')
  BY DEF Late, BeforeReselection
<1>3. BeforeLookback(t) => BeforeLookback(t)'
  <2>1. timestamps[t] \in Nat /\ now \in Nat /\ Lookback \in Nat
    BY PairTypes, Numbers DEF MaintenanceTypeOK
  <2> QED
    BY <2>1 DEF BeforeLookback, Row
<1> QED
  BY <1>1, <1>2, <1>3 DEF Settled

\* The invariant without the types, and what of it a step carries over that changes neither
\* rows nor vectors.
LEMMA FreshStays ==
    ASSUME MaintenanceInv, UNCHANGED <<timestamps, arrived, vectors>>
    PROVE  VectorsFresh'
BY DEF MaintenanceInv, VectorsFresh, RowsOf, Row, Reflected

LEMMA OwedStays ==
    ASSUME MaintenanceInv, now' \in Nat, now <= now', UNCHANGED <<timestamps, arrived, vectors>>,
           restarts # 0 => restarts' # 0, loop'.since = loop.since
    PROVE  NextTurnSees'
<1> SUFFICES ASSUME Cardinality(Address) <= BehaviorBatch, NEW t, NEW a, Pair(t, a)
             PROVE  Settled(t, a)' \/ timestamps'[t] >= loop'.since
  BY DEF NextTurnSees, Pair, Row
<1>1. Settled(t, a) \/ timestamps[t] >= loop.since
  BY DEF MaintenanceInv, NextTurnSees, Pair
<1> QED
  BY <1>1, SettledStays DEF MaintenanceInv

LEMMA TurnStays ==
    ASSUME MaintenanceInv, now' \in Nat, now <= now', UNCHANGED <<timestamps, arrived, vectors>>,
           restarts # 0 => restarts' # 0,
           UNCHANGED <<loop.since, loop.started, loop.batch>>,
           loop.pc \in {"features", "store"}
    PROVE  TurnCovers'
<1> SUFFICES ASSUME Cardinality(Address) <= BehaviorBatch, NEW t, NEW a, Pair(t, a)
             PROVE  \/ Settled(t, a)' \/ a \in loop'.batch
                    \/ timestamps'[t] >= loop'.started - Interval \/ timestamps'[t] < loop'.since
  BY DEF TurnCovers, Pair, Row
<1>1. \/ Settled(t, a) \/ a \in loop.batch
      \/ timestamps[t] >= loop.started - Interval \/ timestamps[t] < loop.since
  BY DEF MaintenanceInv, TurnCovers, Pair
<1> QED
  BY <1>1, SettledStays DEF MaintenanceInv

\* A step that ends the turn needs no more than that what it passes is settled.
LEMMA FinishedOwed ==
    ASSUME MaintenanceInv, UNCHANGED <<now, timestamps, arrived, restarts>>, loop' = Finished(loop),
           Cardinality(Address) <= BehaviorBatch =>
              \A t, a : Pair(t, a) =>
                 Settled(t, a)' \/ timestamps[t] >= loop.started - Interval
    PROVE  LoopOK' /\ ReadingFresh' /\ TurnCovers' /\ NextTurnSees'
<1>1. MaintenanceTypeOK
  BY DEF MaintenanceInv
<1>2. loop'.pc = "sleep" /\ loop'.since = loop.started - Interval /\ loop'.started = loop.started
  BY <1>1, LoopTypes
<1>3. loop.started \in Nat /\ now \in Nat /\ loop.started <= now
  BY <1>1 DEF MaintenanceTypeOK, Loop
<1>4. LoopOK'
  BY <1>2, <1>3, Numbers DEF LoopOK
<1>5. ReadingFresh' /\ TurnCovers'
  BY <1>2 DEF ReadingFresh, TurnCovers
<1>6. NextTurnSees'
  BY <1>2 DEF NextTurnSees, Pair, Row
<1> QED
  BY <1>4, <1>5, <1>6

LEMMA FailedOwed ==
    ASSUME MaintenanceInv, UNCHANGED <<now, timestamps, arrived, vectors, restarts>>, loop' = Failed(loop)
    PROVE  LoopOK' /\ ReadingFresh' /\ TurnCovers' /\ NextTurnSees'
<1>1. MaintenanceTypeOK /\ now \in Nat
  BY DEF MaintenanceInv, MaintenanceTypeOK
<1>2. loop'.pc = "sleep" /\ loop'.since = loop.since /\ loop'.started = loop.started
  BY <1>1, LoopTypes
<1>3. LoopOK'
  BY <1>2 DEF MaintenanceInv, LoopOK
<1>4. NextTurnSees'
  BY <1>1, <1>2, OwedStays
<1> QED
  BY <1>2, <1>3, <1>4 DEF ReadingFresh, TurnCovers
-----------------------------------------------------------------------------
LEMMA InitInv == MaintenanceInit => MaintenanceInv
<1> SUFFICES ASSUME MaintenanceInit PROVE MaintenanceInv
  OBVIOUS
<1>1. loop.pc = "backfill" /\ loop.started = 0 /\ loop.since = 0 - Lookback
  BY StartingTypes DEF MaintenanceInit
<1>2. Row = {} /\ \A a \in Address : vectors[a] = Null
  BY DEF MaintenanceInit, Row
<1>3. LoopOK
  BY <1>1, Numbers DEF LoopOK, MaintenanceInit
<1>4. VectorsFresh /\ ReadingFresh /\ TurnCovers /\ NextTurnSees
  BY <1>1, <1>2 DEF VectorsFresh, ReadingFresh, TurnCovers, NextTurnSees
<1> QED
  BY <1>3, <1>4, InitTypes DEF MaintenanceInv

\* A new row is stored after all that was read, and is either late or younger than what
\* behaviourSince has passed or will pass in this turn.
LEMMA InsertInv ==
    ASSUME MaintenanceInv, NEW txs \in SUBSET Tx, Insert(txs)
    PROVE  MaintenanceInv'
<1>1. MaintenanceTypeOK
  BY DEF MaintenanceInv
<1>2. /\ MaintenanceTypeOK' /\ Row \subseteq Row'
      /\ \A t \in Row : timestamps'[t] = timestamps[t] /\ arrived'[t] = arrived[t]
      /\ \A t \in Row' \ Row : timestamps'[t] \in 0 .. now /\ arrived'[t] = now
  BY <1>1, InsertTypes
<1>3. UNCHANGED <<now, vectors, loop, restarts>>
  BY DEF Insert, derivedVars
<1>4. now \in Nat /\ loop.started \in Nat /\ loop.started <= now /\ loop.since \in Int
      /\ loop.since <= now - Interval
  BY <1>1 DEF MaintenanceTypeOK, Loop, MaintenanceInv, LoopOK
<1>5. VectorsFresh'
  <2> SUFFICES ASSUME NEW a \in Address, vectors[a] # Null, NEW u \in RowsOf(a)'
               PROVE  Reflected(u, a) \/ arrived'[u] >= vectors[a].at - MaxTurn
    BY <1>3 DEF VectorsFresh, Reflected
  <2>1. CASE u \notin Row
    <3>1. vectors[a].at \in Nat /\ vectors[a].at <= now /\ arrived'[u] = now
      BY <1>1, <1>2, <2>1 DEF MaintenanceTypeOK, Vector, RowsOf
    <3> QED
      BY <1>4, <3>1, Numbers
  <2>2. CASE u \in Row
    BY <1>2, <2>2 DEF MaintenanceInv, VectorsFresh, RowsOf
  <2> QED
    BY <2>1, <2>2
<1>6. ReadingFresh'
  <2> SUFFICES ASSUME loop.pc = "store", NEW u \in RowsOf(loop.account)'
               PROVE  u \in loop.rows \/ arrived'[u] >= loop.started
    BY <1>3 DEF ReadingFresh, RowsOf
  <2>1. CASE u \notin Row
    BY <1>2, <1>4, <2>1 DEF RowsOf
  <2>2. CASE u \in Row
    <3>1. u \in RowsOf(loop.account)
      BY <1>3, <2>2 DEF RowsOf
    <3> QED
      BY <1>2, <2>2, <3>1 DEF MaintenanceInv, ReadingFresh
  <2> QED
    BY <2>1, <2>2
<1>7. \A u \in Row : \A a : Settled(u, a) => Settled(u, a)'
  <2> TAKE u \in Row
  <2> TAKE a
  <2>1. timestamps'[u] = timestamps[u] /\ arrived'[u] = arrived[u] /\ u \in Row'
    BY <1>2
  <2> QED
    BY <1>3, <2>1 DEF Settled, Reflected, Late, BeforeReselection, BeforeLookback
<1>8. \A u \in Row' \ Row : \A a :
         \/ Settled(u, a)'
         \/ timestamps'[u] >= loop.since /\ timestamps'[u] >= loop.started - Interval
  <2> TAKE u \in Row' \ Row
  <2> TAKE a
  <2>1. timestamps'[u] \in Nat /\ arrived'[u] = now
    BY <1>2, <1>4
  <2>2. CASE now > timestamps'[u] + Interval
    BY <2>1, <2>2 DEF Settled, Late
  <2>3. CASE ~(now > timestamps'[u] + Interval)
    BY <1>4, <2>1, <2>3, Numbers
  <2> QED
    BY <2>2, <2>3
<1>9. NextTurnSees'
  <2> SUFFICES ASSUME Cardinality(Address) <= BehaviorBatch, NEW u \in Row', NEW a \in AddressesOf[u]
               PROVE  Settled(u, a)' \/ timestamps'[u] >= loop.since
    BY <1>3 DEF NextTurnSees
  <2>1. CASE u \notin Row
    BY <1>8, <2>1
  <2>2. CASE u \in Row
    <3>1. Settled(u, a) \/ timestamps[u] >= loop.since
      BY <2>2 DEF MaintenanceInv, NextTurnSees
    <3> QED
      BY <1>2, <1>7, <2>2, <3>1
  <2> QED
    BY <2>1, <2>2
<1>10. TurnCovers'
  <2> SUFFICES ASSUME Cardinality(Address) <= BehaviorBatch, loop.pc \in {"features", "store"},
                      NEW u \in Row', NEW a \in AddressesOf[u]
               PROVE  \/ Settled(u, a)' \/ a \in loop.batch
                      \/ timestamps'[u] >= loop.started - Interval \/ timestamps'[u] < loop.since
    BY <1>3 DEF TurnCovers
  <2>1. CASE u \notin Row
    BY <1>8, <2>1
  <2>2. CASE u \in Row
    <3>1. \/ Settled(u, a) \/ a \in loop.batch
          \/ timestamps[u] >= loop.started - Interval \/ timestamps[u] < loop.since
      BY <2>2 DEF MaintenanceInv, TurnCovers
    <3> QED
      BY <1>2, <1>7, <2>2, <3>1
  <2> QED
    BY <2>1, <2>2
<1>11. LoopOK'
  BY <1>3 DEF MaintenanceInv, LoopOK
<1> QED
  BY <1>2, <1>5, <1>6, <1>9, <1>10, <1>11 DEF MaintenanceInv
-----------------------------------------------------------------------------
(***************************************************************************)
(* The loop's own steps.                                                   *)
(***************************************************************************)

\* A new process looks back a day; the first one starts before anything was stored.
LEMMA BackfillInv ==
    ASSUME MaintenanceInv, Backfill
    PROVE  MaintenanceInv'
<1>1. MaintenanceTypeOK /\ MaintenanceTypeOK'
  <2>1. MaintenanceNext
    BY DEF MaintenanceNext, RunMaintenance
  <2> QED
    BY <2>1, NextTypes DEF MaintenanceInv
<1>2. UNCHANGED <<now, timestamps, arrived, vectors, restarts>>
  BY DEF Backfill, rowVars
<1>3. loop.pc = "backfill" /\ loop'.pc = "rollup" /\ loop'.since = now - Lookback /\ loop'.started = now
  BY <1>1 DEF Backfill, MaintenanceTypeOK, Loop
<1>4. now \in Nat /\ loop.started \in Nat /\ now <= loop.started + MaxTurn
      /\ (restarts = 0 => loop.started = 0)
  BY <1>1, <1>3 DEF MaintenanceInv, LoopOK, MaintenanceTypeOK, Loop
<1>5. LoopOK'
  BY <1>2, <1>3, <1>4, Numbers DEF LoopOK
<1>6. ReadingFresh' /\ TurnCovers'
  BY <1>3 DEF ReadingFresh, TurnCovers
<1>7. NextTurnSees'
  <2> SUFFICES ASSUME NEW t, NEW a, Pair(t, a)
               PROVE  timestamps'[t] >= loop'.since \/ BeforeLookback(t)'
    BY <1>2 DEF NextTurnSees, Settled, Pair, Row
  <2>1. t \in Row /\ t \in Row' /\ timestamps[t] \in Nat /\ timestamps' = timestamps
    BY <1>1, <1>2, PairTypes DEF Pair, Row
  <2>2. CASE restarts = 0
    <3>1. loop'.since <= 0
      BY <1>3, <1>4, <2>2, Numbers
    <3>2. loop'.since \in Int
      BY <1>3, <1>4, Numbers
    <3> QED
      BY <2>1, <3>1, <3>2
  <2>3. CASE restarts # 0
    <3>1. now - Lookback \in Int
      BY <1>4, Numbers
    <3> QED
      BY <1>2, <1>3, <2>1, <2>3, <3>1 DEF BeforeLookback
  <2> QED
    BY <2>2, <2>3
<1> QED
  BY <1>1, <1>2, <1>5, <1>6, <1>7, FreshStays DEF MaintenanceInv

LEMMA RestartInv ==
    ASSUME MaintenanceInv, Restart
    PROVE  MaintenanceInv'
<1>1. MaintenanceTypeOK /\ MaintenanceTypeOK'
  <2>1. MaintenanceNext
    BY DEF MaintenanceNext
  <2> QED
    BY <2>1, NextTypes DEF MaintenanceInv
<1>2. UNCHANGED <<timestamps, arrived, vectors>> /\ restarts' # 0
  BY <1>1 DEF Restart, derivedVars, MaintenanceTypeOK
<1>3. now' \in Nat /\ loop' = Starting(now')
  BY <1>1 DEF Restart, MaintenanceTypeOK
<1>4. loop'.pc = "backfill" /\ loop'.since = now' - Lookback /\ loop'.started = now'
  BY <1>3, StartingTypes
<1>5. LoopOK'
  BY <1>2, <1>3, <1>4, Numbers DEF LoopOK
<1>6. ReadingFresh' /\ TurnCovers'
  BY <1>4 DEF ReadingFresh, TurnCovers
<1>7. NextTurnSees'
  <2> SUFFICES ASSUME NEW t, NEW a, Pair(t, a)
               PROVE  timestamps'[t] >= loop'.since \/ BeforeLookback(t)'
    BY <1>2 DEF NextTurnSees, Settled, Pair, Row
  <2>1. t \in Row' /\ timestamps'[t] \in Nat
    BY <1>1, <1>2, PairTypes DEF Pair, Row
  <2>2. now' - Lookback \in Int
    BY <1>3, Numbers
  <2> QED
    BY <1>2, <1>4, <2>1, <2>2 DEF BeforeLookback
<1> QED
  BY <1>1, <1>2, <1>5, <1>6, <1>7, FreshStays DEF MaintenanceInv

\* Whoever is not in the batch was rebuilt minutes ago.
LEMMA SelectCovers ==
    ASSUME MaintenanceInv, Cardinality(Address) <= BehaviorBatch, NEW B \in Batches,
           NEW t, NEW a, Pair(t, a), timestamps[t] >= loop.since
    PROVE  Settled(t, a) \/ a \in B
<1>1. MaintenanceTypeOK /\ now \in Nat
  BY DEF MaintenanceInv, MaintenanceTypeOK
<1>2. B = Selectable
  <2>1. IsFiniteSet(Address) /\ Selectable \subseteq Address /\ B \subseteq Selectable
    BY MaintenanceAssumption DEF Selectable, Batches
  <2>2. IsFiniteSet(Selectable) /\ Cardinality(Selectable) <= Cardinality(Address)
    BY <2>1, FS_Subset
  <2>3. Cardinality(Selectable) \in Nat /\ Cardinality(Address) \in Nat
    BY <2>1, <2>2, FS_CardinalityType
  <2>4. Min({BehaviorBatch, Cardinality(Selectable)}) = Cardinality(Selectable)
    BY <2>2, <2>3, Numbers DEF Min
  <2>5. Cardinality(B) = Cardinality(Selectable)
    BY <2>4 DEF Batches
  <2> QED
    BY <2>1, <2>2, <2>5, FS_Subset
<1>3. t \in RowsOf(a) /\ arrived[t] \in Nat /\ arrived[t] <= now /\ a \in Address
      /\ (vectors[a] # Null => vectors[a].at \in Nat)
  BY <1>1, PairTypes
<1>4. t \in ActiveRows(a)
  BY <1>3 DEF ActiveRows
<1>5. ASSUME a \notin Selectable PROVE Settled(t, a)
  <2>1. vectors[a] # Null /\ ~(vectors[a].at < now - SkipWindow)
    BY <1>3, <1>4, <1>5 DEF Selectable
  <2>2. arrived[t] <= vectors[a].at + SkipWindow
    BY <1>1, <1>3, <2>1, Numbers
  <2> QED
    BY <2>1, <2>2 DEF Settled, BeforeReselection
<1> QED
  BY <1>2, <1>5

LEMMA SelectInv ==
    ASSUME MaintenanceInv, Select
    PROVE  MaintenanceInv'
<1>1. MaintenanceTypeOK /\ MaintenanceTypeOK'
  <2>1. MaintenanceNext
    BY DEF MaintenanceNext, RunMaintenance
  <2> QED
    BY <2>1, NextTypes DEF MaintenanceInv
<1>2. UNCHANGED <<now, timestamps, arrived, vectors, restarts>> /\ loop.pc = "select"
  BY DEF Select, rowVars, derivedVars
<1>3. now \in Nat
  BY <1>1 DEF MaintenanceTypeOK
<1>4. \A t, a : Pair(t, a) /\ Settled(t, a) => Settled(t, a)'
  BY <1>2 DEF Settled, Reflected, Late, BeforeReselection, BeforeLookback, Row
<1>5. \A t, a : Cardinality(Address) <= BehaviorBatch /\ Pair(t, a) =>
         Settled(t, a) \/ timestamps[t] >= loop.since
  BY DEF MaintenanceInv, NextTurnSees, Pair
<1>6. ASSUME NEW B \in Batches, B = {}, loop' = Finished(loop)
      PROVE  LoopOK' /\ ReadingFresh' /\ TurnCovers' /\ NextTurnSees'
  <2>1. ASSUME Cardinality(Address) <= BehaviorBatch, NEW t, NEW a, Pair(t, a)
        PROVE  Settled(t, a)'
    BY <1>4, <1>5, <1>6, <2>1, SelectCovers
  <2> QED
    BY <1>2, <1>6, <2>1, FinishedOwed
<1>7. ASSUME NEW B \in Batches, loop' = [loop EXCEPT !.pc = "features", !.batch = B]
      PROVE  LoopOK' /\ ReadingFresh' /\ TurnCovers' /\ NextTurnSees'
  <2>1. loop'.pc = "features" /\ loop'.batch = B /\ loop'.since = loop.since /\ loop'.started = loop.started
    BY <1>1, <1>7 DEF MaintenanceTypeOK, Loop
  <2>2. LoopOK'
    BY <1>2, <2>1 DEF MaintenanceInv, LoopOK
  <2>3. ReadingFresh'
    BY <2>1 DEF ReadingFresh
  <2>4. NextTurnSees'
    BY <1>2, <1>3, <2>1, OwedStays
  <2>5. TurnCovers'
    <3> SUFFICES ASSUME Cardinality(Address) <= BehaviorBatch, NEW t, NEW a, Pair(t, a)
                 PROVE  Settled(t, a)' \/ a \in loop'.batch
      BY <1>2 DEF TurnCovers, Pair, Row
    <3> QED
      BY <1>4, <1>5, <2>1, SelectCovers
  <2> QED
    BY <2>2, <2>3, <2>4, <2>5
<1>8. LoopOK' /\ ReadingFresh' /\ TurnCovers' /\ NextTurnSees'
  BY <1>2, <1>6, <1>7, FailedOwed DEF Select
<1> QED
  BY <1>1, <1>2, <1>8, FreshStays DEF MaintenanceInv

LEMMA ComputeFeaturesInv ==
    ASSUME MaintenanceInv, ComputeFeatures
    PROVE  MaintenanceInv'
<1>1. MaintenanceTypeOK /\ MaintenanceTypeOK'
  <2>1. MaintenanceNext
    BY DEF MaintenanceNext, RunMaintenance
  <2> QED
    BY <2>1, NextTypes DEF MaintenanceInv
<1>2. UNCHANGED <<now, timestamps, arrived, vectors, restarts>> /\ loop.pc = "features" /\ now \in Nat
  BY <1>1 DEF ComputeFeatures, rowVars, derivedVars, MaintenanceTypeOK
<1>3. ASSUME NEW a \in loop.batch,
             loop' = [loop EXCEPT !.pc = "store", !.account = a, !.rows = RowsOf(a)]
      PROVE  LoopOK' /\ ReadingFresh' /\ TurnCovers' /\ NextTurnSees'
  <2>1. /\ loop'.pc = "store" /\ loop'.account = a /\ loop'.rows = RowsOf(a)
        /\ loop'.batch = loop.batch /\ loop'.since = loop.since /\ loop'.started = loop.started
    BY <1>1, <1>3 DEF MaintenanceTypeOK, Loop
  <2>2. LoopOK'
    BY <1>2, <2>1 DEF MaintenanceInv, LoopOK
  <2>3. ReadingFresh'
    BY <1>2, <2>1 DEF ReadingFresh, RowsOf, Row
  <2>4. NextTurnSees' /\ TurnCovers'
    BY <1>2, <2>1, OwedStays, TurnStays
  <2> QED
    BY <2>2, <2>3, <2>4
<1>4. LoopOK' /\ ReadingFresh' /\ TurnCovers' /\ NextTurnSees'
  BY <1>2, <1>3, FailedOwed DEF ComputeFeatures
<1> QED
  BY <1>1, <1>2, <1>4, FreshStays DEF MaintenanceInv

\* The new vector misses only what came while it was computed.
LEMMA StoreVectorInv ==
    ASSUME MaintenanceInv, StoreVector
    PROVE  MaintenanceInv'
<1>1. MaintenanceTypeOK /\ MaintenanceTypeOK'
  <2>1. MaintenanceNext
    BY DEF MaintenanceNext, RunMaintenance
  <2> QED
    BY <2>1, NextTypes DEF MaintenanceInv
<1>. PICK c \in Address : c = loop.account
  BY <1>1 DEF StoreVector, MaintenanceTypeOK, Loop
<1> DEFINE rest == loop.batch \ {c}
<1>2. UNCHANGED <<now, timestamps, arrived, restarts>> /\ loop.pc = "store" /\ now \in Nat
      /\ loop.started \in Nat /\ now <= loop.started + MaxTurn
  BY <1>1 DEF StoreVector, rowVars, MaintenanceTypeOK, Loop, MaintenanceInv, LoopOK
<1>3. CASE vectors' = vectors /\ loop' = Failed(loop)
  BY <1>1, <1>2, <1>3, FailedOwed, FreshStays DEF MaintenanceInv
<1>4. ASSUME vectors' = [vectors EXCEPT ![c] = [rows |-> loop.rows, at |-> now]],
             loop' = IF rest = {} THEN Finished(loop)
                     ELSE [loop EXCEPT !.pc = "features", !.batch = rest, !.account = Null, !.rows = {}]
      PROVE  MaintenanceInv'
  <2>1. vectors'[c].rows = loop.rows /\ vectors'[c].at = now /\ vectors'[c] # Null
        /\ \A a \in Address : a # c => vectors'[a] = vectors[a]
    <3>1. [rows |-> loop.rows, at |-> now] \in Vector
      BY <1>1, <1>2 DEF Vector, MaintenanceTypeOK, Loop
    <3> QED
      BY <1>1, <1>2, <1>4, <3>1, Numbers DEF MaintenanceTypeOK
  <2>2. \A t \in RowsOf(c) : t \in loop.rows \/ arrived[t] >= now - MaxTurn
    <3> TAKE t \in RowsOf(c)
    <3>1. arrived[t] \in Nat
      BY <1>1 DEF RowsOf, Row, MaintenanceTypeOK
    <3>2. t \in loop.rows \/ arrived[t] >= loop.started
      BY <1>2 DEF MaintenanceInv, ReadingFresh
    <3> QED
      BY <1>2, <3>1, <3>2, Numbers
  <2>3. \A a : RowsOf(a)' = RowsOf(a)
    BY <1>2 DEF RowsOf, Row
  <2>4. VectorsFresh'
    BY <1>2, <2>1, <2>2, <2>3 DEF MaintenanceInv, VectorsFresh, Reflected
  <2>5. ASSUME NEW t, Pair(t, c) PROVE Settled(t, c)'
    <3>1. arrived[t] \in Nat /\ arrived[t] <= now
      BY <1>1, <2>5, PairTypes
    <3>2. arrived[t] <= now + SkipWindow
      BY <1>2, <3>1, Numbers
    <3> QED
      BY <1>2, <2>1, <3>2 DEF Settled, BeforeReselection
  <2>6. ASSUME NEW t, NEW a, Pair(t, a), Settled(t, a) PROVE Settled(t, a)'
    <3>1. CASE a = c
      BY <2>5, <2>6, <3>1
    <3>2. CASE a # c
      <4>1. a \in Address
        BY <1>1, <2>6, PairTypes
      <4> QED
        BY <1>2, <2>1, <2>6, <3>2, <4>1 DEF Settled, Reflected, Late, BeforeReselection,
           BeforeLookback, Row
    <3> QED
      BY <3>1, <3>2
  <2>7. \A t, a : Cardinality(Address) <= BehaviorBatch /\ Pair(t, a) =>
           /\ Settled(t, a) \/ timestamps[t] >= loop.since
           /\ \/ Settled(t, a) \/ a \in loop.batch
              \/ timestamps[t] >= loop.started - Interval \/ timestamps[t] < loop.since
    BY <1>2 DEF MaintenanceInv, NextTurnSees, TurnCovers, Pair
  <2>8. CASE rest = {}
    <3>1. ASSUME Cardinality(Address) <= BehaviorBatch, NEW t, NEW a, Pair(t, a)
          PROVE  Settled(t, a)' \/ timestamps[t] >= loop.started - Interval
      <4>1. timestamps[t] \in Nat /\ loop.since \in Int
        BY <1>1, <3>1, PairTypes DEF MaintenanceTypeOK, Loop
      <4>2. Settled(t, a) \/ a = c \/ timestamps[t] >= loop.started - Interval
        BY <2>7, <2>8, <3>1, <4>1
      <4> QED
        BY <2>5, <2>6, <3>1, <4>2
    <3>2. loop' = Finished(loop)
      BY <1>4, <2>8
    <3> QED
      BY <1>1, <1>2, <2>4, <3>1, <3>2, FinishedOwed DEF MaintenanceInv
  <2>9. CASE rest # {}
    <3>1. loop' = [loop EXCEPT !.pc = "features", !.batch = rest, !.account = Null, !.rows = {}]
      BY <1>4, <2>9
    <3>2. loop'.pc = "features" /\ loop'.batch = rest /\ loop'.since = loop.since
          /\ loop'.started = loop.started
      BY <1>1, <3>1 DEF MaintenanceTypeOK, Loop
    <3>3. LoopOK'
      BY <1>2, <3>2 DEF MaintenanceInv, LoopOK
    <3>4. ReadingFresh'
      BY <3>2 DEF ReadingFresh
    <3>5. NextTurnSees'
      <4> SUFFICES ASSUME Cardinality(Address) <= BehaviorBatch, NEW t, NEW a, Pair(t, a)
                   PROVE  Settled(t, a)' \/ timestamps[t] >= loop.since
        BY <1>2, <3>2 DEF NextTurnSees, Pair, Row
      <4> QED
        BY <2>6, <2>7
    <3>6. TurnCovers'
      <4> SUFFICES ASSUME Cardinality(Address) <= BehaviorBatch, NEW t, NEW a, Pair(t, a)
                   PROVE  \/ Settled(t, a)' \/ a \in rest
                          \/ timestamps[t] >= loop.started - Interval \/ timestamps[t] < loop.since
        BY <1>2, <3>2 DEF TurnCovers, Pair, Row
      <4>1. a = c => Settled(t, a)'
        BY <2>5
      <4> QED
        BY <2>6, <2>7, <4>1
    <3> QED
      BY <1>1, <2>4, <3>3, <3>4, <3>5, <3>6 DEF MaintenanceInv
  <2> QED
    BY <2>8, <2>9
<1> QED
  BY <1>3, <1>4 DEF StoreVector

LEMMA NextInv ==
    ASSUME MaintenanceInv, [MaintenanceNext]_maintenanceVars
    PROVE  MaintenanceInv'
<1>1. MaintenanceTypeOK /\ MaintenanceTypeOK' /\ now \in Nat /\ now' \in Nat
  BY NextTypes DEF MaintenanceInv, MaintenanceTypeOK
<1>2. CASE ClockTicks
  <2>1. now' = now + 1 /\ UNCHANGED <<timestamps, arrived, vectors, loop, restarts>>
    BY <1>2 DEF ClockTicks, derivedVars
  <2>2. loop.started \in Nat /\ loop.since \in Int
        /\ now < loop.started + IF loop.pc = "sleep" THEN Interval ELSE MaxTurn
    BY <1>1, <1>2 DEF ClockTicks, MaintenanceTypeOK, Loop
  <2>3. LoopOK'
    BY <1>1, <2>1, <2>2, Numbers DEF MaintenanceInv, LoopOK
  <2>4. ReadingFresh'
    BY <2>1 DEF MaintenanceInv, ReadingFresh, RowsOf, Row
  <2>5. NextTurnSees'
    BY <1>1, <2>1, OwedStays
  <2>6. TurnCovers'
    <3>1. CASE loop.pc \in {"features", "store"}
      BY <1>1, <2>1, <3>1, TurnStays
    <3>2. CASE loop.pc \notin {"features", "store"}
      BY <2>1, <3>2 DEF TurnCovers
    <3> QED
      BY <3>1, <3>2
  <2> QED
    BY <1>1, <2>1, <2>3, <2>4, <2>5, <2>6, FreshStays DEF MaintenanceInv
<1>3. CASE RefreshRecent
  <2>1. UNCHANGED <<now, timestamps, arrived, vectors, restarts>>
    BY <1>3 DEF RefreshRecent, rowVars
  <2>2. loop.pc = "rollup" /\ loop'.pc = "select" /\ loop'.since = loop.since
        /\ loop'.started = loop.started
    BY <1>1, <1>3 DEF RefreshRecent, MaintenanceTypeOK, Loop
  <2>3. LoopOK' /\ ReadingFresh' /\ TurnCovers'
    BY <2>1, <2>2 DEF MaintenanceInv, LoopOK, ReadingFresh, TurnCovers
  <2> QED
    BY <1>1, <2>1, <2>2, <2>3, FreshStays, OwedStays DEF MaintenanceInv
<1>4. CASE Wake
  <2>1. UNCHANGED <<now, timestamps, arrived, vectors, restarts>>
    BY <1>4 DEF Wake, rowVars, derivedVars
  <2>2. loop'.pc = "rollup" /\ loop'.since = loop.since /\ loop'.started = now
    BY <1>1, <1>4 DEF Wake, MaintenanceTypeOK, Loop
  <2>3. LoopOK' /\ ReadingFresh' /\ TurnCovers'
    BY <1>1, <2>1, <2>2, Numbers DEF MaintenanceInv, LoopOK, ReadingFresh, TurnCovers
  <2> QED
    BY <1>1, <2>1, <2>2, <2>3, FreshStays, OwedStays DEF MaintenanceInv
<1>5. CASE UNCHANGED maintenanceVars
  BY <1>5 DEF maintenanceVars, rowVars, derivedVars, MaintenanceInv, MaintenanceTypeOK, LoopOK,
     VectorsFresh, ReadingFresh, TurnCovers, NextTurnSees, Settled, Reflected, Late,
     BeforeReselection, BeforeLookback, Row, RowsOf
<1> QED
  BY <1>2, <1>3, <1>4, <1>5, InsertInv, BackfillInv, SelectInv, ComputeFeaturesInv, StoreVectorInv,
     RestartInv DEF MaintenanceNext, RunMaintenance, SaveTransaction, SaveBlock
-----------------------------------------------------------------------------
\* Types: only stored rows are counted and embedded, and an account is rebuilt from its own.
THEOREM MaintenanceTypeCorrect == MaintenanceSpec => []MaintenanceTypeOK
BY InitTypes, NextTypes, PTL DEF MaintenanceSpec

\* A row that an account's vector does not reflect was stored since the turn of its rebuild began,
\* and a later turn selects the account, unless the row was stored more than an interval late, so
\* soon after the rebuild that the account was skipped, or a day before a restart; for any age of
\* the rows, intervals, failures and number of restarts.
THEOREM MaintenanceOwes == MaintenanceSpec => []UnreflectedIsOwed
<1>1. ASSUME MaintenanceInv PROVE UnreflectedIsOwed
  <2> SUFFICES ASSUME Cardinality(Address) <= BehaviorBatch, NEW t \in Row, NEW a \in AddressesOf[t]
               PROVE  \/ Reflected(t, a)
                      \/ /\ CameSinceRebuild(t, a)
                         /\ \/ timestamps[t] >= loop.since
                            \/ Late(t) \/ BeforeReselection(t, a) \/ BeforeLookback(t)
    BY DEF UnreflectedIsOwed
  <2>1. a \in Address /\ t \in RowsOf(a)
    BY <1>1, PairTypes DEF MaintenanceInv, Pair
  <2>2. Reflected(t, a) \/ CameSinceRebuild(t, a)
    BY <1>1, <2>1 DEF MaintenanceInv, VectorsFresh, CameSinceRebuild
  <2>3. Settled(t, a) \/ timestamps[t] >= loop.since
    BY <1>1 DEF MaintenanceInv, NextTurnSees
  <2> QED
    BY <2>2, <2>3 DEF Settled
<1> QED
  BY <1>1, InitInv, NextInv, PTL DEF MaintenanceSpec

\* No refresh takes a row out of the rollup, for any windows.
THEOREM MaintenanceKeepsRollup == MaintenanceSpec => RollupNeverShrinks
<1>1. ASSUME MaintenanceTypeOK, MaintenanceNext PROVE rollup \subseteq rollup'
  <2>1. now - BackfillWindow \in Int /\ now - RecentWindow \in Int
    BY <1>1, Numbers DEF MaintenanceTypeOK
  <2>2. rollup' \in {rollup, Refreshed(now - BackfillWindow), Refreshed(now - RecentWindow)}
    BY <1>1 DEF MaintenanceNext, RunMaintenance, SaveTransaction, SaveBlock, Insert, ClockTicks,
                Backfill, RefreshRecent, Select, ComputeFeatures, StoreVector, Wake, Restart, derivedVars
  <2> QED
    BY <1>1, <2>1, <2>2, RefreshKeeps
<1>2. ASSUME MaintenanceTypeOK, [MaintenanceNext]_maintenanceVars
      PROVE  [rollup \subseteq rollup']_maintenanceVars
  BY <1>1, <1>2
<1> QED
  BY <1>2, InitTypes, NextTypes, PTL DEF MaintenanceSpec, RollupNeverShrinks
=============================================================================

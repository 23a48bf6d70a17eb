---------------------- MODULE SnapshotAndRepair_proofs ----------------------
(***************************************************************************)
(* Proofs about LiveSnapshot and about GraphRepair, which share no state.  *)
(*                                                                         *)
(* The snapshots, for any number of rows, streams and faults and without a *)
(* bound on the payloads published: the count never exceeds the rows, no   *)
(* open stream sees it fall, and no wakeup is lost.  The repair, for       *)
(* graphs of any size: types, that no step of it changes who paid whom,    *)
(* and when it fails.                                                      *)
(***************************************************************************)
EXTENDS LiveSnapshot, GraphRepair, TLAPS, FiniteSetTheorems, WellFoundedInduction

(***************************************************************************)
(* The counts: the rows of the exact count are not newer than it, so what  *)
(* is added to them is disjoint from them.                                 *)
(***************************************************************************)
CountsArePast ==
    /\ refresh.counting \subseteq Row
    /\ refresh.exact # Null =>
          /\ refresh.exact.asOf <= now /\ refresh.exact.rows \subseteq Row
          /\ \A t \in refresh.exact.rows : timestamps[t] <= refresh.exact.asOf
    /\ refresh.pc = "publish" => refresh.newer \subseteq Newer

PayloadsDisjoint ==
    \A b \in Buffer : content[b].exact \cap content[b].newer = {} /\ Covered(b) \subseteq Row

(***************************************************************************)
(* Every payload covers what the ones before it covered.                   *)
(***************************************************************************)
NextCoversLatest ==
    latest # Null =>
        /\ refresh.exact # Null
        /\ Covered(latest) \subseteq refresh.exact.rows \cup Newer
        /\ refresh.pc = "clock" => Covered(latest) \subseteq refresh.counting
        /\ refresh.pc = "publish" => Covered(latest) \subseteq refresh.exact.rows \cup refresh.newer

LatestCoversHeld ==
    \A c \in Client : \A b \in {stream[c].payload, stream[c].sent} \ {Null} :
        latest # Null /\ Covered(b) \subseteq Covered(latest)

PayloadCoversSent ==
    \A c \in Client :
        stream[c].pc = "write" /\ stream[c].sent # Null
        => Covered(stream[c].sent) \subseteq Covered(stream[c].payload)

WriterHasLatest ==
    \A c \in Client : stream[c].pc = "write" /\ ~stream[c].woken => stream[c].payload = latest

CountInv == LiveTypeOK /\ CountsArePast /\ PayloadsDisjoint

GrowthInv == NextCoversLatest /\ LatestCoversHeld /\ PayloadCoversSent

LiveInv == CountInv /\ GrowthInv /\ WriterHasLatest /\ SleeperHasLatest
-----------------------------------------------------------------------------
LEMMA Types ==
    ASSUME LiveTypeOK
    PROVE  /\ now \in Nat /\ now \in 0 .. MaxTime
           /\ timestamps \in [Tx -> (0 .. now) \cup {Null}]
           /\ \A t \in Row : timestamps[t] \in Nat /\ timestamps[t] <= now
           /\ refresh \in Refresh
           /\ refresh.exact # Null =>
                 /\ refresh.exact \in Exact
                 /\ refresh.exact.asOf \in Nat /\ refresh.exact.rows \subseteq Tx
           /\ content \in [Buffer -> Counts]
           /\ stream \in [Client -> Stream]
           /\ faults \in 0 .. MaxFaults
<1>1. now \in Nat /\ MaxTime \in Nat
  BY LiveAssumption DEF LiveTypeOK
<1>2. \A t \in Row : timestamps[t] \in 0 .. now
  BY DEF LiveTypeOK, Row
<1>3. refresh.exact # Null => refresh.exact \in Exact
  BY DEF LiveTypeOK, Refresh
<1> QED
  BY <1>1, <1>2, <1>3 DEF LiveTypeOK, Exact

LEMMA Counted ==
    ASSUME faults \in 0 .. MaxFaults, Fault
    PROVE  faults' \in 0 .. MaxFaults
BY LiveAssumption DEF Fault

\* Two disjoint sets of rows: their union has the rows of both, and no more than there are.
LEMMA CountOfBoth ==
    ASSUME NEW rows, IsFiniteSet(rows), NEW A, NEW B, A \cap B = {}, A \cup B \subseteq rows
    PROVE  /\ IsFiniteSet(A \cup B)
           /\ Cardinality(A) + Cardinality(B) = Cardinality(A \cup B)
           /\ Cardinality(A \cup B) <= Cardinality(rows)
<1>1. IsFiniteSet(A) /\ IsFiniteSet(B) /\ IsFiniteSet(A \cup B)
  BY FS_Subset
<1>2. Cardinality(A \cap B) = 0
  BY FS_EmptySet
<1>3. /\ Cardinality(A) \in Nat /\ Cardinality(B) \in Nat
      /\ Cardinality(A \cup B) = Cardinality(A) + Cardinality(B) - Cardinality(A \cap B)
  BY <1>1, FS_Union, FS_CardinalityType
<1>4. Cardinality(A \cup B) <= Cardinality(rows)
  BY FS_Subset
<1> QED
  BY <1>1, <1>2, <1>3, <1>4

LEMMA CountBound == CountInv => NothingCountedTwice
<1> SUFFICES ASSUME CountInv, NEW b \in Buffer PROVE TransactionCount(b) <= Cardinality(Row)
  BY DEF NothingCountedTwice
<1>1. IsFiniteSet(Row)
  BY LiveAssumption, FS_Subset DEF Row
<1>2. /\ content[b].exact \cap content[b].newer = {}
      /\ content[b].exact \cup content[b].newer \subseteq Row
  BY DEF CountInv, PayloadsDisjoint, Covered
<1>3. TransactionCount(b) = Cardinality(Covered(b)) /\ Cardinality(Covered(b)) <= Cardinality(Row)
  BY <1>1, <1>2, CountOfBoth DEF TransactionCount, Covered
<1> QED
  BY <1>3
-----------------------------------------------------------------------------
\* What publish does to the payloads.
LEMMA Allocated ==
    ASSUME LiveTypeOK, NEW counts \in Counts, Allocate(counts)
    PROVE  /\ latest' \in Buffer \ Held
           /\ content' \in [Buffer -> Counts]
           /\ content'[latest'] = counts
           /\ \A b \in Held \cap Buffer : content'[b] = content[b]
           /\ \A b \in Buffer : content'[b] \in {counts, content[b], Freed}
<1> DEFINE fresh == CHOOSE b \in Buffer \ Held : TRUE
<1>1. fresh \in Buffer \ Held
  BY DEF Allocate
<1>2. Freed \in Counts
  BY DEF Freed, Counts
<1>3. content \in [Buffer -> Counts]
  BY DEF LiveTypeOK
<1>4. /\ latest' = fresh
      /\ content' = [b \in Buffer |-> CASE b = fresh -> counts
                                        [] b \in Held -> content[b]
                                        [] OTHER -> Freed]
  BY DEF Allocate
<1> HIDE DEF fresh
<1>5. content'[fresh] = counts
  BY <1>1, <1>4
<1>6. ASSUME NEW b \in Buffer, b # fresh
      PROVE  content'[b] = IF b \in Held THEN content[b] ELSE Freed
  BY <1>4, <1>6
<1>7. \A b \in Buffer : content'[b] \in Counts
  BY <1>2, <1>3, <1>5, <1>6
<1>8. content' = [b \in Buffer |-> content'[b]]
  BY <1>4
<1>9. content' \in [Buffer -> Counts]
  BY <1>7, <1>8
<1>10. \A b \in Held \cap Buffer : content'[b] = content[b]
  BY <1>1, <1>6
<1>11. \A b \in Buffer : content'[b] \in {counts, content[b], Freed}
  BY <1>5, <1>6
<1> QED
  BY <1>1, <1>4, <1>5, <1>9, <1>10, <1>11

LEMMA Published ==
    ASSUME CountInv, Publish
    PROVE  \E counts \in Counts :
              /\ Allocate(counts)
              /\ counts.exact = refresh.exact.rows /\ counts.newer = refresh.newer
              /\ counts.exact \cap counts.newer = {}
              /\ counts.exact \cup counts.newer \subseteq Row
<1> DEFINE counts == [exact |-> refresh.exact.rows, newer |-> refresh.newer]
<1>1. refresh.pc = "publish" /\ refresh.exact # Null
  BY DEF CountInv, LiveTypeOK, Publish
<1>2. refresh.exact.rows \subseteq Tx /\ refresh.newer \subseteq Tx /\ refresh.exact.asOf \in Nat
  BY <1>1, Types DEF CountInv, Refresh
<1>3. /\ refresh.exact.rows \subseteq Row /\ refresh.newer \subseteq Newer
      /\ \A t \in refresh.exact.rows : timestamps[t] <= refresh.exact.asOf
  BY <1>1 DEF CountInv, CountsArePast
<1>4. refresh.exact.rows \cap refresh.newer = {}
  <2> SUFFICES ASSUME NEW t \in refresh.exact.rows, t \in refresh.newer PROVE FALSE
    OBVIOUS
  <2>1. timestamps[t] \in Nat
    BY <1>3, Types DEF CountInv
  <2>2. timestamps[t] <= refresh.exact.asOf /\ timestamps[t] > refresh.exact.asOf
    BY <1>3 DEF Newer
  <2> QED
    BY <1>2, <2>1, <2>2
<1>5. counts \in Counts /\ counts.exact = refresh.exact.rows /\ counts.newer = refresh.newer
  BY <1>2 DEF Counts
<1>6. Allocate(counts)
  BY DEF Publish
<1>7. refresh.newer \subseteq Row
  BY <1>3 DEF Newer
<1> HIDE DEF counts
<1> QED
  BY <1>3, <1>4, <1>5, <1>6, <1>7
-----------------------------------------------------------------------------
LEMMA LiveInitial == LiveInit => LiveInv
<1> SUFFICES ASSUME LiveInit PROVE LiveInv
  OBVIOUS
<1>1. Off \in Stream /\ Off.pc = "off" /\ Off.sent = Null /\ Off.payload = Null
  BY DEF Off, Stream
<1>2. Freed \in Counts /\ Freed.exact = {} /\ Freed.newer = {}
  BY DEF Freed, Counts
<1>3. /\ refresh \in Refresh /\ refresh.pc = "tick" /\ refresh.counting = {} /\ refresh.exact = Null
  BY DEF LiveInit, Refresh
<1>4. 0 \in 0 .. MaxTime /\ 0 \in 0 .. MaxFaults
  BY LiveAssumption
<1>5. LiveTypeOK
  BY <1>1, <1>2, <1>3, <1>4 DEF LiveInit, LiveTypeOK
<1>6. CountsArePast
  BY <1>3 DEF CountsArePast
<1>7. PayloadsDisjoint
  BY <1>2 DEF LiveInit, PayloadsDisjoint, Covered
<1>8. GrowthInv /\ WriterHasLatest /\ SleeperHasLatest
  BY <1>1 DEF LiveInit, WriterHasLatest, GrowthInv, NextCoversLatest, LatestCoversHeld, PayloadCoversSent,
              SleeperHasLatest
<1> QED
  BY <1>5, <1>6, <1>7, <1>8 DEF LiveInv, CountInv

\* Steps that leave the table and the goroutine alone, and only add to the payloads.
LEMMA CountsKept ==
    ASSUME CountInv, UNCHANGED <<now, timestamps, refresh, latest, content, faults>>,
           stream' \in [Client -> Stream],
           \A c \in Client : stream'[c].pc = "write" => stream'[c].payload # Null
    PROVE  CountInv'
BY DEF CountInv, LiveTypeOK, CountsArePast, PayloadsDisjoint, Covered, Newer, Row

\* A stream that takes a step keeps what it and the others hold.
LEMMA StreamStep ==
    ASSUME LiveInv, NEW c \in Client, NEW this \in Stream,
           stream' = [stream EXCEPT ![c] = this],
           UNCHANGED <<now, timestamps, refresh, latest, content, faults>>,
           {this.payload, this.sent} \subseteq {stream[c].payload, stream[c].sent, latest, Null},
           this.pc = "write" =>
               /\ this.payload # Null /\ (~this.woken => this.payload = latest)
               /\ this.sent # Null => Covered(this.sent) \subseteq Covered(this.payload),
           this.pc = "select" /\ ~this.woken => this.sent = latest
    PROVE  LiveInv'
<1>0. LiveTypeOK /\ stream \in [Client -> Stream]
  BY DEF LiveInv, CountInv, LiveTypeOK
<1>1. stream'[c] = this /\ \A d \in Client : d # c => stream'[d] = stream[d]
  BY <1>0
<1>2. stream' \in [Client -> Stream]
  BY <1>0
<1>3. CountInv'
  BY <1>0, <1>1, <1>2, CountsKept DEF LiveInv, LiveTypeOK
<1>4. NextCoversLatest'
  BY DEF LiveInv, GrowthInv, NextCoversLatest, Covered, Newer, Row
<1>5. \A b : Covered(b)' = Covered(b)
  BY DEF Covered
<1>6. LatestCoversHeld'
  <2> SUFFICES ASSUME NEW d \in Client, NEW b \in {stream'[d].payload, stream'[d].sent} \ {Null}
               PROVE  latest # Null /\ Covered(b) \subseteq Covered(latest)
    BY <1>5 DEF LatestCoversHeld
  <2>1. CASE b = latest
    BY <2>1
  <2>2. CASE b # latest
    <3>1. b \in {stream[d].payload, stream[d].sent} \ {Null}
      BY <1>1, <2>2
    <3> QED
      BY <3>1 DEF LiveInv, GrowthInv, LatestCoversHeld
  <2> QED
    BY <2>1, <2>2
<1>7. PayloadCoversSent'
  <2> SUFFICES ASSUME NEW d \in Client, stream'[d].pc = "write", stream'[d].sent # Null
               PROVE  Covered(stream'[d].sent) \subseteq Covered(stream'[d].payload)
    BY <1>5 DEF PayloadCoversSent
  <2> QED
    BY <1>1 DEF LiveInv, GrowthInv, PayloadCoversSent
<1>8. WriterHasLatest' /\ SleeperHasLatest'
  BY <1>1 DEF LiveInv, WriterHasLatest, SleeperHasLatest
<1> QED
  BY <1>3, <1>4, <1>6, <1>7, <1>8 DEF LiveInv, GrowthInv
-----------------------------------------------------------------------------
\* A stored row is newer than the exact count or not; no other row changes.
LEMMA StoreStep ==
    ASSUME LiveInv, NEW t \in Tx, Store(t)
    PROVE  LiveInv'
<1>0. LiveTypeOK /\ CountsArePast /\ PayloadsDisjoint /\ NextCoversLatest
  BY DEF LiveInv, CountInv, GrowthInv
<1>1. /\ timestamps[t] = Null
      /\ UNCHANGED <<now, refresh, latest, content, stream, faults>>
  BY DEF Store, hubVars
<1>2. PICK observed \in 0 .. now : timestamps' = [timestamps EXCEPT ![t] = observed]
  BY DEF Store
<1>3. timestamps' \in [Tx -> (0 .. now) \cup {Null}]
  BY <1>0, <1>2 DEF LiveTypeOK
<1>4. \A u \in Row : u # t /\ timestamps'[u] = timestamps[u] /\ u \in Row'
  BY <1>0, <1>1, <1>2 DEF LiveTypeOK, Row
<1>5. Newer \subseteq Newer'
  BY <1>1, <1>4 DEF Newer
<1>6. Row \subseteq Row'
  BY <1>4
<1>7. LiveTypeOK'
  BY <1>0, <1>1, <1>3 DEF LiveTypeOK
<1>8. CountsArePast'
  BY <1>0, <1>1, <1>4, <1>5, <1>6 DEF CountsArePast
<1>9. \A b : Covered(b)' = Covered(b)
  BY <1>1 DEF Covered
<1>10. PayloadsDisjoint'
  BY <1>0, <1>1, <1>6, <1>9 DEF PayloadsDisjoint
<1>11. NextCoversLatest'
  BY <1>0, <1>1, <1>5, <1>9 DEF NextCoversLatest
<1>12. (LatestCoversHeld /\ PayloadCoversSent /\ WriterHasLatest /\ SleeperHasLatest)'
  BY <1>1, <1>9 DEF LiveInv, GrowthInv, LatestCoversHeld, PayloadCoversSent, WriterHasLatest,
         SleeperHasLatest
<1> QED
  BY <1>7, <1>8, <1>10, <1>11, <1>12 DEF LiveInv, CountInv, GrowthInv

\* Steps of the clock and of runSnapshots before it publishes: the payloads stay.
LEMMA PayloadsStay ==
    ASSUME LiveInv, UNCHANGED <<timestamps, latest, content, stream>>,
           now' \in 0 .. MaxTime, now <= now', faults' \in 0 .. MaxFaults,
           refresh' \in Refresh,
           refresh'.pc \in {"live", "publish"} => refresh'.exact # Null,
           CountsArePast', NextCoversLatest'
    PROVE  LiveInv'
<1>0. LiveTypeOK /\ now \in Nat /\ now' \in Nat /\ timestamps \in [Tx -> (0 .. now) \cup {Null}]
  BY Types, LiveAssumption DEF LiveInv, CountInv
<1>1. (0 .. now) \subseteq (0 .. now')
  BY <1>0
<1>2. timestamps' \in [Tx -> (0 .. now') \cup {Null}]
  BY <1>0, <1>1
<1>3. LiveTypeOK'
  BY <1>0, <1>2 DEF LiveTypeOK
<1>4. PayloadsDisjoint'
  BY DEF LiveInv, CountInv, PayloadsDisjoint, Covered, Row
<1>5. (LatestCoversHeld /\ PayloadCoversSent /\ WriterHasLatest /\ SleeperHasLatest)'
  BY DEF LiveInv, GrowthInv, LatestCoversHeld, PayloadCoversSent, WriterHasLatest,
         SleeperHasLatest, Covered
<1> QED
  BY <1>3, <1>4, <1>5 DEF LiveInv, CountInv, GrowthInv

LEMMA ClockStep == LiveInv /\ ClockTicks => LiveInv'
<1> SUFFICES ASSUME LiveInv, ClockTicks PROVE LiveInv'
  OBVIOUS
<1>0. LiveTypeOK /\ CountsArePast /\ NextCoversLatest
  BY DEF LiveInv, CountInv, GrowthInv
<1>1. now \in Nat /\ MaxTime \in Nat /\ (refresh.exact # Null => refresh.exact.asOf \in Nat)
  BY <1>0, Types, LiveAssumption
<1>2. /\ now' \in 0 .. MaxTime /\ now <= now'
      /\ UNCHANGED <<timestamps, refresh, latest, content, stream, faults>>
  BY <1>1 DEF ClockTicks, hubVars
<1>3. CountsArePast'
  BY <1>0, <1>1, <1>2 DEF CountsArePast, Newer, Row, ClockTicks
<1>4. NextCoversLatest'
  BY <1>0, <1>2 DEF NextCoversLatest, Covered, Newer, Row
<1> QED
  BY <1>0, <1>2, <1>3, <1>4, PayloadsStay DEF LiveTypeOK

LEMMA RefreshStep ==
    ASSUME LiveInv, CountsAge \/ Tick \/ CountRows \/ ReadClock \/ CountNewer
    PROVE  LiveInv'
<1>0. LiveTypeOK /\ CountsArePast /\ PayloadsDisjoint /\ NextCoversLatest
  BY DEF LiveInv, CountInv, GrowthInv
<1>1. /\ now \in Nat /\ now \in 0 .. MaxTime /\ refresh \in Refresh /\ faults \in 0 .. MaxFaults
      /\ Row \subseteq Tx /\ \A t \in Row : timestamps[t] \in Nat /\ timestamps[t] <= now
  BY <1>0, Types DEF Row
<1>2. /\ UNCHANGED <<now, timestamps, latest, content, stream>>
      /\ now' \in 0 .. MaxTime /\ now <= now' /\ faults' \in 0 .. MaxFaults
  BY <1>1, Counted DEF CountsAge, Tick, CountRows, ReadClock, CountNewer, tableVars, hubVars
<1>3. /\ Row' = Row
      /\ \A b : Covered(b)' = Covered(b)
  BY <1>2 DEF Row, Covered
<1>4. latest # Null => latest \in Buffer
  BY <1>0 DEF LiveTypeOK
<1>5. CASE CountsAge
  <2>1. /\ refresh' = [refresh EXCEPT !.due = TRUE] /\ refresh' \in Refresh
        /\ UNCHANGED <<refresh.pc, refresh.counting, refresh.exact, refresh.newer>>
    BY <1>1, <1>5 DEF CountsAge, Refresh
  <2>2. CountsArePast' /\ NextCoversLatest'
    BY <1>0, <1>2, <1>3, <2>1 DEF CountsArePast, NextCoversLatest, Newer
  <2> QED
    BY <1>0, <1>2, <2>1, <2>2, PayloadsStay DEF LiveTypeOK
<1>6. CASE Tick
  <2>1. /\ refresh' \in Refresh /\ refresh'.pc \in {"count", "live"}
        /\ refresh'.pc = "live" => refresh.exact # Null
        /\ UNCHANGED <<refresh.counting, refresh.exact, refresh.newer>>
    BY <1>1, <1>6 DEF Tick, Refresh
  <2>2. CountsArePast' /\ NextCoversLatest'
    BY <1>0, <1>2, <1>3, <2>1 DEF CountsArePast, NextCoversLatest, Newer
  <2> QED
    BY <1>2, <2>1, <2>2, PayloadsStay
<1>7. CASE CountRows /\ refresh' = [refresh EXCEPT !.pc = "clock", !.counting = Row]
  <2>1. /\ refresh' \in Refresh /\ refresh'.pc = "clock" /\ refresh'.counting = Row
        /\ UNCHANGED <<refresh.exact, refresh.newer>>
    BY <1>1, <1>7 DEF Refresh
  <2>2. CountsArePast'
    BY <1>0, <1>2, <1>3, <2>1 DEF CountsArePast
  <2>3. NextCoversLatest'
    BY <1>0, <1>2, <1>3, <1>4, <2>1 DEF NextCoversLatest, PayloadsDisjoint, Newer
  <2> QED
    BY <1>2, <2>1, <2>2, <2>3, PayloadsStay
<1>8. CASE /\ CountRows
           /\ refresh' = [refresh EXCEPT !.pc = IF refresh.exact = Null THEN "tick" ELSE "live"]
  <2>1. /\ refresh' \in Refresh /\ refresh'.pc \in {"tick", "live"}
        /\ refresh'.pc = "live" => refresh.exact # Null
        /\ UNCHANGED <<refresh.counting, refresh.exact, refresh.newer>>
    BY <1>1, <1>8 DEF Refresh
  <2>2. CountsArePast' /\ NextCoversLatest'
    BY <1>0, <1>2, <1>3, <2>1 DEF CountsArePast, NextCoversLatest, Newer
  <2> QED
    BY <1>2, <2>1, <2>2, PayloadsStay
<1>9. CASE ReadClock
  <2> DEFINE read == [rows |-> refresh.counting, asOf |-> now]
  <2>1. refresh.pc = "clock" /\ refresh.counting \subseteq Row
    BY <1>0, <1>9 DEF ReadClock, CountsArePast
  <2>2. read \in Exact /\ read.rows = refresh.counting /\ read.asOf = now
    BY <1>1 DEF Exact, Refresh
  <2>3. read # Null
    BY <2>2, LiveAssumption
  <2>4. /\ refresh'.pc = "live" /\ refresh'.counting = {} /\ refresh'.exact = read
        /\ refresh' \in Refresh
    BY <1>1, <1>9, <2>2 DEF ReadClock, Refresh
  <2>5. CountsArePast'
    BY <1>1, <1>2, <1>3, <2>1, <2>2, <2>4 DEF CountsArePast
  <2>6. NextCoversLatest'
    BY <1>0, <1>2, <1>3, <2>1, <2>2, <2>3, <2>4 DEF NextCoversLatest
  <2> QED
    BY <1>2, <2>3, <2>4, <2>5, <2>6, PayloadsStay
<1>10. CASE CountNewer /\ refresh' = [refresh EXCEPT !.pc = "publish", !.newer = Newer]
  <2>1. Newer \subseteq Tx /\ refresh.exact # Null
    BY <1>0, <1>1, <1>10 DEF Newer, CountNewer, LiveTypeOK
  <2>2. /\ refresh' \in Refresh /\ refresh'.pc = "publish" /\ refresh'.newer = Newer
        /\ UNCHANGED <<refresh.counting, refresh.exact>>
    BY <1>1, <1>10, <2>1 DEF Refresh
  <2>3. Newer' = Newer
    BY <1>2, <1>3, <2>2 DEF Newer
  <2>4. CountsArePast' /\ NextCoversLatest'
    BY <1>0, <1>2, <1>3, <2>2, <2>3 DEF CountsArePast, NextCoversLatest
  <2> QED
    BY <1>2, <2>1, <2>2, <2>4, PayloadsStay
<1>11. CASE CountNewer /\ refresh' = [refresh EXCEPT !.pc = "tick"]
  <2>1. /\ refresh' \in Refresh /\ refresh'.pc = "tick"
        /\ UNCHANGED <<refresh.counting, refresh.exact, refresh.newer>>
    BY <1>1, <1>11 DEF Refresh
  <2>2. CountsArePast' /\ NextCoversLatest'
    BY <1>0, <1>2, <1>3, <2>1 DEF CountsArePast, NextCoversLatest, Newer
  <2> QED
    BY <1>2, <2>1, <2>2, PayloadsStay
<1> QED
  BY <1>5, <1>6, <1>7, <1>8, <1>9, <1>10, <1>11 DEF CountRows, CountNewer

\* The new payload covers the one before, and whoever holds an older one is woken.
LEMMA PublishStep == LiveInv /\ Publish => LiveInv'
<1> SUFFICES ASSUME LiveInv, Publish PROVE LiveInv'
  OBVIOUS
<1>0. /\ CountInv /\ LiveTypeOK /\ CountsArePast /\ PayloadsDisjoint
      /\ NextCoversLatest /\ LatestCoversHeld /\ PayloadCoversSent
  BY DEF LiveInv, CountInv, GrowthInv
<1>1. PICK counts \in Counts :
         /\ Allocate(counts)
         /\ counts.exact = refresh.exact.rows /\ counts.newer = refresh.newer
         /\ counts.exact \cap counts.newer = {}
         /\ counts.exact \cup counts.newer \subseteq Row
  BY <1>0, Published
<1>2. /\ latest' \in Buffer \ Held
      /\ content' \in [Buffer -> Counts]
      /\ content'[latest'] = counts
      /\ \A b \in Held \cap Buffer : content'[b] = content[b]
      /\ \A b \in Buffer : content'[b] \in {counts, content[b], Freed}
  BY <1>0, <1>1, Allocated
<1>3. /\ refresh.pc = "publish" /\ refresh.exact # Null
      /\ refresh' \in Refresh /\ refresh'.pc = "tick" /\ refresh'.newer = {}
      /\ UNCHANGED <<refresh.counting, refresh.exact, now, timestamps, faults>>
  BY <1>0 DEF LiveTypeOK, Publish, Refresh, tableVars
<1>4. \A c \in Client :
         /\ stream'[c] \in Stream
         /\ UNCHANGED <<stream[c].pc, stream[c].payload, stream[c].sent>>
         /\ stream[c].pc \in {"write", "select"} => stream'[c].woken
  <2> SUFFICES ASSUME NEW c \in Client
               PROVE  /\ stream'[c] \in Stream
                      /\ UNCHANGED <<stream[c].pc, stream[c].payload, stream[c].sent>>
                      /\ stream[c].pc \in {"write", "select"} => stream'[c].woken
    OBVIOUS
  <2>1. stream[c] \in Stream
    BY <1>0 DEF LiveTypeOK
  <2>2. stream'[c] = IF stream[c].pc \in {"write", "select"} THEN [stream[c] EXCEPT !.woken = TRUE]
                                                             ELSE stream[c]
    BY DEF Publish
  <2> QED
    BY <2>1, <2>2 DEF Stream
<1>5. stream' \in [Client -> Stream]
  BY <1>4 DEF Publish
<1>6. LiveTypeOK'
  BY <1>0, <1>2, <1>3, <1>4, <1>5 DEF LiveTypeOK
<1>7. Row' = Row
  BY <1>3 DEF Row
<1>8. CountsArePast'
  BY <1>0, <1>3, <1>7 DEF CountsArePast
<1>9. PayloadsDisjoint'
  <2> SUFFICES ASSUME NEW b \in Buffer
               PROVE  /\ content'[b].exact \cap content'[b].newer = {}
                      /\ content'[b].exact \cup content'[b].newer \subseteq Row
    BY <1>7 DEF PayloadsDisjoint, Covered
  <2>1. Freed.exact = {} /\ Freed.newer = {}
    BY DEF Freed
  <2> QED
    BY <1>0, <1>1, <1>2, <2>1 DEF PayloadsDisjoint, Covered
<1>10. Covered(latest)' = refresh.exact.rows \cup refresh.newer
  BY <1>1, <1>2 DEF Covered
<1>11. NextCoversLatest'
  <2>1. refresh.newer \subseteq Newer /\ Newer' = Newer
    BY <1>0, <1>3, <1>7 DEF CountsArePast, Newer
  <2> QED
    BY <1>3, <1>10, <2>1 DEF NextCoversLatest
<1>12. \A c \in Client : \A b \in {stream[c].payload, stream[c].sent} \ {Null} :
          b \in Held \cap Buffer /\ Covered(b)' = Covered(b)
  <2> SUFFICES ASSUME NEW c \in Client, NEW b \in {stream[c].payload, stream[c].sent} \ {Null}
               PROVE  b \in Held \cap Buffer /\ Covered(b)' = Covered(b)
    OBVIOUS
  <2>1. b \in Held
    BY DEF Held
  <2>2. b \in Buffer
    BY <1>0 DEF LiveTypeOK, Stream
  <2> QED
    BY <1>2, <2>1, <2>2 DEF Covered
<1>13. LatestCoversHeld'
  <2> SUFFICES ASSUME NEW c \in Client, NEW b \in {stream[c].payload, stream[c].sent} \ {Null}
               PROVE  latest' # Null /\ Covered(b)' \subseteq Covered(latest)'
    BY <1>4 DEF LatestCoversHeld
  <2>1. latest # Null /\ Covered(b) \subseteq Covered(latest)
    BY <1>0 DEF LatestCoversHeld
  <2>2. Covered(latest) \subseteq refresh.exact.rows \cup refresh.newer
    BY <1>0, <1>3, <2>1 DEF NextCoversLatest
  <2>3. Null \notin Buffer
    BY LiveAssumption
  <2> QED
    BY <1>2, <1>10, <1>12, <2>1, <2>2, <2>3
<1>14. PayloadCoversSent'
  <2> SUFFICES ASSUME NEW c \in Client, stream[c].pc = "write", stream[c].sent # Null
               PROVE  Covered(stream[c].sent)' \subseteq Covered(stream[c].payload)'
    BY <1>4 DEF PayloadCoversSent, Covered
  <2>1. stream[c].payload # Null
    BY <1>0 DEF LiveTypeOK
  <2>2. /\ Covered(stream[c].sent)' = content'[stream[c].sent].exact \cup content'[stream[c].sent].newer
        /\ Covered(stream[c].payload)' = content'[stream[c].payload].exact
                                           \cup content'[stream[c].payload].newer
    BY <1>4 DEF Covered
  <2>3. /\ content'[stream[c].sent] = content[stream[c].sent]
        /\ content'[stream[c].payload] = content[stream[c].payload]
    BY <1>2, <1>12, <2>1
  <2> QED
    BY <1>0, <2>2, <2>3 DEF PayloadCoversSent, Covered
<1>15. WriterHasLatest' /\ SleeperHasLatest'
  BY <1>4 DEF WriterHasLatest, SleeperHasLatest
<1> QED
  BY <1>6, <1>8, <1>9, <1>11, <1>13, <1>14, <1>15 DEF LiveInv, CountInv, GrowthInv

LEMMA ClientStep ==
    ASSUME LiveInv, NEW c \in Client, Serve(c) \/ Connect(c) \/ Heartbeat(c) \/ Disconnect(c)
    PROVE  LiveInv'
<1>0. /\ LiveTypeOK /\ LatestCoversHeld /\ SleeperHasLatest
      /\ stream \in [Client -> Stream] /\ stream[c] \in Stream
  BY DEF LiveInv, CountInv, GrowthInv, LiveTypeOK
<1>1. UNCHANGED <<now, timestamps, refresh, latest, content, faults>>
  BY DEF Serve, Current, Write, Wake, Connect, Heartbeat, Disconnect, tableVars, hubVars
<1>2. CASE Current(c) /\ latest # Null /\ latest # stream[c].sent
  <2> DEFINE this == [stream[c] EXCEPT !.pc = "write", !.payload = latest, !.woken = FALSE]
  <2>1. /\ this \in Stream /\ this.pc = "write" /\ this.payload = latest /\ this.sent = stream[c].sent
        /\ stream' = [stream EXCEPT ![c] = this]
    BY <1>0, <1>2 DEF Current, LiveTypeOK, Stream
  <2>2. stream[c].sent # Null => Covered(stream[c].sent) \subseteq Covered(latest)
    BY <1>0 DEF LatestCoversHeld
  <2> HIDE DEF this
  <2> QED
    BY <1>1, <1>2, <2>1, <2>2, StreamStep
<1>3. CASE Current(c) /\ ~(latest # Null /\ latest # stream[c].sent)
  <2> DEFINE this == [stream[c] EXCEPT !.pc = "select", !.woken = FALSE]
  <2>1. /\ this \in Stream /\ this.pc = "select"
        /\ this.payload = stream[c].payload /\ this.sent = stream[c].sent
        /\ stream' = [stream EXCEPT ![c] = this]
    BY <1>0, <1>3 DEF Current, Stream
  <2>2. stream[c].sent = latest
    BY <1>0, <1>3 DEF LatestCoversHeld
  <2> HIDE DEF this
  <2> QED
    BY <1>1, <2>1, <2>2, StreamStep
<1>4. CASE Write(c)
  <2> DEFINE this == [stream[c] EXCEPT !.pc = "select", !.sent = stream[c].payload, !.payload = Null]
  <2>1. /\ this \in Stream /\ this.pc = "select" /\ this.woken = stream[c].woken
        /\ this.payload = Null /\ this.sent = stream[c].payload
        /\ stream' = [stream EXCEPT ![c] = this]
    BY <1>0, <1>4 DEF Write, Stream
  <2>2. ~stream[c].woken => stream[c].payload = latest
    BY <1>0, <1>4 DEF Write, WriterHasLatest, LiveInv
  <2> HIDE DEF this
  <2> QED
    BY <1>1, <2>1, <2>2, StreamStep
<1>5. CASE Wake(c) \/ Connect(c) \/ Heartbeat(c)
  <2> DEFINE this == [stream[c] EXCEPT !.pc = "current"]
  <2>1. /\ this \in Stream /\ this.pc = "current"
        /\ this.payload = stream[c].payload /\ this.sent = stream[c].sent
        /\ stream' = [stream EXCEPT ![c] = this]
    BY <1>0, <1>5 DEF Wake, Connect, Heartbeat, Stream
  <2> HIDE DEF this
  <2> QED
    BY <1>1, <2>1, StreamStep
<1>6. CASE Disconnect(c)
  <2>1. Off \in Stream /\ Off.pc = "off" /\ Off.sent = Null /\ Off.payload = Null
    BY DEF Off, Stream
  <2>2. stream' = [stream EXCEPT ![c] = Off]
    BY <1>6 DEF Disconnect
  <2> QED
    BY <1>1, <2>1, <2>2, StreamStep
<1> QED
  BY <1>2, <1>3, <1>4, <1>5, <1>6 DEF Serve

LEMMA LiveInductive == LiveInv /\ [LiveNext]_liveVars => LiveInv'
<1> SUFFICES ASSUME LiveInv, [LiveNext]_liveVars PROVE LiveInv'
  OBVIOUS
<1>1. ASSUME NEW t \in Tx, Store(t) PROVE LiveInv'
  BY <1>1, StoreStep
<1>2. CASE ClockTicks
  BY <1>2, ClockStep
<1>3. CASE CountsAge \/ Tick \/ CountRows \/ ReadClock \/ CountNewer
  BY <1>3, RefreshStep
<1>4. CASE Publish
  BY <1>4, PublishStep
<1>5. ASSUME NEW c \in Client, Serve(c) \/ Connect(c) \/ Heartbeat(c) \/ Disconnect(c)
      PROVE  LiveInv'
  BY <1>5, ClientStep
<1>6. CASE UNCHANGED liveVars
  <2>1. CountInv'
    BY <1>6, CountsKept DEF LiveInv, CountInv, LiveTypeOK, liveVars, tableVars, hubVars
  <2> QED
    BY <1>6, <2>1 DEF LiveInv, GrowthInv, NextCoversLatest, LatestCoversHeld, PayloadCoversSent,
                      WriterHasLatest, SleeperHasLatest, Covered, Newer, Row,
                      liveVars, tableVars, hubVars
<1> QED
  BY <1>1, <1>2, <1>3, <1>4, <1>5, <1>6 DEF LiveNext, RunSnapshots

\* What an open stream has shown stays where it was written, or it writes a payload that
\* covers it.
LEMMA ShownGrows ==
    ASSUME LiveInv, [LiveNext]_liveVars, NEW c \in Client,
           stream[c].sent # Null, stream'[c].sent # Null
    PROVE  Covered(stream[c].sent) \subseteq Covered(stream[c].sent)'
<1>0. /\ CountInv /\ LiveTypeOK /\ PayloadCoversSent
      /\ stream \in [Client -> Stream] /\ stream[c].sent \in Buffer
  BY DEF LiveInv, CountInv, GrowthInv, LiveTypeOK, Stream
<1>1. CASE Publish
  <2>1. PICK counts \in Counts : Allocate(counts)
    BY <1>0, <1>1, Published
  <2>2. stream[c].sent \in Held \cap Buffer
    BY <1>0 DEF Held
  <2>3. content'[stream[c].sent] = content[stream[c].sent]
    BY <1>0, <2>1, <2>2, Allocated
  <2>4. stream'[c].sent = stream[c].sent
    BY <1>0, <1>1 DEF Publish, Stream
  <2> QED
    BY <2>3, <2>4 DEF Covered
<1>2. ASSUME NEW d \in Client, Write(d)
      PROVE  Covered(stream[c].sent) \subseteq Covered(stream[c].sent)'
  <2>1. content' = content
    BY <1>2 DEF Write, hubVars
  <2>2. CASE d = c
    <3>1. stream[c].pc = "write" /\ stream'[c].sent = stream[c].payload
      BY <1>0, <1>2, <2>2 DEF Write, Stream
    <3>2. Covered(stream[c].sent) \subseteq Covered(stream[c].payload)
      BY <1>0, <3>1 DEF PayloadCoversSent
    <3> QED
      BY <2>1, <3>1, <3>2 DEF Covered
  <2>3. CASE d # c
    BY <1>0, <1>2, <2>1, <2>3 DEF Write, Covered
  <2> QED
    BY <2>2, <2>3
<1>3. ASSUME NEW d \in Client, Current(d) \/ Wake(d) \/ Connect(d) \/ Heartbeat(d) \/ Disconnect(d)
      PROVE  Covered(stream[c].sent) \subseteq Covered(stream[c].sent)'
  <2>1. content' = content
    BY <1>3 DEF Current, Wake, Connect, Heartbeat, Disconnect, hubVars
  <2>2. stream'[c].sent = stream[c].sent
    <3>1. CASE Disconnect(d)
      BY <1>0, <3>1 DEF Disconnect, Off
    <3>2. CASE Current(d)
      BY <1>0, <3>2 DEF Current, Stream
    <3>3. CASE Wake(d) \/ Connect(d) \/ Heartbeat(d)
      BY <1>0, <3>3 DEF Wake, Connect, Heartbeat, Stream
    <3> QED
      BY <1>3, <3>1, <3>2, <3>3
  <2> QED
    BY <2>1, <2>2 DEF Covered
<1>4. CASE UNCHANGED <<content, stream>>
  BY <1>4 DEF Covered
<1>5. CASE (\E t \in Tx : Store(t)) \/ ClockTicks \/ CountsAge \/ Tick \/ CountRows \/ ReadClock
             \/ CountNewer \/ UNCHANGED liveVars
  BY <1>4, <1>5 DEF Store, ClockTicks, CountsAge, Tick, CountRows, ReadClock, CountNewer,
                    liveVars, hubVars
<1> QED
  BY <1>1, <1>2, <1>3, <1>5 DEF LiveNext, RunSnapshots, Serve
-----------------------------------------------------------------------------
\* handleEventStream never writes a payload it has not got, and buildSnapshot never uses counts
\* it has not taken.
THEOREM LiveTypeCorrect == LiveSpec => []LiveTypeOK
<1>1. LiveInv => LiveTypeOK
  BY DEF LiveInv, CountInv
<1> QED
  BY LiveInitial, LiveInductive, <1>1, PTL DEF LiveSpec

\* The transaction count of a snapshot never exceeds the rows of the table: ExactCounts reads
\* the clock after its rows, and LiveCounts adds only rows that are newer.
THEOREM CountIsSound == LiveSpec => []NothingCountedTwice
<1>1. LiveInv => NothingCountedTwice
  BY CountBound DEF LiveInv
<1> QED
  BY LiveInitial, LiveInductive, <1>1, PTL DEF LiveSpec

\* A stream that waits has sent the last payload, or is woken already: current takes the
\* payload and the channel together, and publish closes the channel it replaces.
THEOREM SleepersUpToDate == LiveSpec => []SleeperHasLatest
<1>1. LiveInv => SleeperHasLatest
  BY DEF LiveInv
<1> QED
  BY LiveInitial, LiveInductive, <1>1, PTL DEF LiveSpec

\* No open stream of handleEventStream sees the transaction count fall.
THEOREM CountNeverFalls == LiveSpec => ShownCountNeverFalls
<1> DEFINE Step == \A c \in Client :
                     stream[c].sent # Null /\ stream'[c].sent # Null
                     => TransactionCount(stream[c].sent) <= TransactionCount(stream[c].sent)'
<1>1. LiveInv /\ LiveInv' /\ [LiveNext]_liveVars => Step
  <2> SUFFICES ASSUME LiveInv, LiveInv', [LiveNext]_liveVars, NEW c \in Client,
                      stream[c].sent # Null, stream'[c].sent # Null
               PROVE  TransactionCount(stream[c].sent) <= TransactionCount(stream[c].sent)'
    OBVIOUS
  <2> DEFINE old == content[stream[c].sent]
             new == content'[stream'[c].sent]
  <2>1. IsFiniteSet(Row')
    BY LiveAssumption, FS_Subset DEF Row
  <2>2. IsFiniteSet(Row)
    BY LiveAssumption, FS_Subset DEF Row
  <2>3. stream[c].sent \in Buffer /\ stream'[c].sent \in Buffer
    BY DEF LiveInv, CountInv, LiveTypeOK, Stream
  <2>4. old.exact \cap old.newer = {} /\ old.exact \cup old.newer \subseteq Row
    BY <2>3 DEF LiveInv, CountInv, PayloadsDisjoint, Covered
  <2>5. new.exact \cap new.newer = {} /\ new.exact \cup new.newer \subseteq Row'
    BY <2>3 DEF LiveInv, CountInv, PayloadsDisjoint, Covered
  <2>6. old.exact \cup old.newer \subseteq new.exact \cup new.newer
    BY ShownGrows DEF Covered
  <2> HIDE DEF old, new
  <2>7. Cardinality(old.exact) + Cardinality(old.newer) = Cardinality(old.exact \cup old.newer)
    BY <2>2, <2>4, CountOfBoth
  <2>8. /\ IsFiniteSet(new.exact \cup new.newer)
        /\ Cardinality(new.exact) + Cardinality(new.newer) = Cardinality(new.exact \cup new.newer)
    BY <2>1, <2>5, CountOfBoth
  <2>9. Cardinality(old.exact \cup old.newer) <= Cardinality(new.exact \cup new.newer)
    BY <2>6, <2>8, FS_Subset
  <2> QED
    BY <2>7, <2>8, <2>9 DEF TransactionCount, old, new
<1> QED
  BY LiveInitial, LiveInductive, <1>1, PTL DEF LiveSpec, ShownCountNeverFalls

-----------------------------------------------------------------------------
(***************************************************************************)
(* GraphRepair.                                                            *)
(***************************************************************************)

GraphTypeOK ==
    /\ accounts \subseteq Node
    /\ address \in [Node -> Spelling]
    /\ contracts \subseteq accounts
    /\ edges \subseteq [key : Key, from : accounts, to : accounts]

\* The groups of a batch can be merged one after the other.
BatchOK ==
    /\ \A g \in repairer.batch : g.ids # {} /\ g.ids \subseteq accounts
    /\ \A g \in repairer.batch : \A n \in g.ids : Normal[address[n]] = g.address
    /\ \A g, h \in repairer.batch : g # h => g.ids \cap h.ids = {}

\* An operator's repair goes on to the schema only with duplicates that have no address.
BlanksRemain ==
    repairer.pc = "schema" /\ repairer.mode = "repair" =>
        Duplicated = {} \/ \E a \in Duplicated : Normal[a] = Blank

\* Only a process that is merging has groups to do.
BatchDone == repairer.pc # "merge" => repairer.batch = {}

RepairInv == RepairTypeOK /\ BatchDone /\ BlanksRemain /\ FailsOnlyUnrepairable
-----------------------------------------------------------------------------
\* A nonempty set of naturals up to n has a smallest element.
LEMMA SmallestUpTo ==
    ASSUME NEW n \in Nat, NEW T \in SUBSET (0 .. n), T # {}
    PROVE  \E x \in T : \A y \in T : x <= y
<1> DEFINE Initial == {0 .. x : x \in T}
           Smaller == StrictSubsetOrdering(0 .. n)
<1>1. IsFiniteSet(0 .. n)
  BY FS_Interval
<1>2. IsWellFoundedOn(Smaller, FiniteSubsetsOf(0 .. n))
  BY <1>1, FS_StrictSubsetOrderingWellFounded
<1>3. Initial \subseteq FiniteSubsetsOf(0 .. n) /\ Initial # {}
  <2>1. \A x \in T : 0 .. x \subseteq 0 .. n
    OBVIOUS
  <2>2. \A x \in T : IsFiniteSet(0 .. x)
    BY FS_Interval
  <2> QED
    BY <2>1, <2>2 DEF FiniteSubsetsOf
<1>4. PICK I \in Initial : \A J \in Initial : ~(<<J, I>> \in Smaller)
  <2> HIDE DEF Smaller, Initial
  <2> QED
    BY <1>2, <1>3, WFMin
<1>5. PICK x \in T : I = 0 .. x
  BY <1>4
<1>6. ASSUME NEW y \in T PROVE x <= y
  <2> SUFFICES ASSUME y < x PROVE FALSE
    OBVIOUS
  <2>1. 0 .. y \subseteq 0 .. x /\ x \in 0 .. x /\ x \notin 0 .. y /\ 0 .. x \subseteq 0 .. n
    OBVIOUS
  <2>2. <<0 .. y, 0 .. x>> \in Smaller
    BY <2>1 DEF StrictSubsetOrdering
  <2> QED
    BY <1>4, <1>5, <2>2
<1> QED
  BY <1>6

LEMMA MinOfNodes ==
    ASSUME NEW S \in SUBSET Nat, S # {}
    PROVE  Min(S) \in S /\ \A y \in S : Min(S) <= y
<1>1. PICK n \in S : TRUE
  OBVIOUS
<1>2. S \cap (0 .. n) \in SUBSET (0 .. n) /\ S \cap (0 .. n) # {}
  BY <1>1
<1>3. PICK x \in S \cap (0 .. n) : \A y \in S \cap (0 .. n) : x <= y
  BY <1>1, <1>2, SmallestUpTo
<1>4. \A y \in S : x <= y
  BY <1>3
<1> QED
  BY <1>3, <1>4 DEF Min

-----------------------------------------------------------------------------
(***************************************************************************)
(* Merging one group.                                                      *)
(***************************************************************************)

\* Every merged edge comes from one whose ends were the same but for duplicates.
LEMMA MergedFrom ==
    ASSUME NEW E \in SUBSET Edge, NEW keep \in Node, NEW dups \in SUBSET Node,
           NEW e \in Incoming(Outgoing(E, keep, dups), keep, dups)
    PROVE  \E d \in E :
              /\ e \in Edge /\ e.key = d.key
              /\ e.from = d.from \/ (e.from = keep /\ d.from \in dups)
              /\ e.to = d.to \/ (e.to = keep /\ d.to \in dups)
<1> DEFINE O == Outgoing(E, keep, dups)
<1>1. \A o \in O : \E d \in E :
         /\ o \in Edge /\ o.key = d.key /\ o.to = d.to
         /\ o.from = d.from \/ (o.from = keep /\ d.from \in dups)
  BY DEF Outgoing, Edge
<1>2. \E o \in O :
         /\ e.key = o.key /\ e.from = o.from /\ e \in Edge
         /\ e.to = o.to \/ (e.to = keep /\ o.to \in dups)
  <2>1. O \subseteq Edge
    BY <1>1
  <2>2. e \in O \/ \E o \in O : o.to \in dups /\ e = [o EXCEPT !.to = keep]
    BY DEF Incoming
  <2> QED
    BY <2>1, <2>2 DEF Edge
<1> QED
  BY <1>1, <1>2

\* Every edge is merged into one whose ends are the same but for duplicates.
LEMMA MergedInto ==
    ASSUME NEW E \in SUBSET Edge, NEW keep \in Node, NEW dups \in SUBSET Node, keep \notin dups,
           NEW d \in E
    PROVE  \E e \in Incoming(Outgoing(E, keep, dups), keep, dups) :
              /\ e.key = d.key /\ e.from \notin dups /\ e.to \notin dups
              /\ e.from = d.from \/ (e.from = keep /\ d.from \in dups)
              /\ e.to = d.to \/ (e.to = keep /\ d.to \in dups)
<1> DEFINE O == Outgoing(E, keep, dups)
<1>1. PICK o \in O :
         /\ o \in Edge /\ o.key = d.key /\ o.to = d.to /\ o.from \notin dups
         /\ o.from = d.from \/ (o.from = keep /\ d.from \in dups)
  <2>1. CASE d.from \in dups
    <3>1. [d EXCEPT !.from = keep] \in O
      BY <2>1 DEF Outgoing
    <3> QED
      BY <2>1, <3>1 DEF Edge
  <2>2. CASE d.from \notin dups
    BY <2>2 DEF Outgoing
  <2> QED
    BY <2>1, <2>2
<1>2. CASE o.to \in dups
  <2>1. [o EXCEPT !.to = keep] \in Incoming(O, keep, dups)
    BY <1>2 DEF Incoming
  <2> QED
    BY <1>1, <1>2, <2>1 DEF Edge
<1>3. CASE o.to \notin dups
  BY <1>1, <1>3 DEF Incoming
<1> QED
  BY <1>2, <1>3

\* What a merge needs to know of its group, and the node that is kept.
Mergeable(a, ids) ==
    /\ a \in Spelling /\ Normal[a] = a
    /\ ids # {} /\ ids \subseteq accounts
    /\ \A n \in ids : Normal[address[n]] = a

LEMMA Kept ==
    ASSUME GraphTypeOK, NEW a, NEW ids, Mergeable(a, ids)
    PROVE  Min(ids) \in ids /\ Min(ids) \in Node
<1>1. ids \in SUBSET Nat /\ ids # {}
  BY RepairAssumption DEF Mergeable, GraphTypeOK
<1> QED
  BY <1>1, MinOfNodes DEF Mergeable, GraphTypeOK

\* No merge gives a node to another account.
LEMMA MergeKeepsAccountOf ==
    ASSUME GraphTypeOK, NEW a, NEW ids, Mergeable(a, ids), MergeGroup(a, ids)
    PROVE  /\ address' \in [Node -> Spelling]
           /\ \A n \in Node : Normal[address'[n]] = Normal[address[n]]
<1>1. Min(ids) \in ids /\ Min(ids) \in Node
  BY Kept
<1>2. address' = [address EXCEPT ![Min(ids)] = a]
  BY DEF MergeGroup
<1> QED
  BY <1>1, <1>2 DEF Mergeable, GraphTypeOK

LEMMA MergeTypes ==
    ASSUME GraphTypeOK, NEW a, NEW ids, Mergeable(a, ids), MergeGroup(a, ids)
    PROVE  GraphTypeOK'
<1> DEFINE keep == Min(ids)
           dups == ids \ {keep}
<1>1. keep \in ids /\ keep \in Node
  BY Kept
<1>2. accounts' = accounts \ dups /\ contracts' = MergedContracts(keep, dups)
      /\ edges' = Merged(keep, dups)
  BY DEF MergeGroup
<1>3. keep \in accounts' /\ accounts' \subseteq Node
  BY <1>1, <1>2 DEF Mergeable, GraphTypeOK
<1>4. contracts' \subseteq accounts'
  BY <1>2, <1>3 DEF MergedContracts, GraphTypeOK
<1>5. edges' \subseteq [key : Key, from : accounts', to : accounts']
  <2> SUFFICES ASSUME NEW e \in edges' PROVE e \in [key : Key, from : accounts', to : accounts']
    OBVIOUS
  <2>1. edges \in SUBSET Edge /\ dups \in SUBSET Node
    BY DEF GraphTypeOK, Edge, Mergeable
  <2>2. e \in Incoming(Outgoing(edges, keep, dups), keep, dups) /\ e.from \notin dups /\ e.to \notin dups
    BY <1>2 DEF Merged
  <2>3. PICK d \in edges :
           /\ e \in Edge /\ e.key = d.key
           /\ e.from = d.from \/ (e.from = keep /\ d.from \in dups)
           /\ e.to = d.to \/ (e.to = keep /\ d.to \in dups)
    <3> HIDE DEF keep, dups
    <3> QED
      BY <1>1, <2>1, <2>2, MergedFrom
  <2>4. d.from \in accounts /\ d.to \in accounts
    BY DEF GraphTypeOK
  <2>5. e.from \in accounts' /\ e.to \in accounts'
    BY <1>2, <1>3, <2>2, <2>3, <2>4
  <2> QED
    BY <2>3, <2>5 DEF Edge
<1> QED
  BY <1>3, <1>4, <1>5, MergeKeepsAccountOf DEF GraphTypeOK

LEMMA MergeKeepsFlows ==
    ASSUME GraphTypeOK, NEW a, NEW ids, Mergeable(a, ids), MergeGroup(a, ids)
    PROVE  Flows' = Flows
<1> DEFINE keep == Min(ids)
           dups == ids \ {keep}
           FlowOf(e) == [key |-> e.key, from |-> Normal[address[e.from]], to |-> Normal[address[e.to]]]
<1>1. keep \in ids /\ keep \in Node /\ keep \notin dups /\ dups \in SUBSET Node
  BY Kept DEF Mergeable, GraphTypeOK
<1>2. edges' = Merged(keep, dups)
  BY DEF MergeGroup
<1>3. \A n \in dups : Normal[address[n]] = Normal[address[keep]]
  BY <1>1 DEF Mergeable
<1>4. edges \in SUBSET Edge
  BY DEF GraphTypeOK, Edge
<1>5. \A e \in edges' : e \in Edge
  <2> HIDE DEF keep, dups
  <2> QED
    BY <1>1, <1>2, <1>4, MergedFrom DEF Merged
<1>6. Flows = {FlowOf(e) : e \in edges}
  BY DEF Flows, AccountOf
<1>7. Flows' = {FlowOf(e) : e \in edges'}
  <2>1. Flows' = {[key |-> e.key, from |-> Normal[address'[e.from]], to |-> Normal[address'[e.to]]] : e \in edges'}
    BY DEF Flows, AccountOf
  <2>2. \A e \in edges' : [key |-> e.key, from |-> Normal[address'[e.from]], to |-> Normal[address'[e.to]]] = FlowOf(e)
    BY <1>5, MergeKeepsAccountOf DEF Edge
  <2> QED
    BY <2>1, <2>2
<1>8. \A e \in edges' : \E d \in edges : FlowOf(e) = FlowOf(d)
  <2> TAKE e \in edges'
  <2>1. e \in Incoming(Outgoing(edges, keep, dups), keep, dups)
    BY <1>2 DEF Merged
  <2>2. PICK d \in edges :
           /\ e \in Edge /\ e.key = d.key
           /\ e.from = d.from \/ (e.from = keep /\ d.from \in dups)
           /\ e.to = d.to \/ (e.to = keep /\ d.to \in dups)
    <3> HIDE DEF keep, dups
    <3> QED
      BY <1>1, <1>4, <2>1, MergedFrom
  <2> QED
    BY <1>3, <2>2
<1>9. \A d \in edges : \E e \in edges' : FlowOf(d) = FlowOf(e)
  <2> TAKE d \in edges
  <2>1. PICK e \in Incoming(Outgoing(edges, keep, dups), keep, dups) :
           /\ e.key = d.key /\ e.from \notin dups /\ e.to \notin dups
           /\ e.from = d.from \/ (e.from = keep /\ d.from \in dups)
           /\ e.to = d.to \/ (e.to = keep /\ d.to \in dups)
    <3> HIDE DEF keep, dups
    <3> QED
      BY <1>1, <1>4, MergedInto
  <2>2. e \in edges'
    BY <1>2, <2>1 DEF Merged
  <2> QED
    BY <1>3, <2>1, <2>2
<1>10. {FlowOf(e) : e \in edges'} = {FlowOf(e) : e \in edges}
  <2> HIDE DEF FlowOf
  <2> QED
    BY <1>8, <1>9
<1> QED
  BY <1>6, <1>7, <1>10

\* The node that is kept stands for the others, also as a contract.
LEMMA MergeKeepsKnown ==
    ASSUME GraphTypeOK, NEW a, NEW ids, Mergeable(a, ids), MergeGroup(a, ids)
    PROVE  KnownAccounts' = KnownAccounts /\ KnownContracts' = KnownContracts
<1> DEFINE keep == Min(ids)
           dups == ids \ {keep}
<1>1. keep \in ids /\ keep \in Node
  BY Kept
<1>2. accounts' = accounts \ dups /\ contracts' = MergedContracts(keep, dups)
  BY DEF MergeGroup
<1>3. \A n \in ids : Normal[address[n]] = Normal[address[keep]]
  BY <1>1 DEF Mergeable
<1>4. \A n \in Node : Normal[address'[n]] = Normal[address[n]]
  BY MergeKeepsAccountOf
<1>5. KnownAccounts' = {Normal[address[n]] : n \in accounts'}
  <2>1. KnownAccounts' = {Normal[address'[n]] : n \in accounts'}
    BY DEF KnownAccounts, AccountOf
  <2>2. accounts' \subseteq Node
    BY MergeTypes DEF GraphTypeOK
  <2> QED
    BY <1>4, <2>1, <2>2
<1>6. KnownContracts' = {Normal[address[n]] : n \in contracts'}
  <2>1. KnownContracts' = {Normal[address'[n]] : n \in contracts'}
    BY DEF KnownContracts, AccountOf
  <2>2. contracts' \subseteq Node
    BY MergeTypes DEF GraphTypeOK
  <2> QED
    BY <1>4, <2>1, <2>2
<1>7. {Normal[address[n]] : n \in accounts'} = {Normal[address[n]] : n \in accounts}
  <2>1. keep \in accounts'
    BY <1>1, <1>2 DEF Mergeable
  <2> HIDE DEF keep
  <2> QED
    BY <1>2, <1>3, <2>1
<1>8. {Normal[address[n]] : n \in contracts'} = {Normal[address[n]] : n \in contracts}
  <2>1. \A n \in contracts' : \E m \in contracts : Normal[address[n]] = Normal[address[m]]
    <3> HIDE DEF keep
    <3> QED
      BY <1>2, <1>3 DEF MergedContracts
  <2>2. \A n \in contracts : \E m \in contracts' : Normal[address[n]] = Normal[address[m]]
    <3> HIDE DEF keep
    <3> QED
      BY <1>2, <1>3 DEF MergedContracts
  <2> QED
    BY <2>1, <2>2
<1> QED
  BY <1>5, <1>6, <1>7, <1>8 DEF KnownAccounts, KnownContracts, AccountOf
-----------------------------------------------------------------------------
(***************************************************************************)
(* The steps of a repair.                                                  *)
(***************************************************************************)

LEMMA InvParts ==
    ASSUME RepairTypeOK
    PROVE  GraphTypeOK /\ BatchOK
BY DEF RepairTypeOK, GraphTypeOK, BatchOK

\* A group of the batch can be merged.
LEMMA GroupMergeable ==
    ASSUME RepairTypeOK, NEW g \in repairer.batch
    PROVE  Mergeable(g.address, g.ids)
<1>1. g.address \in Spelling /\ g.ids # {} /\ g.ids \subseteq accounts
  BY DEF RepairTypeOK, Repairer, Group
<1>2. PICK n \in g.ids : TRUE
  BY <1>1
<1>3. Normal[address[n]] = g.address /\ address[n] \in Spelling
  BY <1>1 DEF RepairTypeOK
<1>4. Normal[g.address] = g.address
  BY <1>3, RepairAssumption
<1> QED
  BY <1>1, <1>4 DEF RepairTypeOK, Mergeable

\* So can the nodes that hold the normalised address the error names.
LEMMA NamedMergeable ==
    ASSUME RepairTypeOK, NEW a \in Spelling, Cardinality(Holders(Normal[a])) > 1
    PROVE  Mergeable(Normal[a], Holders(Normal[a]))
<1>1. Normal[a] \in Spelling /\ Normal[Normal[a]] = Normal[a]
  BY RepairAssumption
<1>2. Holders(Normal[a]) # {}
  BY FS_EmptySet
<1> QED
  BY <1>1, <1>2 DEF Mergeable, Holders

LEMMA InitInv == RepairInit => RepairInv
<1> SUFFICES ASSUME RepairInit PROVE RepairInv
  OBVIOUS
<1>1. PICK g \in Graph : address = g.address /\ contracts = g.contracts /\ edges = g.edges
  BY DEF RepairInit
<1>2. g.address \in [Node -> Spelling] /\ g.contracts \subseteq Node /\ g.edges \subseteq Edge
  BY RepairAssumption
<1>3. repairer \in Repairer /\ repairer.batch = {} /\ repairer.pc = "off"
  BY DEF RepairInit, Repairer
<1> QED
  BY <1>1, <1>2, <1>3 DEF RepairInit, RepairInv, BatchDone, RepairTypeOK, BlanksRemain, FailsOnlyUnrepairable, Edge

LEMMA RepairGroupInv ==
    ASSUME RepairInv, NEW g \in repairer.batch, RepairGroup(g)
    PROVE  RepairInv'
<1> DEFINE rest == repairer.batch \ {g}
<1>1. /\ repairer' = [repairer EXCEPT !.pc = IF rest = {} THEN "groups" ELSE "merge", !.batch = rest]
      /\ UNCHANGED constraint
  BY DEF RepairGroup
<1>2. repairer \in Repairer /\ GraphTypeOK /\ BatchOK
  BY InvParts DEF RepairInv, RepairTypeOK
<1>3. repairer' \in Repairer /\ repairer'.batch = rest
      /\ repairer'.pc = IF rest = {} THEN "groups" ELSE "merge"
  BY <1>1, <1>2 DEF Repairer
<1>4. GraphTypeOK' /\ BatchOK'
  <2>1. CASE UNCHANGED graphVars
    BY <1>2, <1>3, <2>1 DEF graphVars, GraphTypeOK, BatchOK
  <2>2. CASE MergeGroup(g.address, g.ids)
    <3>1. Mergeable(g.address, g.ids)
      BY GroupMergeable DEF RepairInv
    <3>2. GraphTypeOK' /\ \A n \in Node : Normal[address'[n]] = Normal[address[n]]
      BY <1>2, <2>2, <3>1, MergeTypes, MergeKeepsAccountOf
    <3>3. accounts \ g.ids \subseteq accounts'
      BY <2>2 DEF MergeGroup
    <3>4. \A h \in rest : h.ids \subseteq accounts' /\ h.ids # {} /\ h.ids \subseteq Node
      BY <1>2, <3>3 DEF BatchOK, GraphTypeOK
    <3> QED
      BY <1>2, <1>3, <3>2, <3>4 DEF BatchOK
  <2> QED
    BY <2>1, <2>2 DEF RepairGroup
<1>5. constraint' \in BOOLEAN
  BY <1>1 DEF RepairInv, RepairTypeOK
<1> QED
  BY <1>3, <1>4, <1>5
     DEF RepairInv, BatchDone, RepairTypeOK, GraphTypeOK, BatchOK, BlanksRemain, FailsOnlyUnrepairable

LEMMA RepairNamedInv ==
    ASSUME RepairInv, NEW a \in Spelling, RepairNamed(a)
    PROVE  RepairInv'
<1> DEFINE b == Normal[a]
           keep == Min(Holders(b))
<1>1. /\ repairer.pc = "schema" /\ a \in Duplicated /\ b # Blank
      /\ MergeGroup(b, Holders(b)) /\ UNCHANGED <<constraint, repairer>>
      /\ Mergeable(b, Holders(b))
  BY NamedMergeable DEF RepairNamed, RepairInv
<1>2. GraphTypeOK /\ BatchOK /\ repairer.batch \subseteq Group
  BY InvParts DEF RepairInv, RepairTypeOK, Repairer
<1>3. GraphTypeOK'
  BY <1>1, <1>2, MergeTypes
<1>4. keep \in Holders(b) /\ keep \in Node
  BY <1>1, <1>2, Kept
<1>5. address' = address /\ accounts' = accounts \ (Holders(b) \ {keep})
  BY <1>1, <1>2, <1>4 DEF MergeGroup, Holders, GraphTypeOK
<1>6. \A c \in Spelling : c # b => Holders(c)' = Holders(c)
  BY <1>5 DEF Holders
<1>7. BlanksRemain'
  <2> SUFFICES ASSUME repairer.mode = "repair"
               PROVE  \E c \in Duplicated' : Normal[c] = Blank
    BY <1>1 DEF BlanksRemain
  <2>1. PICK c \in Duplicated : Normal[c] = Blank
    BY <1>1 DEF RepairInv, BlanksRemain
  <2>2. c \in Spelling /\ c # b /\ Cardinality(Holders(c)) > 1
    BY <1>1, <2>1, RepairAssumption DEF Duplicated
  <2>3. c \in Duplicated'
    BY <1>6, <2>2 DEF Duplicated
  <2> QED
    BY <2>1, <2>3
<1> QED
  <2>1. repairer.batch = {}
    BY <1>1 DEF RepairInv, BatchDone
  <2>2. RepairTypeOK'
    BY <1>1, <1>3, <2>1 DEF RepairInv, RepairTypeOK, GraphTypeOK
  <2>3. FailsOnlyUnrepairable'
    BY <1>1 DEF FailsOnlyUnrepairable
  <2> QED
    BY <1>1, <1>7, <2>1, <2>2, <2>3 DEF RepairInv, BatchDone
-----------------------------------------------------------------------------
\* Reading the groups: none is left out of an empty batch but those without an address.
LEMMA SomeDuplicate ==
    ASSUME RepairTypeOK, Duplicated # {}, NEW B \in Batches
    PROVE  B # {}
<1>1. accounts \subseteq Node /\ address \in [Node -> Spelling] /\ repairer.limit \in Nat \ {0}
  BY RepairAssumption DEF RepairTypeOK, Repairer
<1>2. IsFiniteSet(Duplicated)
  <2> DEFINE Used == {address[n] : n \in accounts}
  <2>1. IsFiniteSet(accounts)
    BY <1>1, RepairAssumption, FS_Subset
  <2>2. IsFiniteSet(Used)
    <3> DEFINE f == [n \in accounts |-> address[n]]
    <3>1. f \in Surjection(accounts, Used)
      BY DEF Surjection
    <3> QED
      BY <2>1, <3>1, FS_Surjection
  <2>3. Duplicated \subseteq Used
    <3> SUFFICES ASSUME NEW a \in Duplicated PROVE a \in Used
      OBVIOUS
    <3>1. Holders(a) # {}
      BY FS_EmptySet DEF Duplicated
    <3> QED
      BY <3>1 DEF Holders
  <2> QED
    BY <2>2, <2>3, FS_Subset
<1>3. Cardinality(Duplicated) \in Nat /\ Cardinality(Duplicated) # 0
  BY <1>2, FS_CardinalityType, FS_EmptySet
<1>4. Min({repairer.limit, Cardinality(Duplicated)}) \in {repairer.limit, Cardinality(Duplicated)}
  <2>1. {repairer.limit, Cardinality(Duplicated)} \in SUBSET Nat
    BY <1>1, <1>3
  <2> QED
    BY <2>1, MinOfNodes
<1>5. Cardinality(B) # 0
  BY <1>1, <1>3, <1>4 DEF Batches
<1> QED
  BY <1>5, FS_EmptySet

LEMMA LoadGroupsInv ==
    ASSUME RepairInv, LoadGroups
    PROVE  RepairInv'
<1>1. PICK B \in Batches :
         repairer' = IF Usable(B) = {} THEN [repairer EXCEPT !.pc = "schema"]
                     ELSE [repairer EXCEPT !.pc = "merge", !.batch = Usable(B)]
  BY DEF LoadGroups
<1>2. RepairTypeOK /\ GraphTypeOK /\ repairer \in Repairer /\ repairer.batch = {}
  BY InvParts DEF RepairInv, RepairTypeOK, BatchDone, LoadGroups
<1>3. UNCHANGED <<accounts, address, contracts, edges, constraint>>
  BY DEF LoadGroups, graphVars
<1>4. Duplicated' = Duplicated
  BY <1>3 DEF Duplicated, Holders
<1>5. CASE Usable(B) = {}
  <2>1. repairer' = [repairer EXCEPT !.pc = "schema"]
    BY <1>1, <1>5
  <2>2. repairer' \in Repairer /\ repairer'.pc = "schema" /\ repairer'.batch = {}
    BY <1>2, <2>1 DEF Repairer
  <2>3. \A b \in B : Normal[b] = Blank
    BY <1>5 DEF Usable
  <2>4. Duplicated = {} \/ \E a \in Duplicated : Normal[a] = Blank
    BY <1>2, <2>3, SomeDuplicate DEF Batches
  <2>5. RepairTypeOK' /\ BatchDone'
    BY <1>2, <1>3, <2>2 DEF RepairTypeOK, BatchDone
  <2>6. BlanksRemain' /\ FailsOnlyUnrepairable'
    BY <1>4, <2>2, <2>4 DEF BlanksRemain, FailsOnlyUnrepairable
  <2> QED
    BY <2>5, <2>6 DEF RepairInv
<1>6. CASE Usable(B) # {}
  <2>1. repairer' = [repairer EXCEPT !.pc = "merge", !.batch = Usable(B)]
    BY <1>1, <1>6
  <2>2. \A g \in Usable(B) :
           \E b \in Duplicated : b \in Spelling /\ g = [address |-> Normal[b], ids |-> Holders(b)]
    BY DEF Usable, Batches, Duplicated
  <2>3. \A b \in Spelling : Normal[b] \in Spelling /\ Holders(b) \subseteq accounts /\ accounts \subseteq Node
    BY <1>2, RepairAssumption DEF Holders, GraphTypeOK
  <2>4. Usable(B) \subseteq Group
    BY <2>2, <2>3 DEF Group
  <2>5. repairer' \in Repairer /\ repairer'.pc = "merge" /\ repairer'.batch = Usable(B)
    BY <1>2, <2>1, <2>4 DEF Repairer
  <2>6. \A g \in Usable(B) : g.ids # {} /\ g.ids \subseteq accounts
                            /\ \A n \in g.ids : Normal[address[n]] = g.address
    <3> TAKE g \in Usable(B)
    <3>1. PICK b \in Duplicated : b \in Spelling /\ g = [address |-> Normal[b], ids |-> Holders(b)]
      BY <2>2
    <3>2. Holders(b) # {}
      BY FS_EmptySet DEF Duplicated
    <3> QED
      BY <3>1, <3>2 DEF Holders
  <2>7. \A g, h \in Usable(B) : g # h => g.ids \cap h.ids = {}
    <3> TAKE g, h \in Usable(B)
    <3>1. PICK b \in Duplicated : g = [address |-> Normal[b], ids |-> Holders(b)]
      BY <2>2
    <3>2. PICK c \in Duplicated : h = [address |-> Normal[c], ids |-> Holders(c)]
      BY <2>2
    <3> QED
      BY <3>1, <3>2 DEF Holders
  <2>8. RepairTypeOK'
    BY <1>2, <1>3, <2>5, <2>6, <2>7 DEF RepairTypeOK
  <2>9. BatchDone' /\ BlanksRemain' /\ FailsOnlyUnrepairable'
    BY <2>5 DEF BatchDone, BlanksRemain, FailsOnlyUnrepairable
  <2> QED
    BY <2>8, <2>9 DEF RepairInv
<1> QED
  BY <1>5, <1>6

\* The steps that change no graph and no batch.
LEMMA PassiveInv ==
    ASSUME RepairInv, UNCHANGED graphVars, constraint' \in BOOLEAN, repairer' \in Repairer,
           repairer'.batch = {},
           BlanksRemain', FailsOnlyUnrepairable'
    PROVE  RepairInv'
BY DEF RepairInv, RepairTypeOK, graphVars, BatchDone

LEMMA GiveUpInv ==
    ASSUME RepairInv, NEW a \in Spelling, GiveUp(a)
    PROVE  RepairInv'
<1>1. repairer.pc = "schema" /\ a \in Duplicated /\ repairer' = [repairer EXCEPT !.pc = "failed"]
      /\ UNCHANGED graphVars /\ constraint' = constraint
  BY DEF GiveUp
<1>2. repairer \in Repairer /\ repairer.batch = {} /\ constraint \in BOOLEAN
  BY <1>1 DEF RepairInv, RepairTypeOK, BatchDone
<1>3. repairer' \in Repairer /\ repairer'.batch = {} /\ repairer'.pc = "failed"
      /\ repairer'.mode = repairer.mode
  BY <1>1, <1>2 DEF Repairer
<1>4. Duplicated' = Duplicated
  BY <1>1 DEF Duplicated, Holders, graphVars
<1>5. \E c \in Duplicated : Normal[c] = Blank \/ (repairer.mode = "start" /\ Normal[c] # c)
  <2>1. CASE repairer.mode = "repair"
    BY <1>1, <2>1 DEF RepairInv, BlanksRemain
  <2>2. CASE repairer.mode = "start"
    <3>1. CASE Normal[a] = Blank
      BY <1>1, <3>1
    <3>2. CASE Cardinality(Holders(Normal[a])) <= 1
      <4>1. Cardinality(Holders(a)) > 1 /\ IsFiniteSet(Holders(a)) /\ IsFiniteSet(Holders(Normal[a]))
        <5>1. IsFiniteSet(accounts)
          BY RepairAssumption, FS_Subset DEF RepairInv, RepairTypeOK
        <5>2. Holders(a) \subseteq accounts /\ Holders(Normal[a]) \subseteq accounts
          BY DEF Holders
        <5> QED
          BY <1>1, <5>1, <5>2, FS_Subset DEF Duplicated
      <4>2. Cardinality(Holders(a)) \in Nat
        BY <4>1, FS_CardinalityType
      <4>3. Normal[a] # a
        BY <3>2, <4>1, <4>2
      <4> QED
        BY <1>1, <2>2, <4>3
    <3> QED
      BY <3>1, <3>2 DEF GiveUp
  <2> QED
    BY <1>2, <2>1, <2>2 DEF Repairer
<1>6. BlanksRemain' /\ FailsOnlyUnrepairable'
  BY <1>3, <1>4, <1>5 DEF BlanksRemain, FailsOnlyUnrepairable
<1> QED
  BY <1>1, <1>2, <1>3, <1>6, PassiveInv

LEMMA NextInv ==
    ASSUME RepairInv, [RepairNext]_repairVars
    PROVE  RepairInv'
<1>1. ASSUME NEW mode \in {"repair", "start"}, Start(mode) PROVE RepairInv'
  <2>1. repairer \in Repairer /\ repairer.batch = {} /\ constraint \in BOOLEAN
    BY <1>1 DEF RepairInv, RepairTypeOK, BatchDone, Start
  <2>2. repairer' = [repairer EXCEPT !.pc = IF mode = "repair" THEN "groups" ELSE "schema", !.mode = mode]
        /\ UNCHANGED graphVars /\ constraint' = constraint
    BY <1>1 DEF Start
  <2>3. repairer' \in Repairer /\ repairer'.batch = {} /\ repairer'.mode = mode
        /\ repairer'.pc = IF mode = "repair" THEN "groups" ELSE "schema"
    BY <1>1, <2>1, <2>2 DEF Repairer
  <2>4. BlanksRemain' /\ FailsOnlyUnrepairable'
    BY <1>1, <2>3 DEF BlanksRemain, FailsOnlyUnrepairable
  <2> QED
    BY <2>1, <2>2, <2>3, <2>4, PassiveInv
<1>2. CASE CreateConstraint
  <2>1. repairer \in Repairer /\ repairer.batch = {}
    BY <1>2 DEF RepairInv, RepairTypeOK, BatchDone, CreateConstraint
  <2>2. repairer' \in Repairer /\ repairer'.batch = {} /\ repairer'.pc = "ready"
    BY <1>2, <2>1 DEF CreateConstraint, Repairer
  <2>3. BlanksRemain' /\ FailsOnlyUnrepairable'
    BY <2>2 DEF BlanksRemain, FailsOnlyUnrepairable
  <2> QED
    BY <1>2, <2>2, <2>3, PassiveInv DEF CreateConstraint
<1>3. CASE Stop
  <2>1. repairer \in Repairer /\ constraint \in BOOLEAN
    BY DEF RepairInv, RepairTypeOK
  <2>2. repairer' \in Repairer /\ repairer'.batch = {} /\ repairer'.pc = "off"
    BY <1>3, <2>1 DEF Stop, Repairer
  <2>3. BlanksRemain' /\ FailsOnlyUnrepairable'
    BY <2>2 DEF BlanksRemain, FailsOnlyUnrepairable
  <2> QED
    BY <1>3, <2>1, <2>2, <2>3, PassiveInv DEF Stop
<1>4. CASE UNCHANGED repairVars
  BY <1>4 DEF repairVars, graphVars, RepairInv, RepairTypeOK, BatchDone, BlanksRemain,
              FailsOnlyUnrepairable, Duplicated, Holders
<1> QED
  BY <1>1, <1>2, <1>3, <1>4, LoadGroupsInv, RepairGroupInv, RepairNamedInv, GiveUpInv
     DEF RepairNext, Repair, EnsureSchema

\* Types: no edge dangles, and a batch can be worked off in any order.
THEOREM RepairTypeCorrect == RepairSpec => []RepairTypeOK
<1>1. RepairInv => RepairTypeOK
  BY DEF RepairInv
<1> QED
  BY <1>1, InitInv, NextInv, PTL DEF RepairSpec

\* An operator's repair that is not interrupted fails only over nodes without an address; a
\* starting listener also over duplicates of a spelling that is not normalised.
THEOREM RepairFailsOnlyUnrepairable == RepairSpec => []FailsOnlyUnrepairable
<1>1. RepairInv => FailsOnlyUnrepairable
  BY DEF RepairInv
<1> QED
  BY <1>1, InitInv, NextInv, PTL DEF RepairSpec

\* No step of a repair, complete or interrupted, changes who paid whom, who is known, or who is
\* known as a contract.
THEOREM RepairKeepsFlows == RepairSpec => FlowsKept
<1> DEFINE Same == Flows' = Flows /\ KnownAccounts' = KnownAccounts /\ KnownContracts' = KnownContracts
<1>1. ASSUME RepairInv, RepairNext PROVE Same
  <2>1. GraphTypeOK /\ RepairTypeOK
    BY <1>1, InvParts DEF RepairInv
  <2>2. CASE UNCHANGED graphVars
    BY <2>2 DEF graphVars, Flows, KnownAccounts, KnownContracts, AccountOf
  <2>3. ASSUME NEW a, NEW ids, Mergeable(a, ids), MergeGroup(a, ids) PROVE Same
    BY <2>1, <2>3, MergeKeepsFlows, MergeKeepsKnown
  <2>4. ASSUME NEW g \in repairer.batch, RepairGroup(g) PROVE Same
    BY <2>1, <2>2, <2>3, <2>4, GroupMergeable DEF RepairGroup
  <2>5. ASSUME NEW a \in Spelling, RepairNamed(a) PROVE Same
    BY <2>1, <2>3, <2>5, NamedMergeable DEF RepairNamed
  <2>6. ASSUME NEW a \in Spelling, GiveUp(a) PROVE Same
    BY <2>2, <2>6 DEF GiveUp
  <2> QED
    BY <1>1, <2>2, <2>4, <2>5, <2>6
       DEF RepairNext, Repair, EnsureSchema, Start, Stop, LoadGroups, CreateConstraint
<1>2. ASSUME RepairInv, [RepairNext]_repairVars PROVE [Same]_repairVars
  BY <1>1, <1>2
<1> QED
  BY <1>2, InitInv, NextInv, PTL DEF RepairSpec, FlowsKept
=============================================================================

----------------------------- MODULE Maintenance -----------------------------
(***************************************************************************)
(* The derived data that runMaintenance of ingestion/maintenance.go keeps  *)
(* current: the hourly rollup (RefreshNetworkHourly) and the behaviour     *)
(* vectors of accounts (RebuildBehaviors), while transactions arrive.      *)
(*                                                                         *)
(* Both are kept as the rows they were computed from.  The loop's other    *)
(* calls are actions of ChainStore, EnrichmentQueue and ContractAnalysis.  *)
(***************************************************************************)
EXTENDS Integers, FiniteSetsExt

CONSTANTS
    Tx,             \* transaction hashes
    Address,        \* accounts
    AddressesOf,    \* transaction -> its sender and recipient
    Null,           \* no row
    Interval,       \* maintenanceInterval
    Lookback,       \* 24 hours: how far back a new process looks for active accounts
    SkipWindow,     \* 10 minutes: vectors younger than this are not rebuilt
    BehaviorBatch,  \* behaviorBatch: accounts per turn
    HourLength,     \* an hour
    RecentWindow,   \* rollupRecentWindow
    BackfillWindow, \* rollupBackfillWindow
    Latency,        \* how old a row may be when it is stored for the recent window to reach it
    Ages,           \* the ages rows may have when they are stored: nothing in the code bounds them
    MaxTurn,        \* how long a turn takes at most
    MaxTime,        \* bound on the clock
    MaxErrors,      \* bound: failing statements
    MaxRestarts     \* bound: restarts of the process

ASSUME MaintenanceAssumption ==
    /\ IsFiniteSet(Tx) /\ IsFiniteSet(Address)
    /\ AddressesOf \in [Tx -> SUBSET Address]
    /\ Null \notin Nat \cup [rows : SUBSET Tx, at : Nat]
    /\ {Interval, HourLength, BehaviorBatch} \subseteq Nat \ {0}
    /\ {Lookback, SkipWindow, RecentWindow, BackfillWindow, Latency, MaxTurn} \subseteq Nat
    /\ Ages \cup {MaxTime, MaxErrors, MaxRestarts} \subseteq Nat
    /\ Interval <= Lookback /\ MaxTurn <= Lookback

VARIABLES
    now,            \* the clock
    timestamps,     \* hash -> timestamp of its row in transactions
    arrived,        \* hash -> when the row was stored: for the properties, no code reads it
    rollup,         \* network_hourly: the rows counted, hour by hour
    vectors,        \* account_behavior_vectors: the rows a vector was computed from, updated_at
    loop,           \* runMaintenance: the call it makes next, with its locals
    errors, restarts

rowVars == <<now, timestamps, arrived>>
derivedVars == <<rollup, vectors>>
maintenanceVars == <<rowVars, derivedVars, loop, errors, restarts>>

Row == {t \in Tx : timestamps[t] # Null}

RowsOf(a) == {t \in Row : a \in AddressesOf[t]}

\* date_trunc('hour', time)
Hour(time) == time \div HourLength

Vector == [rows : SUBSET Tx, at : Nat]

\* since: behaviourSince; started: runStarted; batch: the accounts still to rebuild; account
\* and rows: the one being rebuilt and what its features were computed from; backfilled: the
\* first refresh of the process has not failed.
Loop ==
    [pc : {"backfill", "rollup", "select", "features", "store", "sleep"}, since : Int,
     started : Nat, batch : SUBSET Address, account : Address \cup {Null}, rows : SUBSET Tx,
     backfilled : BOOLEAN]

Starting(time) ==
    [pc |-> "backfill", since |-> time - Lookback, started |-> time, batch |-> {}, account |-> Null,
     rows |-> {}, backfilled |-> TRUE]

MaintenanceInit ==
    /\ now = 0
    /\ timestamps = [t \in Tx |-> Null] /\ arrived = [t \in Tx |-> Null]
    /\ rollup = {}
    /\ vectors = [a \in Address |-> Null]
    /\ loop = Starting(0)
    /\ errors = 0 /\ restarts = 0
-----------------------------------------------------------------------------
\* A conflict on the hash leaves the timestamp of the row as it is: without a new row, nothing
\* happens here.
Insert(txs) ==
    /\ txs \ Row # {}
    /\ \E time \in {now - age : age \in Ages} \cap Nat :
          timestamps' = [t \in Tx |-> IF t \in txs \ Row THEN time ELSE timestamps[t]]
    /\ arrived' = [t \in Tx |-> IF t \in txs \ Row THEN now ELSE arrived[t]]
    /\ UNCHANGED <<now, derivedVars, loop, errors, restarts>>

\* A pending transaction, observed before its save waited for locks and was tried again.
SaveTransaction(t) == Insert({t})

\* The transactions of a block, with the time of the block: that of a backfilled one is minutes
\* ago.
SaveBlock(txs) == Insert(txs)

\* The ticker wakes the loop in time, and a turn ends in time.
ClockTicks ==
    /\ now < MaxTime
    /\ now < loop.started + IF loop.pc = "sleep" THEN Interval ELSE MaxTurn
    /\ now' = now + 1
    /\ UNCHANGED <<timestamps, arrived, derivedVars, loop, errors, restarts>>

Error == errors < MaxErrors /\ errors' = errors + 1
-----------------------------------------------------------------------------
(***************************************************************************)
(* The rollup.                                                             *)
(***************************************************************************)

\* Mutant of Refreshed: the window is not widened to whole hours.
RefreshedFrom(since) ==
    LET windowed == {t \in Row : timestamps[t] >= since}
        hours == {Hour(timestamps[t]) : t \in windowed}
    IN {t \in rollup : Hour(timestamps[t]) \notin hours} \cup windowed

\* RefreshNetworkHourly: every hour that has a row in the window, which is widened to whole
\* hours, is counted anew.
Refreshed(since) ==
    LET windowed == {t \in Row : timestamps[t] >= Hour(since) * HourLength}
        hours == {Hour(timestamps[t]) : t \in windowed}
    IN {t \in rollup : Hour(timestamps[t]) \notin hours} \cup windowed

\* Mutant of Backfill: a new process refreshes the recent hours only.
BackfillRecent ==
    /\ loop.pc = "backfill"
    /\ loop' = [loop EXCEPT !.pc = "rollup", !.since = now - Lookback, !.started = now]
    /\ UNCHANGED <<rowVars, derivedVars, errors, restarts>>

\* The first refresh of a process reaches further back.
Backfill ==
    /\ loop.pc = "backfill"
    /\ \E ok \in BOOLEAN :
          /\ IF ok THEN rollup' = Refreshed(now - BackfillWindow) /\ UNCHANGED errors
                   ELSE Error /\ UNCHANGED rollup
          /\ loop' = [loop EXCEPT !.pc = "rollup", !.since = now - Lookback, !.started = now,
                                  !.backfilled = ok]
    /\ UNCHANGED <<rowVars, vectors, restarts>>

RefreshRecent ==
    /\ loop.pc = "rollup"
    /\ \/ rollup' = Refreshed(now - RecentWindow) /\ UNCHANGED errors
       \/ Error /\ UNCHANGED rollup
    /\ loop' = [loop EXCEPT !.pc = "select"]
    /\ UNCHANGED <<rowVars, vectors, restarts>>
-----------------------------------------------------------------------------
(***************************************************************************)
(* RebuildBehaviors.                                                       *)
(***************************************************************************)

Asleep(l) == [l EXCEPT !.pc = "sleep", !.batch = {}, !.account = Null, !.rows = {}]

\* Mutant of Finished: no overlap with the next turn.
FinishedAt(l) == [Asleep(l) EXCEPT !.since = l.started]

\* RebuildBehaviors returned without an error: the next turn looks back to the start of the
\* turn before this one.
Finished(l) == [Asleep(l) EXCEPT !.since = l.started - Interval]

\* Mutant of Failed: behaviourSince moves on although the rebuild failed.
FailedButDone(l) == Finished(l)

\* The error is logged and behaviourSince stays.
Failed(l) == Asleep(l)

\* Rows of the accounts that were active since behaviourSince and were not just rebuilt.
ActiveRows(a) == {t \in RowsOf(a) : timestamps[t] >= loop.since}

Selectable ==
    {a \in Address :
        /\ ActiveRows(a) # {}
        /\ vectors[a] = Null \/ vectors[a].at < now - SkipWindow}

\* Most active first, up to the limit.
Batches ==
    {B \in SUBSET Selectable :
        /\ Cardinality(B) = Min({BehaviorBatch, Cardinality(Selectable)})
        /\ \A a \in B, b \in Selectable \ B :
              Cardinality(ActiveRows(a)) >= Cardinality(ActiveRows(b))}

Select ==
    /\ loop.pc = "select"
    /\ \/ /\ \E B \in Batches :
                loop' = IF B = {} THEN Finished(loop)
                                  ELSE [loop EXCEPT !.pc = "features", !.batch = B]
          /\ UNCHANGED errors
       \/ Error /\ loop' = Failed(loop)
    /\ UNCHANGED <<rowVars, derivedVars, restarts>>

\* The first statement of RebuildAccountBehavior.
ComputeFeatures ==
    /\ loop.pc = "features"
    /\ \/ /\ \E a \in loop.batch :
                loop' = [loop EXCEPT !.pc = "store", !.account = a, !.rows = RowsOf(a)]
          /\ UNCHANGED errors
       \/ Error /\ loop' = Failed(loop)
    /\ UNCHANGED <<rowVars, derivedVars, restarts>>

\* Its second one, and the next account.
StoreVector ==
    LET rest == loop.batch \ {loop.account} IN
    /\ loop.pc = "store"
    /\ \/ /\ vectors' = [vectors EXCEPT ![loop.account] = [rows |-> loop.rows, at |-> now]]
          /\ loop' = IF rest = {} THEN Finished(loop)
                     ELSE [loop EXCEPT !.pc = "features", !.batch = rest, !.account = Null, !.rows = {}]
          /\ UNCHANGED errors
       \/ Error /\ loop' = Failed(loop) /\ UNCHANGED vectors
    /\ UNCHANGED <<rowVars, rollup, restarts>>
-----------------------------------------------------------------------------
Wake ==
    /\ loop.pc = "sleep"
    /\ loop' = [loop EXCEPT !.pc = "rollup", !.started = now]
    /\ UNCHANGED <<rowVars, derivedVars, errors, restarts>>

\* The process stops, and some time later a new one starts.
Restart ==
    /\ restarts < MaxRestarts /\ restarts' = restarts + 1
    /\ \E later \in now .. MaxTime : now' = later /\ loop' = Starting(later)
    /\ UNCHANGED <<timestamps, arrived, derivedVars, errors>>

RunMaintenance == Backfill \/ RefreshRecent \/ Select \/ ComputeFeatures \/ StoreVector \/ Wake

MaintenanceNext ==
    \/ \E t \in Tx : SaveTransaction(t)
    \/ \E txs \in SUBSET Tx : SaveBlock(txs)
    \/ ClockTicks
    \/ RunMaintenance
    \/ Restart

MaintenanceSpec == MaintenanceInit /\ [][MaintenanceNext]_maintenanceVars

\* The goroutine keeps running and its ticker ticks.
FairMaintenanceSpec == MaintenanceSpec /\ WF_maintenanceVars(RunMaintenance)
-----------------------------------------------------------------------------
(***************************************************************************)
(* Properties.                                                             *)
(***************************************************************************)

\* Only rows are counted and embedded, and an account is rebuilt from its own rows.
MaintenanceTypeOK ==
    /\ now \in Nat
    /\ timestamps \in [Tx -> (0 .. now) \cup {Null}]
    /\ arrived \in [Tx -> (0 .. now) \cup {Null}]
    /\ \A t \in Row : arrived[t] # Null /\ arrived[t] >= timestamps[t]
    /\ rollup \subseteq Row
    /\ vectors \in [Address -> Vector \cup {Null}]
    /\ \A a \in Address : vectors[a] # Null => vectors[a].at <= now /\ vectors[a].rows \subseteq RowsOf(a)
    /\ loop \in Loop
    /\ loop.pc = "store" => loop.account \in loop.batch /\ loop.rows \subseteq RowsOf(loop.account)
    /\ loop.started <= now
    /\ errors \in Nat /\ restarts \in Nat

\* A row that was counted stays counted: no refresh replaces the figures of an hour by those
\* of a part of it.
RollupNeverShrinks == [][rollup \subseteq rollup']_maintenanceVars

\* The recent window passed t before it was counted, because the first refresh of the process,
\* which is not repeated, failed, or because t was older than the window is meant for when it
\* was stored: t waits for the next start.
WaitsForRestart(t) ==
    /\ t \in Row /\ timestamps[t] < now - RecentWindow
    /\ ~loop.backfilled \/ arrived[t] > timestamps[t] + Latency

\* Every row reaches the rollup, in the hour it belongs to, also when a refresh failed, the
\* process stopped before it and the next one started only later.
RowsReachRollup == \A t \in Tx : t \in Row ~> t \in rollup \/ WaitsForRestart(t)

Reflected(t, a) == vectors[a] # Null /\ t \in vectors[a].rows

\* t was stored more than an interval after its timestamp, as the rows of backfilled blocks are:
\* behaviourSince may have passed it by then.
Late(t) == arrived[t] > timestamps[t] + Interval

\* t came before the ten minutes after a rebuild of a were over, in which a is not selected.
BeforeReselection(t, a) == vectors[a] # Null /\ arrived[t] <= vectors[a].at + SkipWindow

\* A new process looks back one day and no further.
BeforeLookback(t) == restarts # 0 /\ t \in Row /\ timestamps[t] < now - Lookback

\* t came after the turn began in which a was rebuilt last.
CameSinceRebuild(t, a) == vectors[a] # Null => arrived[t] >= vectors[a].at - MaxTurn

\* A transaction that the vector of its account does not reflect came since the rebuild of that
\* vector began, however old it is, and lies after behaviourSince, so that a later turn selects
\* the account.  Passed over, until the account is active again, are only rows that were stored
\* late, those right after a rebuild, and after a restart those older than a day: errors lose
\* nothing more.  Stated for batches that the limit does not cut off.
UnreflectedIsOwed ==
    Cardinality(Address) <= BehaviorBatch =>
        \A t \in Row : \A a \in AddressesOf[t] :
            \/ Reflected(t, a)
            \/ /\ CameSinceRebuild(t, a)
               /\ \/ timestamps[t] >= loop.since
                  \/ Late(t) \/ BeforeReselection(t, a) \/ BeforeLookback(t)

\* Every account with a transaction that was not stored late gets a vector, whatever failed on
\* the way, when the limit does not cut a batch off.  The code promises no more: an account known
\* from late rows alone, or from rows older than a day at a restart, may get none.
AccountGetsVector ==
    \A t \in Tx : \A a \in AddressesOf[t] :
        t \in Row /\ ~Late(t) /\ Cardinality(Address) <= BehaviorBatch
            ~> vectors[a] # Null \/ BeforeLookback(t)
=============================================================================

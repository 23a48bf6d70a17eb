----------------------------- MODULE LiveSnapshot -----------------------------
(***************************************************************************)
(* The live statistics of the API: runSnapshots and the hub of             *)
(* api/snapshot.go, ExactCounts and LiveCounts of store/postgres.go, and   *)
(* the streams of handleEventStream in api/server.go.                      *)
(*                                                                         *)
(* A snapshot is kept as the rows its transaction count stands for.  The   *)
(* listener and the database read one clock.  A payload is the address of  *)
(* its bytes, which the allocator may use again once nobody holds it,      *)
(* because a stream compares addresses to see what it has sent.            *)
(***************************************************************************)
EXTENDS Naturals, FiniteSetsExt

CONSTANTS
    Tx,             \* transaction hashes
    Client,         \* streams
    Buffer,         \* addresses of payloads
    Null,           \* no row, no counts, no payload
    MaxTime,        \* bound on the clock
    MaxFaults       \* bound on failing queries

\* The rows an exact count counted, and the time it is for.
Exact == [rows : SUBSET Tx, asOf : Nat]

ASSUME LiveAssumption ==
    /\ IsFiniteSet(Tx)
    /\ Null \notin Nat \cup Buffer \cup Exact
    /\ {MaxTime, MaxFaults} \subseteq Nat

VARIABLES
    now,            \* the clock
    timestamps,     \* hash -> timestamp of its row in transactions
    refresh,        \* runSnapshots: the call it makes next, with its locals
    latest,         \* hub: payload
    content,        \* payload -> the rows it counts
    stream,         \* client -> where handleEventStream is, with its locals
    faults

tableVars == <<now, timestamps>>
hubVars == <<latest, content>>
liveVars == <<tableVars, refresh, hubVars, stream, faults>>

Row == {t \in Tx : timestamps[t] # Null}

\* Rows of the exact count, and rows newer than it.
Counts == [exact : SUBSET Tx, newer : SUBSET Tx]

\* counting: what the statement of ExactCounts has counted; newer: what LiveCounts returned;
\* due: the exact counts are 30 s old.
Refresh ==
    [pc : {"tick", "count", "clock", "live", "publish"}, counting : SUBSET Tx,
     exact : Exact \cup {Null}, newer : SUBSET Tx, due : BOOLEAN]

\* payload: the one to write; woken: changed has been closed; sent: lastSent.
Stream ==
    [pc : {"off", "current", "write", "select"}, payload : Buffer \cup {Null},
     woken : BOOLEAN, sent : Buffer \cup {Null}]

Freed == [exact |-> {}, newer |-> {}]

Off == [pc |-> "off", payload |-> Null, woken |-> FALSE, sent |-> Null]

LiveInit ==
    /\ now = 0
    /\ timestamps = [t \in Tx |-> Null]
    /\ refresh = [pc |-> "tick", counting |-> {}, exact |-> Null, newer |-> {}, due |-> TRUE]
    /\ latest = Null
    /\ content = [b \in Buffer |-> Freed]
    /\ stream = [c \in Client |-> Off]
    /\ faults = 0
-----------------------------------------------------------------------------
(***************************************************************************)
(* The table and the clock.                                                *)
(***************************************************************************)

\* A transaction is stored some time after it was observed or its block was mined.  An
\* update leaves the timestamp alone, and rows are never deleted.
Store(t) ==
    /\ timestamps[t] = Null
    /\ \E observed \in 0 .. now : timestamps' = [timestamps EXCEPT ![t] = observed]
    /\ UNCHANGED <<now, refresh, hubVars, stream, faults>>

ClockTicks ==
    /\ now < MaxTime
    /\ now' = now + 1
    /\ UNCHANGED <<timestamps, refresh, hubVars, stream, faults>>

\* exactCountsInterval runs out.
CountsAge ==
    /\ refresh.exact # Null /\ ~refresh.due
    /\ refresh' = [refresh EXCEPT !.due = TRUE]
    /\ UNCHANGED <<tableVars, hubVars, stream, faults>>
-----------------------------------------------------------------------------
(***************************************************************************)
(* runSnapshots.                                                           *)
(***************************************************************************)
Fault == faults < MaxFaults /\ faults' = faults + 1

\* Mutant of Tick: the exact counts are read once.
TickOnce ==
    /\ refresh.pc = "tick"
    /\ refresh' = [refresh EXCEPT !.pc = IF refresh.exact = Null THEN "count" ELSE "live"]
    /\ UNCHANGED <<tableVars, hubVars, stream, faults>>

Tick ==
    /\ refresh.pc = "tick"
    /\ refresh' = [refresh EXCEPT !.pc = IF refresh.exact = Null \/ refresh.due THEN "count"
                                                                               ELSE "live"]
    /\ UNCHANGED <<tableVars, hubVars, stream, faults>>

\* ExactCounts: the statement sees the rows that are stored when it starts.  If it fails the
\* previous counts, if any, serve again.
CountRows ==
    /\ refresh.pc = "count"
    /\ \/ refresh' = [refresh EXCEPT !.pc = "clock", !.counting = Row] /\ UNCHANGED faults
       \/ /\ refresh' = [refresh EXCEPT !.pc = IF refresh.exact = Null THEN "tick" ELSE "live"]
          /\ Fault
    /\ UNCHANGED <<tableVars, hubVars, stream>>

\* Mutant of ReadClock: NOW() in place of clock_timestamp().
ReadClockOfTransaction ==
    /\ refresh.pc = "clock"
    /\ \E began \in 0 .. now :
          refresh' = [refresh EXCEPT !.pc = "live", !.due = FALSE, !.counting = {},
                                     !.exact = [rows |-> refresh.counting, asOf |-> began]]
    /\ UNCHANGED <<tableVars, hubVars, stream, faults>>

\* clock_timestamp() is later than the snapshot of the rows.
ReadClock ==
    /\ refresh.pc = "clock"
    /\ refresh' = [refresh EXCEPT !.pc = "live", !.due = FALSE, !.counting = {},
                                  !.exact = [rows |-> refresh.counting, asOf |-> now]]
    /\ UNCHANGED <<tableVars, hubVars, stream, faults>>

Newer == {t \in Row : timestamps[t] > refresh.exact.asOf}

\* Mutant of CountNewer: its error is ignored.
CountNewerOrNone ==
    /\ refresh.pc = "live"
    /\ \/ refresh' = [refresh EXCEPT !.pc = "publish", !.newer = Newer] /\ UNCHANGED faults
       \/ refresh' = [refresh EXCEPT !.pc = "publish", !.newer = {}] /\ Fault
    /\ UNCHANGED <<tableVars, hubVars, stream>>

\* LiveCounts, and the other queries of buildSnapshot.
CountNewer ==
    /\ refresh.pc = "live"
    /\ \/ refresh' = [refresh EXCEPT !.pc = "publish", !.newer = Newer] /\ UNCHANGED faults
       \/ refresh' = [refresh EXCEPT !.pc = "tick"] /\ Fault
    /\ UNCHANGED <<tableVars, hubVars, stream>>

Held == {latest} \cup UNION {{stream[c].payload, stream[c].sent} : c \in Client}

\* Addresses are alike: which free one is taken makes no difference.
Allocate(counts) ==
    LET free == Buffer \ Held
        address == CHOOSE b \in free : TRUE
    IN
    /\ free # {}
    /\ latest' = address
    /\ content' = [b \in Buffer |->
                     CASE b = address -> counts
                       [] b \in Held -> content[b]
                       [] OTHER -> Freed]

\* Mutant of Publish: changed is replaced and not closed.
PublishQuietly ==
    /\ refresh.pc = "publish"
    /\ Allocate([exact |-> refresh.exact.rows, newer |-> refresh.newer])
    /\ refresh' = [refresh EXCEPT !.pc = "tick", !.newer = {}]
    /\ UNCHANGED <<tableVars, stream, faults>>

\* publish: a new payload, and changed is closed for everyone who holds it.
Publish ==
    /\ refresh.pc = "publish"
    /\ Allocate([exact |-> refresh.exact.rows, newer |-> refresh.newer])
    /\ refresh' = [refresh EXCEPT !.pc = "tick", !.newer = {}]
    /\ stream' = [c \in Client |->
                    IF stream[c].pc \in {"write", "select"} THEN [stream[c] EXCEPT !.woken = TRUE]
                                                            ELSE stream[c]]
    /\ UNCHANGED <<tableVars, faults>>

RunSnapshots == Tick \/ CountRows \/ ReadClock \/ CountNewer \/ Publish
-----------------------------------------------------------------------------
(***************************************************************************)
(* handleEventStream.                                                      *)
(***************************************************************************)
Connect(c) ==
    /\ stream[c].pc = "off"
    /\ stream' = [stream EXCEPT ![c].pc = "current"]
    /\ UNCHANGED <<tableVars, refresh, hubVars, faults>>

\* current, and whether its payload is one to send.
Current(c) ==
    /\ stream[c].pc = "current"
    /\ stream' = [stream EXCEPT ![c] =
                    IF latest # Null /\ latest # stream[c].sent
                    THEN [stream[c] EXCEPT !.pc = "write", !.payload = latest, !.woken = FALSE]
                    ELSE [stream[c] EXCEPT !.pc = "select", !.woken = FALSE]]
    /\ UNCHANGED <<tableVars, refresh, hubVars, faults>>

Write(c) ==
    /\ stream[c].pc = "write"
    /\ stream' = [stream EXCEPT ![c] = [stream[c] EXCEPT !.pc = "select", !.sent = stream[c].payload,
                                                         !.payload = Null]]
    /\ UNCHANGED <<tableVars, refresh, hubVars, faults>>

Wake(c) ==
    /\ stream[c].pc = "select" /\ stream[c].woken
    /\ stream' = [stream EXCEPT ![c].pc = "current"]
    /\ UNCHANGED <<tableVars, refresh, hubVars, faults>>

Heartbeat(c) ==
    /\ stream[c].pc = "select"
    /\ stream' = [stream EXCEPT ![c].pc = "current"]
    /\ UNCHANGED <<tableVars, refresh, hubVars, faults>>

\* The client leaves or a write fails.
Disconnect(c) ==
    /\ stream[c].pc # "off"
    /\ stream' = [stream EXCEPT ![c] = Off]
    /\ UNCHANGED <<tableVars, refresh, hubVars, faults>>

Serve(c) == Current(c) \/ Write(c) \/ Wake(c)

LiveNext ==
    \/ \E t \in Tx : Store(t)
    \/ ClockTicks \/ CountsAge
    \/ RunSnapshots
    \/ \E c \in Client : Serve(c) \/ Connect(c) \/ Heartbeat(c) \/ Disconnect(c)

LiveSpec == LiveInit /\ [][LiveNext]_liveVars

\* The ticker ticks, the interval passes and open streams are served.  Nobody waits for a
\* heartbeat.
FairLiveSpec ==
    /\ LiveSpec
    /\ WF_liveVars(RunSnapshots) /\ WF_liveVars(CountsAge)
    /\ \A c \in Client : WF_liveVars(Serve(c))
-----------------------------------------------------------------------------
(***************************************************************************)
(* Properties.                                                             *)
(***************************************************************************)
Covered(b) == content[b].exact \cup content[b].newer

\* exact.TransactionCount + live.NewTransactionsSince.
TransactionCount(b) == Cardinality(content[b].exact) + Cardinality(content[b].newer)

\* A stream that is about to write has something to write, and the counts a snapshot is
\* built from are there when it is built.
LiveTypeOK ==
    /\ now \in 0 .. MaxTime
    /\ timestamps \in [Tx -> (0 .. now) \cup {Null}]
    /\ refresh \in Refresh
    /\ refresh.pc \in {"live", "publish"} => refresh.exact # Null
    /\ latest \in Buffer \cup {Null}
    /\ content \in [Buffer -> Counts]
    /\ stream \in [Client -> Stream]
    /\ \A c \in Client : stream[c].pc = "write" => stream[c].payload # Null
    /\ faults \in 0 .. MaxFaults

\* The count is never above the number of rows: no row is both in the exact count and newer
\* than it, though rows arrive while the counts are taken.
NothingCountedTwice ==
    \A b \in Buffer : TransactionCount(b) <= Cardinality(Row)

\* An open stream never sees the count fall: not when exact counts replace older ones with
\* their newer rows, nor when the address of a payload is used again.
ShownCountNeverFalls ==
    [][\A c \in Client :
        stream[c].sent # Null /\ stream'[c].sent # Null
        => TransactionCount(stream[c].sent) <= TransactionCount(stream[c].sent)']_liveVars

\* A stream that waits for the next change has sent the last one: none is published between
\* taking the payload and waiting without waking it.
SleeperHasLatest ==
    \A c \in Client : stream[c].pc = "select" /\ ~stream[c].woken => stream[c].sent = latest

\* An open stream shows every stored row again and again, also rows with an old timestamp,
\* which only the next exact count sees.
StreamCatchesUp ==
    \A c \in Client :
        []<>(stream[c].pc = "off" \/ (stream[c].sent # Null /\ Row \subseteq Covered(stream[c].sent)))
=============================================================================

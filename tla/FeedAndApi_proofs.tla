------------------------- MODULE FeedAndApi_proofs --------------------------
(***************************************************************************)
(* Proofs about PendingFeed and about ApiRequests: how transactions get    *)
(* from the node into the process, and what its HTTP API does with         *)
(* requests.  The two share no state.                                      *)
(*                                                                         *)
(* The feed, for any number of transactions, workers and accounts and any  *)
(* capacity of the channels: types, that it loses nothing without a trace, *)
(* and which sessions can deadlock.  The API, for any number of requests,  *)
(* clients and addresses: types, the rate limiter and the cached lookups.  *)
(***************************************************************************)
EXTENDS PendingFeed, ApiRequests, TLAPS, FiniteSetTheorems, SequenceTheorems, WellFoundedInduction

LEMMA FeedConstants ==
    /\ Tx \subseteq Nat \ {0} /\ Address \subseteq Nat /\ 0 \notin Tx /\ IsFiniteSet(Tx)
    /\ Block \in Session /\ Maintenance \in Session /\ Worker \subseteq Session
    /\ Block # Maintenance /\ Block \notin Worker /\ Maintenance \notin Worker
    /\ Session = Worker \cup {Block, Maintenance}
    /\ InBuffer \in Nat \ {0} /\ OutBuffer \in Nat \ {0} /\ JobsBuffer \in Nat \ {0}
    /\ Limits \subseteq [announced : Nat, blocks : Nat, sweeps : Nat, drops : Nat, hangs : Nat]
    /\ MaxAttempts \in Nat \ {0}
    /\ BlockPlans \subseteq Seq(Row)
    /\ AccountsOf \in [Tx -> Seq(Address)] /\ \A t \in Tx : Len(AccountsOf[t]) \in 1 .. 2
BY FeedAssumption, LockAssumption DEF FeedAssumption, LockAssumption

(***************************************************************************)
(* Sequences of transactions as the channels hold them.                    *)
(***************************************************************************)

Ascending(s) == \A i, j \in DOMAIN s : i < j => s[i] < s[j]

\* Everything in A comes before everything in B.
Below(A, B) == \A a \in A, b \in B : a < b

LEMMA ShortChannels ==
    /\ ToSet(<<>>) = {} /\ Ascending(<<>>)
    /\ \A t : ToSet(<<t>>) = {t} /\ Ascending(<<t>>)
BY DEF ToSet, Ascending

LEMMA ChannelTyped ==
    ASSUME NEW s \in Seq(Tx)
    PROVE  ToSet(s) \subseteq Tx /\ (s # <<>> => Head(s) \in ToSet(s) /\ Head(s) \in Tx)
BY DEF ToSet

LEMMA Sent ==
    ASSUME NEW s \in Seq(Tx), NEW t \in Tx
    PROVE  /\ Append(s, t) \in Seq(Tx) /\ Len(Append(s, t)) = Len(s) + 1
           /\ ToSet(Append(s, t)) = ToSet(s) \cup {t}
           /\ Ascending(s) /\ Below(ToSet(s), {t}) => Ascending(Append(s, t))
<1>1. /\ Append(s, t) \in Seq(Tx) /\ Len(Append(s, t)) = Len(s) + 1 /\ Len(s) \in Nat
      /\ DOMAIN s = 1 .. Len(s) /\ DOMAIN Append(s, t) = 1 .. (Len(s) + 1)
      /\ \A i \in 1 .. Len(s) : Append(s, t)[i] = s[i]
      /\ Append(s, t)[Len(s) + 1] = t
  OBVIOUS
<1>2. ToSet(Append(s, t)) = ToSet(s) \cup {t}
  <2>1. ASSUME NEW x \in ToSet(Append(s, t)) PROVE x \in ToSet(s) \cup {t}
    <3>1. PICK i \in 1 .. (Len(s) + 1) : x = Append(s, t)[i]
      BY <1>1 DEF ToSet
    <3>2. CASE i = Len(s) + 1
      BY <1>1, <3>1, <3>2
    <3>3. CASE i \in 1 .. Len(s)
      BY <1>1, <3>1, <3>3 DEF ToSet
    <3> QED
      BY <1>1, <3>2, <3>3
  <2>2. ASSUME NEW x \in ToSet(s) PROVE x \in ToSet(Append(s, t))
    <3>1. PICK i \in 1 .. Len(s) : x = s[i]
      BY <1>1 DEF ToSet
    <3>2. i \in 1 .. (Len(s) + 1) /\ x = Append(s, t)[i]
      BY <1>1, <3>1
    <3> QED
      BY <1>1, <3>2 DEF ToSet
  <2>3. t \in ToSet(Append(s, t))
    <3>1. Len(s) + 1 \in 1 .. (Len(s) + 1)
      BY <1>1
    <3> QED
      BY <1>1, <3>1 DEF ToSet
  <2> QED
    BY <2>1, <2>2, <2>3
<1>3. ASSUME Ascending(s), Below(ToSet(s), {t}) PROVE Ascending(Append(s, t))
  <2>1. SUFFICES ASSUME NEW i \in 1 .. (Len(s) + 1), NEW j \in 1 .. (Len(s) + 1), i < j
                 PROVE  Append(s, t)[i] < Append(s, t)[j]
    BY <1>1 DEF Ascending
  <2>2. i \in 1 .. Len(s) /\ Append(s, t)[i] = s[i] /\ s[i] \in ToSet(s)
    BY <1>1, <2>1 DEF ToSet
  <2>3. CASE j = Len(s) + 1
    BY <1>1, <1>3, <2>2, <2>3 DEF Below
  <2>4. CASE j \in 1 .. Len(s)
    BY <1>1, <1>3, <2>1, <2>2, <2>4 DEF Ascending
  <2> QED
    BY <1>1, <2>3, <2>4
<1> QED
  BY <1>1, <1>2, <1>3

LEMMA Received ==
    ASSUME NEW s \in Seq(Tx), s # <<>>
    PROVE  /\ Head(s) \in Tx /\ Tail(s) \in Seq(Tx) /\ Len(Tail(s)) = Len(s) - 1
           /\ ToSet(s) = {Head(s)} \cup ToSet(Tail(s))
           /\ Ascending(s) => Ascending(Tail(s)) /\ Below({Head(s)}, ToSet(Tail(s)))
<1>1. /\ Head(s) \in Tx /\ Tail(s) \in Seq(Tx) /\ Len(Tail(s)) = Len(s) - 1 /\ Len(s) \in Nat \ {0}
      /\ DOMAIN s = 1 .. Len(s) /\ DOMAIN Tail(s) = 1 .. (Len(s) - 1)
      /\ \A i \in 1 .. (Len(s) - 1) : Tail(s)[i] = s[i + 1]
      /\ Head(s) = s[1]
  OBVIOUS
<1>2. ToSet(s) = {Head(s)} \cup ToSet(Tail(s))
  <2>1. ASSUME NEW x \in ToSet(s) PROVE x \in {Head(s)} \cup ToSet(Tail(s))
    <3>1. PICK i \in 1 .. Len(s) : x = s[i]
      BY <1>1 DEF ToSet
    <3>2. CASE i = 1
      BY <1>1, <3>1, <3>2
    <3>3. CASE i # 1
      <4>1. i - 1 \in 1 .. (Len(s) - 1) /\ (i - 1) + 1 = i
        BY <1>1, <3>3
      <4>2. Tail(s)[i - 1] = x
        BY <1>1, <3>1, <4>1
      <4> QED
        BY <1>1, <4>1, <4>2 DEF ToSet
    <3> QED
      BY <3>2, <3>3
  <2>2. ASSUME NEW x \in ToSet(Tail(s)) PROVE x \in ToSet(s)
    <3>1. PICK i \in 1 .. (Len(s) - 1) : x = Tail(s)[i]
      BY <1>1 DEF ToSet
    <3>2. i + 1 \in 1 .. Len(s) /\ x = s[i + 1]
      BY <1>1, <3>1
    <3> QED
      BY <1>1, <3>2 DEF ToSet
  <2>3. Head(s) \in ToSet(s)
    <3>1. 1 \in 1 .. Len(s)
      BY <1>1
    <3> QED
      BY <1>1, <3>1 DEF ToSet
  <2> QED
    BY <2>1, <2>2, <2>3
<1>3. ASSUME Ascending(s) PROVE Ascending(Tail(s)) /\ Below({Head(s)}, ToSet(Tail(s)))
  <2>1. ASSUME NEW i \in 1 .. (Len(s) - 1), NEW j \in 1 .. (Len(s) - 1), i < j
        PROVE  Tail(s)[i] < Tail(s)[j]
    <3>1. i + 1 \in 1 .. Len(s) /\ j + 1 \in 1 .. Len(s) /\ i + 1 < j + 1
      BY <1>1, <2>1
    <3> QED
      BY <1>1, <1>3, <3>1 DEF Ascending
  <2>2. ASSUME NEW x \in ToSet(Tail(s)) PROVE Head(s) < x
    <3>1. PICK i \in 1 .. (Len(s) - 1) : x = Tail(s)[i]
      BY <1>1 DEF ToSet
    <3>2. 1 \in 1 .. Len(s) /\ i + 1 \in 1 .. Len(s) /\ 1 < i + 1 /\ x = s[i + 1]
      BY <1>1, <3>1
    <3> QED
      BY <1>1, <1>3, <3>2 DEF Ascending
  <2> QED
    BY <1>1, <2>1, <2>2 DEF Ascending, Below
<1> QED
  BY <1>1, <1>2, <1>3

LEMMA Joined ==
    ASSUME NEW s \in Seq(Tx), NEW r \in Seq(Tx)
    PROVE  /\ s \o r \in Seq(Tx) /\ Len(s \o r) = Len(s) + Len(r)
           /\ ToSet(s \o r) = ToSet(s) \cup ToSet(r)
           /\ Ascending(s \o r) <=> Ascending(s) /\ Ascending(r) /\ Below(ToSet(s), ToSet(r))
<1> DEFINE c == s \o r
           m == Len(s)
           n == Len(r)
<1>1. /\ c \in Seq(Tx) /\ Len(c) = m + n /\ m \in Nat /\ n \in Nat
      /\ DOMAIN s = 1 .. m /\ DOMAIN r = 1 .. n /\ DOMAIN c = 1 .. (m + n)
      /\ \A i \in 1 .. m : c[i] = s[i]
      /\ \A i \in 1 .. n : c[m + i] = r[i]
  OBVIOUS
<1> HIDE DEF c, m, n
<1>2. ASSUME NEW i \in 1 .. (m + n), i \notin 1 .. m
      PROVE  i - m \in 1 .. n /\ m + (i - m) = i /\ c[i] = r[i - m]
  <2>1. i - m \in 1 .. n /\ m + (i - m) = i
    BY <1>1, <1>2
  <2> QED
    BY <1>1, <2>1
<1>3. \A i \in 1 .. n : m + i \in 1 .. (m + n)
  BY <1>1
<1>4. \A i \in 1 .. m : i \in 1 .. (m + n)
  BY <1>1
<1>5. ToSet(c) = ToSet(s) \cup ToSet(r)
  <2>1. ASSUME NEW x \in ToSet(c) PROVE x \in ToSet(s) \cup ToSet(r)
    <3>1. PICK i \in 1 .. (m + n) : x = c[i]
      BY <1>1 DEF ToSet
    <3> QED
      BY <1>1, <1>2, <3>1 DEF ToSet
  <2>2. ToSet(s) \subseteq ToSet(c)
    BY <1>1, <1>4 DEF ToSet
  <2>3. ToSet(r) \subseteq ToSet(c)
    BY <1>1, <1>3 DEF ToSet
  <2> QED
    BY <2>1, <2>2, <2>3
<1>6. ASSUME Ascending(c) PROVE Ascending(s) /\ Ascending(r) /\ Below(ToSet(s), ToSet(r))
  <2>1. Ascending(s)
    BY <1>1, <1>4, <1>6 DEF Ascending
  <2>2. ASSUME NEW i \in 1 .. n, NEW j \in 1 .. n, i < j PROVE r[i] < r[j]
    <3>1. m + i < m + j
      BY <1>1, <2>2
    <3> QED
      BY <1>1, <1>3, <1>6, <3>1 DEF Ascending
  <2>3. ASSUME NEW i \in 1 .. m, NEW j \in 1 .. n PROVE s[i] < r[j]
    <3>1. i < m + j
      BY <1>1
    <3> QED
      BY <1>1, <1>3, <1>4, <1>6, <3>1 DEF Ascending
  <2> QED
    BY <1>1, <2>1, <2>2, <2>3 DEF Ascending, Below, ToSet
<1>7. ASSUME Ascending(s), Ascending(r), Below(ToSet(s), ToSet(r)) PROVE Ascending(c)
  <2>1. SUFFICES ASSUME NEW i \in 1 .. (m + n), NEW j \in 1 .. (m + n), i < j PROVE c[i] < c[j]
    BY <1>1 DEF Ascending
  <2>2. CASE i \in 1 .. m /\ j \in 1 .. m
    BY <1>1, <1>7, <2>1, <2>2 DEF Ascending
  <2>3. CASE i \in 1 .. m /\ j \notin 1 .. m
    <3>1. c[i] = s[i] /\ c[j] = r[j - m] /\ s[i] \in ToSet(s) /\ r[j - m] \in ToSet(r)
      BY <1>1, <1>2, <2>3 DEF ToSet
    <3> QED
      BY <1>7, <3>1 DEF Below
  <2>4. CASE i \notin 1 .. m
    <3>1. j \notin 1 .. m
      BY <1>1, <2>1, <2>4
    <3>2. i - m < j - m
      BY <1>1, <2>1
    <3>3. /\ i - m \in 1 .. n /\ c[i] = r[i - m]
          /\ j - m \in 1 .. n /\ c[j] = r[j - m]
      BY <1>2, <2>4, <3>1
    <3>4. r[i - m] < r[j - m]
      BY <1>1, <1>7, <3>2, <3>3 DEF Ascending
    <3> QED
      BY <3>3, <3>4
  <2> QED
    BY <2>2, <2>3, <2>4
<1> QED
  BY <1>1, <1>5, <1>6, <1>7 DEF c, m, n
-----------------------------------------------------------------------------
(***************************************************************************)
(* The database transactions and their row locks.                          *)
(***************************************************************************)

Transaction ==
    [pc : {"idle", "locking", "backoff"}, plan : Seq(Row), locked : Nat, attempt : 0 .. MaxAttempts]

\* A transaction that waits to be tried again has no locks and may be tried again.
SessionOK(s) ==
    /\ session[s].locked <= Len(session[s].plan)
    /\ session[s].pc = "idle" => session[s] = Idle
    /\ session[s].pc = "backoff" => session[s].locked = 0 /\ session[s].attempt < MaxAttempts

LocksDisjoint == \A s, q \in Session : s # q => Held(s) \cap Held(q) = {}

SessionsOK ==
    /\ session \in [Session -> Transaction]
    /\ \A s \in Session : SessionOK(s)
    /\ LocksDisjoint

LEMMA SessionsTyped == SessionsOK => SessionTypeOK(Row)
<1> SUFFICES ASSUME SessionsOK, NEW s \in Session
             PROVE  /\ session[s].pc \in {"idle", "locking", "backoff"}
                    /\ session[s].plan \in Seq(Row)
                    /\ session[s].locked \in 0 .. Len(session[s].plan)
                    /\ session[s].attempt \in 0 .. MaxAttempts
                    /\ \A q \in Session \ {s} : Held(s) \cap Held(q) = {}
  BY DEF SessionTypeOK
<1>1. session[s] \in Transaction /\ SessionOK(s)
  BY DEF SessionsOK
<1>2. Len(session[s].plan) \in Nat
  BY <1>1 DEF Transaction
<1> QED
  BY <1>1, <1>2 DEF SessionsOK, Transaction, SessionOK, LocksDisjoint

LEMMA IdleOK == Idle \in Transaction /\ Idle.pc = "idle" /\ Idle.locked = 0 /\ Len(Idle.plan) = 0
<1>1. Idle.plan = <<>> /\ <<>> \in Seq(Row)
  BY DEF Idle
<1> QED
  BY <1>1, FeedConstants DEF Idle, Transaction

\* One transaction is replaced by one that has no more locks.
LEMMA Replaced ==
    ASSUME SessionsOK, NEW s \in Session, NEW x \in Transaction, session' = [session EXCEPT ![s] = x],
           x.locked = 0, x.pc = "idle" => x = Idle, x.pc = "backoff" => x.attempt < MaxAttempts
    PROVE  SessionsOK'
<1>1. session' \in [Session -> Transaction] /\ session'[s] = x
      /\ \A q \in Session \ {s} : session'[q] = session[q]
  BY DEF SessionsOK
<1>2. Held(s)' = {}
  BY <1>1 DEF Held
<1>3. \A q \in Session \ {s} : Held(q)' = Held(q)
  BY <1>1 DEF Held
<1>4. LocksDisjoint'
  BY <1>2, <1>3 DEF SessionsOK, LocksDisjoint
<1>5. Len(x.plan) \in Nat
  BY DEF Transaction
<1>6. \A q \in Session : SessionOK(q)'
  BY <1>1, <1>5 DEF SessionsOK, SessionOK
<1> QED
  BY <1>1, <1>4, <1>6 DEF SessionsOK

LEMMA BeginOK ==
    ASSUME SessionsOK, NEW s \in Session, NEW plan \in Seq(Row), Begin(s, plan)
    PROVE  SessionsOK'
<1> DEFINE x == [pc |-> "locking", plan |-> plan, locked |-> 0, attempt |-> 1]
<1>1. x \in Transaction
  BY FeedConstants DEF Transaction
<1>2. session' = [session EXCEPT ![s] = x]
  BY DEF Begin
<1> QED
  BY <1>1, <1>2, Replaced

LEMMA ReleaseOK == ASSUME SessionsOK, NEW s \in Session, Release(s) PROVE SessionsOK'
BY IdleOK, Replaced DEF Release

LEMMA RetryLaterOK ==
    ASSUME SessionsOK, NEW s \in Session, ~GivesUp(s), RetryLater(s)
    PROVE  SessionsOK'
<1> DEFINE x == [session[s] EXCEPT !.pc = "backoff", !.locked = 0]
<1>1. session[s] \in Transaction
  BY DEF SessionsOK
<1>2. x \in Transaction /\ x.attempt = session[s].attempt /\ x.locked = 0 /\ x.pc = "backoff"
  BY <1>1 DEF Transaction
<1>3. x.attempt < MaxAttempts
  BY <1>1, <1>2, FeedConstants DEF GivesUp, Transaction
<1>4. session' = [session EXCEPT ![s] = x]
  BY DEF RetryLater, SessionsOK
<1> HIDE DEF x
<1> QED
  BY <1>2, <1>3, <1>4, Replaced

LEMMA RetryOK == ASSUME SessionsOK, NEW s \in Session, Retry(s) PROVE SessionsOK'
<1> DEFINE x == [session[s] EXCEPT !.pc = "locking", !.locked = 0, !.attempt = @ + 1]
<1>1. session[s] \in Transaction /\ session[s].attempt < MaxAttempts
  BY DEF SessionsOK, SessionOK, Retry
<1>2. x \in Transaction /\ x.locked = 0 /\ x.pc = "locking"
  <2>1. session[s].attempt + 1 \in 0 .. MaxAttempts
    BY <1>1, FeedConstants DEF Transaction
  <2> QED
    BY <1>1, <2>1 DEF Transaction
<1>3. session' = [session EXCEPT ![s] = x]
  BY DEF Retry, SessionsOK
<1> HIDE DEF x
<1> QED
  BY <1>2, <1>3, Replaced

LEMMA LockRowOK ==
    ASSUME SessionsOK, NEW s \in Session, LockRow(s)
    PROVE  /\ SessionsOK'
           /\ session'[s].plan = session[s].plan /\ session'[s] # Idle
           /\ \A q \in Session \ {s} : session'[q] = session[q]
<1> DEFINE x == [session[s] EXCEPT !.locked = @ + 1]
           n == session[s].locked + 1
           row == session[s].plan[n]
<1>1. /\ session[s] \in Transaction /\ session[s].pc = "locking"
      /\ session[s].locked < Len(session[s].plan) /\ Len(session[s].plan) \in Nat
  BY DEF SessionsOK, LockRow, Transaction
<1>2. /\ x \in Transaction /\ x.locked = n /\ x.pc = "locking" /\ x.plan = session[s].plan
      /\ n \in Nat /\ n <= Len(session[s].plan)
  BY <1>1 DEF Transaction
<1>3. /\ session' \in [Session -> Transaction] /\ session'[s] = x
      /\ \A q \in Session \ {s} : session'[q] = session[q]
  BY <1>2 DEF LockRow, SessionsOK
<1>4. \A q \in Session \ {s} : row \notin Held(q)
  BY <1>1 DEF LockRow, WaitsFor
<1>5. Held(s)' = Held(s) \cup {row}
  <2>1. 1 .. n = 1 .. session[s].locked \cup {n} /\ session[s].locked \in Nat
    BY <1>1 DEF Transaction
  <2>2. Held(s)' = {session[s].plan[i] : i \in 1 .. n}
    BY <1>2, <1>3 DEF Held
  <2> HIDE DEF n
  <2> QED
    BY <2>1, <2>2 DEF Held
<1>6. \A q \in Session \ {s} : Held(q)' = Held(q)
  BY <1>3 DEF Held
<1>7. LocksDisjoint'
  <2>1. ASSUME NEW p \in Session, NEW q \in Session, p # q PROVE Held(p)' \cap Held(q)' = {}
    <3>1. Held(p) \cap Held(q) = {}
      BY <2>1 DEF SessionsOK, LocksDisjoint
    <3> HIDE DEF row
    <3> QED
      BY <1>4, <1>5, <1>6, <2>1, <3>1
  <2> QED
    BY <2>1 DEF LocksDisjoint
<1> HIDE DEF x
<1>8. \A q \in Session : SessionOK(q)'
  BY <1>1, <1>2, <1>3 DEF SessionsOK, SessionOK
<1>9. session'[s] # Idle
  BY <1>2, <1>3 DEF Idle
<1> QED
  BY <1>2, <1>3, <1>7, <1>8, <1>9 DEF SessionsOK
-----------------------------------------------------------------------------
(***************************************************************************)
(* The type invariant.                                                     *)
(***************************************************************************)

StreamType == [pc : {"subscribe", "pump", "forward", "stopped"}, in : Seq(Tx), item : Seq(Tx)]

StreamOK ==
    /\ stream \in StreamType
    /\ Len(stream.in) <= InBuffer
    /\ Len(stream.item) = IF stream.pc = "forward" THEN 1 ELSE 0
    /\ stream.pc \in {"subscribe", "stopped"} => stream.in = <<>>

ChannelsOK ==
    /\ StreamOK
    /\ out \in Seq(Tx) /\ Len(out) <= OutBuffer
    /\ jobs \in Seq(Tx) /\ Len(jobs) <= JobsBuffer
    /\ loop \in {"loop", "waiting", "returned"}

Work == {<<>>, Stopped} \cup {<<t>> : t \in Tx}

WorkOK ==
    /\ work \in [Worker -> Work]
    /\ \A w \in Worker : (session[w] # Idle) = (work[w] \notin {<<>>, Stopped})

LeftOK ==
    /\ outcome \in [Tx -> {"unseen", "moving", "saved", "gone"}]
    /\ left \in [announced : Nat, blocks : Nat, sweeps : Nat, drops : Nat, hangs : Nat]

PendingInv == SessionsOK /\ ChannelsOK /\ WorkOK /\ LeftOK

LEMMA PendingInvTyped == PendingInv => PendingTypeOK
BY SessionsTyped DEF PendingInv, PendingTypeOK, ChannelsOK, StreamOK, StreamType, WorkOK, LeftOK

\* The parts of the stream, one by one.
LEMMA StreamParts ==
    ASSUME ChannelsOK
    PROVE  /\ stream.in \in Seq(Tx) /\ stream.item \in Seq(Tx) /\ out \in Seq(Tx) /\ jobs \in Seq(Tx)
           /\ {Len(stream.in), Len(stream.item), Len(out), Len(jobs)} \subseteq Nat
<1>1. /\ stream.in \in Seq(Tx) /\ stream.item \in Seq(Tx) /\ out \in Seq(Tx) /\ jobs \in Seq(Tx)
  BY DEF ChannelsOK, StreamOK, StreamType
<1>2. {Len(stream.in), Len(stream.item), Len(out), Len(jobs)} \subseteq Nat
  <2>1. \A s \in Seq(Tx) : Len(s) \in Nat
    OBVIOUS
  <2> QED
    BY <1>1, <2>1
<1> QED
  BY <1>1, <1>2

LEMMA StreamBecomes ==
    ASSUME NEW pc \in {"subscribe", "pump", "forward", "stopped"}, NEW in \in Seq(Tx), NEW item \in Seq(Tx),
           stream' = [pc |-> pc, in |-> in, item |-> item],
           Len(in) <= InBuffer, Len(item) = IF pc = "forward" THEN 1 ELSE 0,
           pc \in {"subscribe", "stopped"} => in = <<>>
    PROVE  StreamOK'
BY DEF StreamOK, StreamType

\* Without an item to forward.
LEMMA StreamEmptied ==
    ASSUME NEW pc \in {"subscribe", "pump", "stopped"}, NEW in \in Seq(Tx), Len(in) <= InBuffer,
           stream' = [pc |-> pc, in |-> in, item |-> <<>>], pc # "pump" => in = <<>>
    PROVE  StreamOK'
<1>1. <<>> \in Seq(Tx) /\ Len(<<>>) = 0
  OBVIOUS
<1>2. PICK none \in Seq(Tx) : none = <<>> /\ Len(none) = 0
  BY <1>1
<1>3. stream' = [pc |-> pc, in |-> in, item |-> none]
  BY <1>2
<1>4. /\ pc \in {"subscribe", "pump", "forward", "stopped"} /\ (pc \in {"subscribe", "stopped"} => in = <<>>)
      /\ pc # "forward"
  OBVIOUS
<1>5. Len(none) = IF pc = "forward" THEN 1 ELSE 0
  BY <1>2, <1>4
<1> QED
  BY <1>3, <1>4, <1>5, StreamBecomes

LEMMA EmptyChannel == <<>> \in Seq(Tx) /\ Len(<<>>) = 0 /\ 0 <= InBuffer /\ 0 <= OutBuffer
BY FeedConstants

LEMMA BecomesTyped ==
    ASSUME LeftOK, NEW items, NEW what \in {"unseen", "moving", "saved", "gone"}, Becomes(items, what)
    PROVE  /\ outcome' \in [Tx -> {"unseen", "moving", "saved", "gone"}]
           /\ \A t \in Tx : outcome'[t] = IF t \in ToSet(items) THEN what ELSE outcome[t]
BY DEF LeftOK, Becomes

LEMMA OnceTyped ==
    ASSUME LeftOK, NEW what \in {"announced", "blocks", "sweeps", "drops", "hangs"}, Once(what)
    PROVE  left' \in [announced : Nat, blocks : Nat, sweeps : Nat, drops : Nat, hangs : Nat]
BY DEF LeftOK, Once

\* What a worker may hold.
LEMMA WorkValues ==
    /\ <<>> \in Work /\ Stopped \in Work /\ <<>> # Stopped
    /\ \A t \in Tx : <<t>> \in Work /\ <<t>> \notin {<<>>, Stopped}
    /\ \A x \in Work : x \notin {<<>>, Stopped} => \E t \in Tx : x = <<t>>
    /\ ToSet(Stopped) = {0}
BY FeedConstants, ShortChannels DEF Work, Stopped

LEMMA PendingInvInit == PendingInit => PendingInv
<1> SUFFICES ASSUME PendingInit PROVE PendingInv
  OBVIOUS
<1> USE DEF PendingInit
<1>1. SessionsOK
  <2>1. \A s \in Session : session[s] = Idle /\ Held(s) = {}
    BY DEF Held, Idle
  <2> QED
    BY <2>1, IdleOK DEF SessionsOK, SessionOK, LocksDisjoint
<1>2. ChannelsOK
  <2>1. <<>> \in Seq(Tx) /\ Len(<<>>) = 0
    OBVIOUS
  <2> QED
    BY <2>1, FeedConstants DEF ChannelsOK, StreamOK, StreamType
<1>3. WorkOK
  BY FeedConstants, WorkValues DEF WorkOK
<1>4. LeftOK
  BY FeedConstants DEF LeftOK
<1> QED
  BY <1>1, <1>2, <1>3, <1>4 DEF PendingInv

\* The rows of the accounts of a transaction, then its own.
LEMMA PlanExists ==
    ASSUME NEW S \in SUBSET Address, NEW a \in Address, NEW b \in Address, S = {a, b}
    PROVE  /\ Sorted(S) \in Seq(Address)
           /\ \A i, j \in DOMAIN Sorted(S) : i < j => Sorted(S)[i] < Sorted(S)[j]
<1>1. Address \subseteq Nat
  BY FeedConstants
<1> DEFINE Sequences == {s \in SetToSeqs(S) : \A i, j \in DOMAIN s : i < j => s[i] < s[j]}
<1>2. Sequences # {}
  <2>1. CASE a = b
    <3>1. Cardinality(S) = 1
      BY <2>1, FS_Singleton
    <3>2. <<a>> \in [1 .. 1 -> S] /\ \A i, j \in 1 .. 1 : i = j
      OBVIOUS
    <3>3. <<a>> \in SetToSeqs(S)
      BY <3>1, <3>2 DEF SetToSeqs
    <3>4. \A i, j \in DOMAIN <<a>> : ~(i < j)
      OBVIOUS
    <3> QED
      BY <3>3, <3>4
  <2>2. ASSUME NEW c \in S, NEW d \in S, c < d, S = {c, d} PROVE Sequences # {}
    <3>1. c # d /\ c \in Nat /\ d \in Nat
      BY <1>1, <2>2
    <3>2. Cardinality({c}) = 1 /\ IsFiniteSet({c})
      BY FS_Singleton
    <3>3. Cardinality({c} \cup {d}) = 2
      BY <3>1, <3>2, FS_AddElement
    <3>4. Cardinality(S) = 2
      <4>1. S = {c} \cup {d}
        BY <2>2
      <4> QED
        BY <3>3, <4>1
    <3>5. /\ <<c, d>> \in [1 .. 2 -> S] /\ DOMAIN <<c, d>> = 1 .. 2
          /\ <<c, d>>[1] = c /\ <<c, d>>[2] = d
      OBVIOUS
    <3>6. \A i, j \in 1 .. 2 : i < j => i = 1 /\ j = 2
      OBVIOUS
    <3>7. \A i, j \in 1 .. 2 : i # j => <<c, d>>[i] # <<c, d>>[j]
      BY <3>1, <3>5
    <3>8. <<c, d>> \in SetToSeqs(S)
      BY <3>4, <3>5, <3>7 DEF SetToSeqs
    <3>9. \A i, j \in DOMAIN <<c, d>> : i < j => <<c, d>>[i] < <<c, d>>[j]
      BY <2>2, <3>5, <3>6
    <3> QED
      BY <3>8, <3>9
  <2>3. CASE a < b
    BY <2>2, <2>3
  <2>4. CASE b < a
    BY <2>2, <2>4
  <2> QED
    BY <1>1, <2>1, <2>3, <2>4
<1>3. Sorted(S) \in Sequences
  BY <1>2 DEF Sorted
<1>4. Sorted(S) \in [1 .. Cardinality(S) -> S]
  BY <1>3 DEF SetToSeqs
<1>5. Cardinality(S) \in Nat
  <2>1. IsFiniteSet({a, b})
    <3>1. IsFiniteSet({a})
      BY FS_Singleton
    <3>2. IsFiniteSet({a} \cup {b})
      BY <3>1, FS_AddElement
    <3>3. {a} \cup {b} = {a, b}
      OBVIOUS
    <3> QED
      BY <3>2, <3>3
  <2> QED
    BY <2>1, FS_CardinalityType
<1>6. Sorted(S) \in Seq(Address)
  <2>1. PICK n \in Nat : n = Cardinality(S)
    BY <1>5
  <2>2. PICK s \in [1 .. n -> Address] : s = Sorted(S)
    BY <1>4, <2>1
  <2>3. s \in Seq(Address)
    OBVIOUS
  <2> QED
    BY <2>2, <2>3
<1> QED
  BY <1>3, <1>6

LEMMA PlanRows ==
    ASSUME NEW t \in Tx
    PROVE  LET plan == PendingPlan(t)
               n == Len(PendingPlan(t))
           IN
           /\ plan \in Seq(Row) /\ n \in Nat \ {0} /\ plan[n] = TxRow(t)
           /\ \A i \in 1 .. (n - 1) : \E a \in Address : plan[i] = Account(a)
           /\ \A i, j \in 1 .. (n - 1) : i < j => plan[i].key < plan[j].key
<1> DEFINE S == ToSet(AccountsOf[t])
           accounts == Sorted(S)
           rows == AccountRows(accounts)
           m == Len(accounts)
<1>1. S \subseteq Address /\ \E a, b \in Address : S = {a, b}
  <2>1. /\ AccountsOf[t] \in Seq(Address) /\ Len(AccountsOf[t]) \in {1, 2}
        /\ DOMAIN AccountsOf[t] = 1 .. Len(AccountsOf[t])
    BY FeedConstants
  <2>2. CASE Len(AccountsOf[t]) = 1
    <3>1. 1 .. 1 = {1}
      OBVIOUS
    <3>2. S = {AccountsOf[t][1], AccountsOf[t][1]} /\ AccountsOf[t][1] \in Address
      BY <2>1, <2>2, <3>1 DEF ToSet
    <3> QED
      BY <3>2
  <2>3. CASE Len(AccountsOf[t]) = 2
    <3>1. 1 .. 2 = {1, 2}
      OBVIOUS
    <3>2. S = {AccountsOf[t][1], AccountsOf[t][2]} /\ AccountsOf[t][1] \in Address /\ AccountsOf[t][2] \in Address
      BY <2>1, <2>3, <3>1 DEF ToSet
    <3> QED
      BY <3>2
  <2> QED
    BY <2>1, <2>2, <2>3
<1>2. accounts \in Seq(Address) /\ \A i, j \in DOMAIN accounts : i < j => accounts[i] < accounts[j]
  <2> HIDE DEF S
  <2> QED
    BY <1>1, PlanExists
<1> HIDE DEF accounts
<1>3. m \in Nat /\ DOMAIN accounts = 1 .. m /\ \A i \in 1 .. m : accounts[i] \in Address
  BY <1>2
<1>4. /\ rows \in Seq(Row) /\ Len(rows) = m /\ DOMAIN rows = 1 .. m
      /\ \A i \in 1 .. m : rows[i] = Account(accounts[i])
  <2>1. rows = [i \in 1 .. m |-> Account(accounts[i])]
    BY <1>3 DEF AccountRows
  <2>2. \A i \in 1 .. m : Account(accounts[i]) \in Row
    BY <1>3 DEF Account, Row
  <2> HIDE DEF m, rows
  <2> QED
    BY <1>3, <2>1, <2>2
<1> HIDE DEF rows
<1>5. TxRow(t) \in Row
  BY DEF TxRow, Row
<1>6. PendingPlan(t) = Append(rows, TxRow(t))
  BY DEF PendingPlan, rows, accounts
<1>7. /\ PendingPlan(t) \in Seq(Row) /\ Len(PendingPlan(t)) = m + 1 /\ PendingPlan(t)[m + 1] = TxRow(t)
      /\ \A i \in 1 .. m : PendingPlan(t)[i] = Account(accounts[i])
  BY <1>3, <1>4, <1>5, <1>6
<1>8. \A i, j \in 1 .. m : i < j => PendingPlan(t)[i].key < PendingPlan(t)[j].key
  <2>1. \A a : Account(a).key = a
    BY DEF Account
  <2>2. \A i \in 1 .. m : PendingPlan(t)[i].key = accounts[i]
    BY <1>7, <2>1
  <2> QED
    BY <1>2, <1>3, <2>2
<1>9. (m + 1) - 1 = m
  BY <1>3
<1> QED
  BY <1>3, <1>7, <1>8, <1>9

\* What a session runs is typed: BlockPlans is, and so are the rows a sweep finds.
LEMMA SweepRows ==
    ASSUME LeftOK, NEW plan \in Sweeps
    PROVE  /\ plan \in Seq(Row)
           /\ \A i \in DOMAIN plan : \E t \in Tx : plan[i] = TxRow(t) /\ outcome[t] = "saved"
<1> DEFINE saved == {t \in Tx : outcome[t] = "saved"}
<1>1. PICK S \in SUBSET saved : \E rows \in SetToSeqs(S) : plan = [i \in DOMAIN rows |-> TxRow(rows[i])]
  BY DEF Sweeps, SetToAllKPermutations
<1>2. PICK rows \in SetToSeqs(S) : plan = [i \in DOMAIN rows |-> TxRow(rows[i])]
  BY <1>1
<1>3. rows \in [1 .. Cardinality(S) -> S]
  BY <1>2 DEF SetToSeqs
<1>4. \A i \in DOMAIN plan : rows[i] \in S /\ plan[i] = TxRow(rows[i])
  BY <1>2, <1>3
<1>5. \A i \in DOMAIN plan : plan[i] \in Row
  BY <1>4 DEF TxRow, Row
<1>6. PICK n \in Nat : n = Cardinality(S)
  <2>1. S \in SUBSET Tx
    OBVIOUS
  <2> QED
    BY <2>1, FeedConstants, FS_Subset, FS_CardinalityType
<1>7. DOMAIN plan = 1 .. n
  BY <1>2, <1>3, <1>6
<1>8. plan = [i \in 1 .. n |-> plan[i]]
  BY <1>2, <1>3, <1>6
<1>9. plan \in Seq(Row)
  BY <1>5, <1>7, <1>8
<1> QED
  BY <1>4, <1>9

\* The sessions' part of a step, whatever else it does.
LEMMA SessionStep ==
    ASSUME PendingInv, NEW s \in Session
    PROVE  /\ \A plan \in Seq(Row) : Begin(s, plan) => SessionsOK'
           /\ LockRow(s) \/ Release(s) \/ Retry(s) \/ (~GivesUp(s) /\ RetryLater(s)) => SessionsOK'
BY BeginOK, LockRowOK, ReleaseOK, RetryOK, RetryLaterOK DEF PendingInv

\* A session ends: a worker is free again.
LEMMA EndsOK ==
    ASSUME PendingInv, NEW s \in Session, NEW what \in {"saved", "gone"}, Ends(s, what)
    PROVE  /\ SessionsOK' /\ WorkOK'
           /\ outcome' \in [Tx -> {"unseen", "moving", "saved", "gone"}]
<1>1. SessionsOK'
  BY SessionStep DEF Ends
<1>2. session'[s] = Idle /\ \A q \in Session \ {s} : session'[q] = session[q]
  BY DEF Ends, Release, PendingInv, SessionsOK
<1>3. WorkOK'
  <2>1. CASE s \in Worker
    <3>1. work' = [work EXCEPT ![s] = <<>>]
      BY <2>1 DEF Ends
    <3>2. work' \in [Worker -> Work] /\ work'[s] = <<>> /\ \A w \in Worker \ {s} : work'[w] = work[w]
      BY <2>1, <3>1, WorkValues DEF PendingInv, WorkOK
    <3> QED
      BY <1>2, <2>1, <3>2, FeedConstants DEF PendingInv, WorkOK
  <2>2. CASE s \notin Worker
    BY <1>2, <2>2, FeedConstants DEF Ends, PendingInv, WorkOK
  <2> QED
    BY <2>1, <2>2
<1>4. outcome' \in [Tx -> {"unseen", "moving", "saved", "gone"}]
  <2>1. CASE s \in Worker
    BY <2>1, BecomesTyped DEF Ends, PendingInv
  <2>2. CASE s \notin Worker
    BY <2>2 DEF Ends, PendingInv, LeftOK
  <2> QED
    BY <2>1, <2>2
<1> QED
  BY <1>1, <1>3, <1>4

LEMMA PendingInvStep == PendingInv /\ [PendingNext]_pendingVars => PendingInv'
<1> SUFFICES ASSUME PendingInv, [PendingNext]_pendingVars PROVE PendingInv'
  OBVIOUS
<1> USE DEF feedVars
<1>0. SessionsOK /\ ChannelsOK /\ WorkOK /\ LeftOK
  BY DEF PendingInv
<1>1. ASSUME UNCHANGED session
      PROVE  SessionsOK' /\ (UNCHANGED work => WorkOK')
  <2>1. \A s : Held(s)' = Held(s)
    BY <1>1 DEF Held
  <2>2. LocksDisjoint' /\ \A s \in Session : SessionOK(s)'
    BY <1>0, <1>1, <2>1 DEF SessionsOK, SessionOK, LocksDisjoint
  <2> QED
    BY <1>0, <1>1, <2>2 DEF SessionsOK, WorkOK
<1>2. ASSUME UNCHANGED feedVars PROVE ChannelsOK'
  BY <1>0, <1>2 DEF ChannelsOK, StreamOK
<1>3. ASSUME UNCHANGED <<outcome, left>> PROVE LeftOK'
  BY <1>0, <1>3 DEF LeftOK
<1>4. ASSUME NEW items, NEW what \in {"moving", "saved", "gone"}, Becomes(items, what), UNCHANGED left
      PROVE  LeftOK'
  BY <1>0, <1>4, BecomesTyped DEF LeftOK
<1>5. ASSUME NEW t \in Tx, Announce(t) PROVE PendingInv'
  <2>1. LeftOK'
    BY <1>0, <1>5, BecomesTyped, OnceTyped DEF Announce, LeftOK
  <2>2. ChannelsOK'
    <3>1. Append(stream.in, t) \in Seq(Tx) /\ Len(Append(stream.in, t)) = Len(stream.in) + 1
          /\ Len(stream.in) \in Nat
      BY <1>0, StreamParts, Sent
    <3>2. CASE Subscribed
      <4>1. PICK in \in Seq(Tx) : in = Append(stream.in, t)
        BY <3>1
      <4>2. stream' = [stream EXCEPT !.in = in] /\ Len(in) <= InBuffer
        BY <1>5, <3>1, <3>2, <4>1, FeedConstants DEF Announce
      <4>3. /\ stream' \in StreamType /\ stream'.in = in
            /\ stream'.pc = stream.pc /\ stream'.item = stream.item
        BY <1>0, <4>2 DEF ChannelsOK, StreamOK, StreamType
      <4>4. stream.pc \in {"pump", "forward"}
        BY <3>2 DEF Subscribed
      <4>5. StreamOK'
        BY <1>0, <4>2, <4>3, <4>4 DEF ChannelsOK, StreamOK
      <4> QED
        BY <1>0, <1>5, <4>5 DEF Announce, ChannelsOK
    <3>3. CASE ~Subscribed
      BY <1>0, <1>5, <3>3 DEF Announce, ChannelsOK, StreamOK
    <3> QED
      BY <3>2, <3>3
  <2> QED
    BY <1>1, <1>5, <2>1, <2>2 DEF Announce, PendingInv
<1>6. CASE Drop
  <2>1. LeftOK'
    BY <1>0, <1>6, BecomesTyped, OnceTyped DEF Drop, LeftOK
  <2>2. ChannelsOK'
    <3>1. /\ stream' \in StreamType /\ stream'.in = <<>>
          /\ stream'.pc = "subscribe" /\ stream'.item = stream.item
      BY <1>0, <1>6, EmptyChannel DEF Drop, ChannelsOK, StreamOK, StreamType
    <3>2. StreamOK'
      BY <1>0, <1>6, <3>1, EmptyChannel DEF Drop, ChannelsOK, StreamOK
    <3> QED
      BY <1>0, <1>6, <3>2 DEF Drop, ChannelsOK
  <2> QED
    BY <1>1, <1>6, <2>1, <2>2 DEF Drop, PendingInv
<1>7. CASE Subscribe
  <2>1. ChannelsOK'
    <3>1. StreamOK'
      BY <1>7, EmptyChannel, StreamEmptied DEF Subscribe
    <3> QED
      BY <1>0, <1>7, <3>1 DEF Subscribe, ChannelsOK
  <2> QED
    BY <1>1, <1>3, <1>7, <2>1 DEF Subscribe, PendingInv
<1>8. CASE TakeItem
  <2>1. Head(stream.in) \in Tx /\ Tail(stream.in) \in Seq(Tx) /\ Len(Tail(stream.in)) = Len(stream.in) - 1
        /\ Len(stream.in) \in Nat
    BY <1>0, <1>8, StreamParts, Received DEF TakeItem
  <2>2. <<Head(stream.in)>> \in Seq(Tx) /\ Len(<<Head(stream.in)>>) = 1
    BY <2>1
  <2>3. Len(Tail(stream.in)) <= InBuffer
    BY <1>0, <2>1, FeedConstants DEF ChannelsOK, StreamOK
  <2>4. StreamOK'
    BY <1>8, <2>1, <2>2, <2>3, StreamBecomes DEF TakeItem
  <2>5. ChannelsOK'
    BY <1>0, <1>8, <2>4 DEF TakeItem, ChannelsOK
  <2> QED
    BY <1>1, <1>3, <1>8, <2>5 DEF TakeItem, PendingInv
<1>9. CASE Forward
  <2>1. Len(stream.item) = 1 /\ Len(out) < OutBuffer
    BY <1>0, <1>9 DEF Forward, ChannelsOK, StreamOK
  <2>2. out \o stream.item \in Seq(Tx) /\ Len(out \o stream.item) <= OutBuffer
    <3>1. out \o stream.item \in Seq(Tx) /\ Len(out \o stream.item) = Len(out) + Len(stream.item)
      BY <1>0, StreamParts, Joined
    <3>2. Len(out) \in Nat
      BY <1>0, StreamParts
    <3> QED
      BY <2>1, <3>1, <3>2, FeedConstants
  <2>3. /\ stream' \in StreamType /\ stream'.in = stream.in
        /\ stream'.pc = "pump" /\ stream'.item = <<>>
    BY <1>0, <1>9, EmptyChannel DEF Forward, ChannelsOK, StreamOK, StreamType
  <2>4. StreamOK'
    BY <1>0, <2>3, EmptyChannel DEF ChannelsOK, StreamOK
  <2>5. ChannelsOK'
    BY <1>0, <1>9, <2>2, <2>4 DEF Forward, ChannelsOK
  <2> QED
    BY <1>1, <1>3, <1>9, <2>5 DEF Forward, PendingInv
<1>10. CASE StopStream
  <2>1. ChannelsOK'
    <3>1. StreamOK'
      BY <1>10, EmptyChannel, StreamEmptied DEF StopStream
    <3> QED
      BY <1>0, <1>10, <3>1 DEF StopStream, ChannelsOK
  <2> QED
    BY <1>1, <1>4, <1>10, <2>1 DEF StopStream, PendingInv
<1>11. CASE Receive
  <2>1. /\ Head(out) \in Tx /\ Tail(out) \in Seq(Tx) /\ Len(Tail(out)) <= OutBuffer
    BY <1>0, <1>11, Received, FeedConstants DEF Receive, ChannelsOK
  <2>2. Append(jobs, Head(out)) \in Seq(Tx) /\ Len(Append(jobs, Head(out))) = Len(jobs) + 1 /\ Len(jobs) \in Nat
    BY <1>0, <2>1, Sent DEF ChannelsOK
  <2>3. jobs' \in Seq(Tx) /\ Len(jobs') <= JobsBuffer
    <3>1. CASE Len(jobs) < JobsBuffer
      <4>1. jobs' = Append(jobs, Head(out))
        BY <1>11, <3>1 DEF Receive
      <4>2. Len(jobs') = Len(jobs) + 1 /\ Len(jobs) \in Nat /\ jobs' \in Seq(Tx)
        BY <2>2, <4>1
      <4> QED
        BY <3>1, <4>2, FeedConstants
    <3>2. CASE ~(Len(jobs) < JobsBuffer)
      BY <1>0, <1>11, <3>2 DEF Receive, ChannelsOK
    <3> QED
      BY <3>1, <3>2
  <2>4. ChannelsOK'
    BY <1>0, <1>11, <2>1, <2>3 DEF Receive, ChannelsOK, StreamOK
  <2>5. LeftOK'
    BY <1>3, <1>4, <1>11 DEF Receive
  <2> QED
    BY <1>1, <1>11, <2>4, <2>5 DEF Receive, PendingInv
<1>12. CASE EndLoop \/ ReturnFromRun
  <2>1. ChannelsOK'
    BY <1>0, <1>12 DEF EndLoop, ReturnFromRun, ChannelsOK, StreamOK
  <2> QED
    BY <1>1, <1>3, <1>12, <2>1 DEF EndLoop, ReturnFromRun, PendingInv
<1>13. ASSUME NEW w \in Worker, TakeJob(w) PROVE PendingInv'
  <2> DEFINE t == Head(jobs)
  <2>1. /\ t \in Tx /\ Tail(jobs) \in Seq(Tx) /\ Len(Tail(jobs)) <= JobsBuffer /\ w \in Session
    BY <1>0, <1>13, Received, FeedConstants DEF TakeJob, ChannelsOK
  <2>2. ChannelsOK'
    BY <1>0, <1>13, <2>1 DEF TakeJob, ChannelsOK, StreamOK
  <2>3. CASE t \in Invalid \/ cancelled
    BY <1>1, <1>4, <1>13, <2>2, <2>3 DEF TakeJob, PendingInv
  <2>4. CASE ~(t \in Invalid \/ cancelled)
    <3>1. SessionsOK'
      BY <1>13, <2>1, <2>4, PlanRows, SessionStep DEF TakeJob
    <3>2. /\ session' = [session EXCEPT ![w] =
                [pc |-> "locking", plan |-> PendingPlan(t), locked |-> 0, attempt |-> 1]]
          /\ work' = [work EXCEPT ![w] = <<t>>]
      BY <1>13, <2>4 DEF TakeJob, Begin
    <3>3. /\ session'[w] # Idle /\ \A q \in Session \ {w} : session'[q] = session[q]
          /\ work'[w] = <<t>> /\ \A q \in Worker \ {w} : work'[q] = work[q]
          /\ work' \in [Worker -> Work]
      BY <1>0, <2>1, <3>2, WorkValues DEF SessionsOK, WorkOK, Idle
    <3>4. WorkOK'
      BY <1>0, <2>1, <3>3, WorkValues, FeedConstants DEF WorkOK
    <3>5. LeftOK'
      BY <1>3, <1>13, <2>4 DEF TakeJob
    <3> QED
      BY <2>2, <3>1, <3>4, <3>5 DEF PendingInv
  <2> QED
    BY <2>3, <2>4
<1>14. ASSUME NEW w \in Worker, StopWorker(w) PROVE PendingInv'
  <2>1. SessionsOK'
    BY <1>1, <1>14 DEF StopWorker
  <2>2. WorkOK'
    BY <1>0, <1>14, WorkValues DEF StopWorker, WorkOK
  <2> QED
    BY <1>2, <1>3, <1>14, <2>1, <2>2 DEF StopWorker, PendingInv
<1>15. ASSUME NEW s \in {Block, Maintenance}, NEW plan \in Seq(Row), Begin(s, plan),
              NEW what \in {"blocks", "sweeps"}, Once(what), UNCHANGED <<feedVars, work, outcome>>
       PROVE  PendingInv'
  <2>1. SessionsOK' /\ \A q \in Session \ {s} : session'[q] = session[q]
    BY <1>0, <1>15, SessionStep, FeedConstants DEF Begin, SessionsOK
  <2>2. WorkOK'
    BY <1>0, <1>15, <2>1, FeedConstants DEF WorkOK
  <2>3. LeftOK'
    BY <1>0, <1>15, OnceTyped DEF LeftOK
  <2> QED
    BY <1>2, <1>15, <2>1, <2>2, <2>3 DEF PendingInv
<1>16. CASE (\E plan \in BlockPlans : BeginBlock(plan)) \/ \E plan \in Sweeps : BeginSweep(plan)
  BY <1>0, <1>15, <1>16, SweepRows, FeedConstants DEF BeginBlock, BeginSweep
<1>17. ASSUME NEW s \in Session, NEW what \in {"saved", "gone"}, Ends(s, what), Unchanged
       PROVE  PendingInv'
  BY <1>0, <1>2, <1>17, EndsOK DEF Unchanged, LeftOK, PendingInv
<1>18. ASSUME NEW s \in Session, session[s] # Idle,
              LockRow(s) \/ Retry(s) \/ (~GivesUp(s) /\ RetryLater(s)),
              UNCHANGED <<work, outcome>>, Unchanged
       PROVE  PendingInv'
  <2>1. SessionsOK'
    BY <1>18, SessionStep
  <2>2. /\ \A q \in Session \ {s} : session'[q] = session[q]
        /\ session'[s] # Idle
    <3>1. session[s] \in Transaction
      BY <1>0 DEF SessionsOK
    <3>2. CASE LockRow(s)
      BY <1>0, <3>2, LockRowOK
    <3>3. CASE Retry(s)
      BY <1>0, <3>1, <3>3 DEF Retry, Idle, SessionsOK, Transaction
    <3>4. CASE RetryLater(s)
      BY <1>0, <3>1, <3>4 DEF RetryLater, Idle, SessionsOK, Transaction
    <3> QED
      BY <1>18, <3>2, <3>3, <3>4
  <2>3. WorkOK'
    BY <1>0, <1>18, <2>2, FeedConstants DEF WorkOK
  <2> QED
    BY <1>2, <1>3, <1>18, <2>1, <2>3 DEF Unchanged, PendingInv
<1>19. \A s \in Session : session[s].pc # "idle" => session[s] # Idle
  BY DEF Idle
<1>20. ASSUME NEW s \in Session, RunSession(s) PROVE PendingInv'
  <2>1. CASE Lock(s)
    BY <1>18, <1>19, <2>1 DEF Lock, LockRow
  <2>2. CASE Commit(s)
    BY <1>17, <2>2 DEF Commit
  <2>3. CASE AbortDeadlocked(s)
    <3>1. session[s].pc = "locking"
      BY <2>3 DEF AbortDeadlocked, Deadlocked, Waiting, WaitsFor
    <3>2. CASE GivesUp(s) \/ s = Maintenance
      BY <1>17, <2>3, <3>2 DEF AbortDeadlocked
    <3>3. CASE ~(GivesUp(s) \/ s = Maintenance)
      BY <1>18, <1>19, <2>3, <3>1, <3>3 DEF AbortDeadlocked
    <3> QED
      BY <3>2, <3>3
  <2>4. CASE RunAgain(s)
    BY <1>18, <1>19, <2>4 DEF RunAgain, Retry
  <2>5. CASE Cancel(s)
    BY <1>17, <2>5 DEF Cancel
  <2> QED
    BY <1>20, <2>1, <2>2, <2>3, <2>4, <2>5 DEF RunSession
<1>21. CASE Hang
  <2>1. LeftOK'
    BY <1>0, <1>21, OnceTyped DEF Hang, LeftOK
  <2> QED
    BY <1>1, <1>2, <1>21, <2>1 DEF Hang, PendingInv
<1>22. CASE Shutdown
  BY <1>1, <1>2, <1>3, <1>22 DEF Shutdown, PendingInv
<1>23. CASE UNCHANGED pendingVars
  BY <1>1, <1>2, <1>3, <1>23 DEF pendingVars, PendingInv
<1> QED
  BY <1>5, <1>6, <1>7, <1>8, <1>9, <1>10, <1>11, <1>12, <1>13, <1>14, <1>16, <1>20, <1>21, <1>22,
     <1>23 DEF PendingNext, RunStream, RunLoop, RunWorker

LEMMA PendingInvHolds == PendingSpec => []PendingInv
BY PendingInvInit, PendingInvStep, PTL DEF PendingSpec

\* Sessions, channels and outcomes have their types, no two database transactions hold one
\* row, no channel is longer than its buffer, and a worker has a database transaction exactly
\* while it handles a transaction of the feed.
THEOREM PendingTypeCorrect == PendingSpec => []PendingTypeOK
BY PendingInvHolds, PendingInvTyped, PTL

-----------------------------------------------------------------------------
(***************************************************************************)
(* Where the transactions of the feed are.                                 *)
(***************************************************************************)

InJobs == ToSet(jobs)
InOut == ToSet(out)
InHand == ToSet(stream.item)
InStream == ToSet(stream.in)
Inside == InJobs \cup InOut \cup InHand \cup InStream
Handled == {t \in Tx : \E w \in Worker : work[w] = <<t>>}

Ordered ==
    /\ Ascending(jobs) /\ Ascending(out) /\ Ascending(stream.item) /\ Ascending(stream.in)
    /\ Below(InJobs, InOut \cup InHand \cup InStream)
    /\ Below(InOut, InHand \cup InStream) /\ Below(InHand, InStream)

\* The moving ones are those in the channels and with the workers.
Moving == \A t \in Tx : outcome[t] = "moving" <=> t \in Inside \cup Handled

\* No transaction is in a channel and with a worker, or with two.
Apart ==
    /\ Handled \cap Inside = {}
    /\ \A v, w \in Worker : work[v] = work[w] /\ work[v] \notin {<<>>, Stopped} => v = w

AnnouncedInOrder == \A u, v \in Tx : outcome[u] = "unseen" /\ outcome[v] # "unseen" => v < u

FeedInv == Ordered /\ Moving /\ Apart /\ AnnouncedInOrder

LEMMA FeedSets ==
    ASSUME ChannelsOK
    PROVE  /\ InJobs \subseteq Tx /\ InOut \subseteq Tx /\ InHand \subseteq Tx /\ InStream \subseteq Tx
           /\ Inside \subseteq Tx /\ Handled \subseteq Tx /\ Tx \subseteq Nat
           /\ stream.pc # "forward" => InHand = {} /\ stream.item = <<>>
<1>1. stream.pc # "forward" => stream.item = <<>>
  BY StreamParts DEF ChannelsOK, StreamOK
<1>2. InHand = {} \/ stream.pc = "forward"
  BY <1>1, ShortChannels DEF InHand
<1> QED
  BY <1>1, <1>2, StreamParts, ChannelTyped, FeedConstants DEF InJobs, InOut, InHand, InStream, Inside, Handled

LEMMA FeedInvAccounts == ChannelsOK /\ WorkOK /\ FeedInv => FeedAccounted
<1> SUFFICES ASSUME ChannelsOK, WorkOK, FeedInv PROVE FeedAccounted
  OBVIOUS
<1> DEFINE rest == stream.item \o stream.in
           later == out \o rest
<1>0. /\ stream.in \in Seq(Tx) /\ stream.item \in Seq(Tx) /\ out \in Seq(Tx) /\ jobs \in Seq(Tx)
      /\ Ascending(jobs) /\ Ascending(out) /\ Ascending(stream.item) /\ Ascending(stream.in)
      /\ Below(ToSet(jobs), ToSet(out) \cup ToSet(stream.item) \cup ToSet(stream.in))
      /\ Below(ToSet(out), ToSet(stream.item) \cup ToSet(stream.in))
      /\ Below(ToSet(stream.item), ToSet(stream.in))
  BY StreamParts DEF FeedInv, Ordered, InJobs, InOut, InHand, InStream
<1>1. /\ rest \in Seq(Tx) /\ ToSet(rest) = ToSet(stream.item) \cup ToSet(stream.in)
      /\ Ascending(rest)
  BY <1>0, Joined
<1>2. /\ later \in Seq(Tx) /\ Ascending(later)
      /\ ToSet(later) = ToSet(out) \cup ToSet(stream.item) \cup ToSet(stream.in)
  <2> HIDE DEF rest
  <2>1. ToSet(later) = ToSet(out) \cup ToSet(rest) /\ later \in Seq(Tx)
    BY <1>0, <1>1, Joined
  <2>2. Below(ToSet(out), ToSet(rest))
    BY <1>0, <1>1
  <2>3. Ascending(later)
    BY <1>0, <1>1, <2>2, Joined
  <2> QED
    BY <1>1, <2>1, <2>3
<1>3. ToSet(jobs \o later) = Inside /\ Ascending(jobs \o later)
  <2> HIDE DEF later
  <2>1. ToSet(jobs \o later) = ToSet(jobs) \cup ToSet(later)
    BY <1>0, <1>2, Joined
  <2>2. Below(ToSet(jobs), ToSet(later))
    BY <1>0, <1>2
  <2>3. Ascending(jobs \o later)
    BY <1>0, <1>2, <2>2, Joined
  <2> QED
    BY <1>2, <2>1, <2>3 DEF Inside, InJobs, InOut, InHand, InStream
<1>4. Pipeline = jobs \o later
  <2>1. \A a, b, c \in Seq(Tx) : (a \o b) \o c = a \o (b \o c)
    <3>1. ASSUME NEW S PROVE \A a, b, c \in Seq(S) : (a \o b) \o c = a \o (b \o c)
      BY ConcatAssociative
    <3> QED
      BY <3>1
  <2>2. \A a, b \in Seq(Tx) : a \o b \in Seq(Tx)
    BY Joined, Zenon
  <2>3. (jobs \o out) \o stream.item = jobs \o (out \o stream.item) /\ out \o stream.item \in Seq(Tx)
    BY <1>0, <2>1, <2>2, Zenon
  <2>4. (jobs \o (out \o stream.item)) \o stream.in = jobs \o ((out \o stream.item) \o stream.in)
    BY <1>0, <2>1, <2>3, Zenon
  <2>5. (out \o stream.item) \o stream.in = out \o (stream.item \o stream.in)
    BY <1>0, <2>1, Zenon
  <2> QED
    BY <2>3, <2>4, <2>5, Zenon DEF Pipeline
<1>5. \A w \in Worker : ToSet(work[w]) \cap Inside = {}
  <2> SUFFICES ASSUME NEW w \in Worker PROVE ToSet(work[w]) \cap Inside = {}
    OBVIOUS
  <2>1. work[w] \in Work
    BY DEF WorkOK
  <2>2. CASE work[w] = <<>>
    BY <2>2, ShortChannels
  <2>3. CASE work[w] = Stopped
    BY <2>3, WorkValues, FeedSets, FeedConstants
  <2>4. ASSUME NEW t \in Tx, work[w] = <<t>> PROVE ToSet(work[w]) \cap Inside = {}
    BY <2>4, ShortChannels DEF FeedInv, Apart, Handled
  <2> QED
    BY <2>1, <2>2, <2>3, <2>4, WorkValues
<1>6. \A t \in Tx : (outcome[t] = "moving") = (t \in Inside \/ \E w \in Worker : work[w] = <<t>>)
  BY DEF FeedInv, Moving, Handled
<1> HIDE DEF later
<1> QED
  BY <1>3, <1>4, <1>5, <1>6 DEF FeedAccounted, Ascending

LEMMA FeedInvInit == PendingInit => FeedInv
<1> SUFFICES ASSUME PendingInit PROVE FeedInv
  OBVIOUS
<1> USE DEF PendingInit
<1>1. InJobs = {} /\ InOut = {} /\ InHand = {} /\ InStream = {} /\ Inside = {}
  BY ShortChannels DEF InJobs, InOut, InHand, InStream, Inside
<1>2. \A t : <<t>> # <<>>
  OBVIOUS
<1>3. Handled = {}
  BY <1>2 DEF Handled
<1>4. Ordered
  BY <1>1, ShortChannels DEF Ordered, Below
<1>5. Moving /\ Apart /\ AnnouncedInOrder
  BY <1>1, <1>3 DEF Moving, Apart, AnnouncedInOrder
<1> QED
  BY <1>4, <1>5 DEF FeedInv

\* Some of the moving transactions come to an end.
LEMMA CameToAnEnd ==
    ASSUME PendingInv, FeedInv, NEW items, NEW what \in {"saved", "gone"}, Becomes(items, what),
           ToSet(items) \subseteq Inside \cup Handled,
           Inside' \cup Handled' = (Inside \cup Handled) \ ToSet(items)
    PROVE  Moving' /\ AnnouncedInOrder'
<1>1. \A t \in Tx : outcome'[t] = IF t \in ToSet(items) THEN what ELSE outcome[t]
  BY BecomesTyped DEF PendingInv
<1>2. \A t \in Tx : t \in ToSet(items) => outcome[t] = "moving"
  BY DEF FeedInv, Moving
<1>3. Moving'
  BY <1>1 DEF FeedInv, Moving
<1>4. AnnouncedInOrder'
  BY <1>1, <1>2 DEF FeedInv, AnnouncedInOrder
<1> QED
  BY <1>3, <1>4

\* The moving transactions change places.
LEMMA Transferred ==
    ASSUME FeedInv, UNCHANGED outcome, Inside' \cup Handled' = Inside \cup Handled
    PROVE  Moving' /\ AnnouncedInOrder'
BY DEF FeedInv, Moving, AnnouncedInOrder

LEMMA Single == \A t, u : (<<t>> = <<u>> => t = u) /\ <<t>> # <<>> /\ (t # 0 => <<t>> # Stopped)
BY DEF Stopped

\* What a change of one worker's transaction means.
LEMMA WorkerTakes ==
    ASSUME PendingInv, FeedInv, NEW w \in Worker, NEW t \in Tx, t \notin Handled, work[w] = <<>>,
           work' = [work EXCEPT ![w] = <<t>>]
    PROVE  /\ Handled' = Handled \cup {t}
           /\ \A v, u \in Worker : work'[v] = work'[u] /\ work'[v] \notin {<<>>, Stopped} => v = u
<1>1. work'[w] = <<t>> /\ \A v \in Worker \ {w} : work'[v] = work[v] /\ work[v] # <<t>>
  BY DEF PendingInv, WorkOK, Handled
<1> QED
  BY <1>1, Single DEF Handled, FeedInv, Apart

LEMMA WorkerLeaves ==
    ASSUME PendingInv, FeedInv, NEW w \in Worker, NEW x \in {<<>>, Stopped}, work' = [work EXCEPT ![w] = x]
    PROVE  /\ work[w] \in {<<>>, Stopped} => Handled' = Handled
           /\ \A t \in Tx : work[w] = <<t>> => Handled' = Handled \ {t}
           /\ \A v, u \in Worker : work'[v] = work'[u] /\ work'[v] \notin {<<>>, Stopped} => v = u
<1>1. work'[w] = x /\ \A v \in Worker \ {w} : work'[v] = work[v]
  BY DEF PendingInv, WorkOK
<1>2. \A t \in Tx : <<t>> \notin {<<>>, Stopped}
  BY WorkValues
<1>3. work[w] \in {<<>>, Stopped} => Handled' = Handled
  BY <1>1, <1>2 DEF Handled
<1>4. ASSUME NEW t \in Tx, work[w] = <<t>> PROVE Handled' = Handled \ {t}
  <2>1. \A v \in Worker \ {w} : work[v] # <<t>>
    BY <1>2, <1>4 DEF FeedInv, Apart
  <2> QED
    BY <1>1, <1>2, <1>4, <2>1, Single DEF Handled
<1>5. \A v, u \in Worker : work'[v] = work'[u] /\ work'[v] \notin {<<>>, Stopped} => v = u
  BY <1>1 DEF FeedInv, Apart
<1> QED
  BY <1>3, <1>4, <1>5

\* A transaction that is heard is the last one.
LEMMA FeedInvAnnounce ==
    ASSUME PendingInv, FeedInv, NEW t \in Tx, Announce(t)
    PROVE  FeedInv'
<1>1. ChannelsOK /\ Handled' = Handled /\ UNCHANGED <<out, jobs, work>> /\ t \in Nat
  BY FeedConstants DEF PendingInv, Announce, Handled
<1>2. t \notin Inside \cup Handled /\ \A u \in Inside \cup Handled : u < t
  <2>1. Inside \cup Handled \subseteq Tx
    BY <1>1, FeedSets
  <2> QED
    BY <2>1 DEF Announce, FeedInv, Moving, AnnouncedInOrder
<1>3. \A u \in Tx : outcome[u] = "unseen" /\ u # t => t < u
  BY FeedConstants DEF Announce
<1>4. CASE Subscribed
  <2>1. \A u \in Tx : outcome'[u] = IF u = t THEN "moving" ELSE outcome[u]
    BY <1>4, BecomesTyped, ShortChannels DEF Announce, PendingInv
  <2>2. stream'.in = Append(stream.in, t) /\ stream'.item = stream.item
    BY <1>1, <1>4 DEF Announce, ChannelsOK, StreamOK, StreamType
  <2>3. InStream' = InStream \cup {t} /\ Ascending(stream'.in)
    <3>1. Below(InStream, {t})
      BY <1>2 DEF Below, Inside
    <3> QED
      BY <1>1, <2>2, <3>1, StreamParts, Sent DEF InStream, FeedInv, Ordered
  <2>4. InJobs' = InJobs /\ InOut' = InOut /\ InHand' = InHand
    BY <1>1, <2>2 DEF InJobs, InOut, InHand
  <2>5. Inside' = Inside \cup {t}
    BY <2>3, <2>4 DEF Inside
  <2>6. Ordered'
    BY <1>1, <1>2, <2>2, <2>3, <2>4 DEF FeedInv, Ordered, Below, Inside
  <2>7. Moving'
    BY <1>1, <2>1, <2>5 DEF FeedInv, Moving
  <2>8. AnnouncedInOrder'
    BY <1>3, <2>1 DEF FeedInv, AnnouncedInOrder, Announce
  <2>9. Apart'
    BY <1>1, <1>2, <2>5 DEF FeedInv, Apart
  <2> QED
    BY <2>6, <2>7, <2>8, <2>9 DEF FeedInv
<1>5. CASE ~Subscribed
  <2>1. \A u \in Tx : outcome'[u] = IF u = t THEN "gone" ELSE outcome[u]
    BY <1>5, BecomesTyped, ShortChannels DEF Announce, PendingInv
  <2>2. UNCHANGED <<stream, out, jobs, work>>
    BY <1>5 DEF Announce
  <2>3. Inside' = Inside /\ Ordered' /\ Apart'
    BY <2>2 DEF Inside, InJobs, InOut, InHand, InStream, Handled, FeedInv, Ordered, Apart
  <2>4. Moving'
    BY <1>1, <1>2, <2>1, <2>3 DEF FeedInv, Moving
  <2>5. AnnouncedInOrder'
    BY <1>3, <2>1 DEF FeedInv, AnnouncedInOrder, Announce
  <2> QED
    BY <2>3, <2>4, <2>5 DEF FeedInv
<1> QED
  BY <1>4, <1>5

LEMMA FeedInvChannels ==
    ASSUME PendingInv, FeedInv, Drop \/ RunStream \/ Receive
    PROVE  FeedInv'
<1>1. ChannelsOK
  BY DEF PendingInv
<1>2. UNCHANGED work => Handled' = Handled /\ (Handled \cap Inside' = {} => Apart')
  BY DEF Handled, FeedInv, Apart
<1>3. /\ InJobs \cap (InOut \cup InHand \cup InStream) = {} /\ InOut \cap (InHand \cup InStream) = {}
      /\ InHand \cap InStream = {}
  BY <1>1, FeedSets DEF FeedInv, Ordered, Below
<1>4. CASE Drop
  <2>1. stream'.in = <<>> /\ stream'.item = stream.item /\ UNCHANGED <<out, jobs, work>>
    BY <1>1, <1>4 DEF Drop, ChannelsOK, StreamOK, StreamType
  <2>2. InStream' = {} /\ InHand' = InHand /\ InOut' = InOut /\ InJobs' = InJobs /\ Ascending(stream'.in)
    BY <2>1, ShortChannels DEF InStream, InHand, InOut, InJobs
  <2>3. Ordered'
    BY <2>1, <2>2 DEF FeedInv, Ordered, Below
  <2>4. Inside' = Inside \ InStream /\ InStream \subseteq Inside
    BY <1>3, <2>2 DEF Inside
  <2>5. Apart' /\ Handled' = Handled /\ Inside' \cup Handled' = (Inside \cup Handled) \ InStream
    BY <1>2, <2>1, <2>4 DEF FeedInv, Apart
  <2>6. Moving' /\ AnnouncedInOrder'
    BY <1>4, <2>4, <2>5, CameToAnEnd DEF Drop, InStream
  <2> QED
    BY <2>3, <2>5, <2>6 DEF FeedInv
<1>5. CASE Subscribe
  <2>1. /\ stream'.in = <<>> /\ stream'.item = <<>> /\ UNCHANGED <<out, jobs, work, outcome>>
        /\ stream.in = <<>> /\ stream.item = <<>>
    BY <1>1, <1>5, FeedSets DEF Subscribe, ChannelsOK, StreamOK
  <2>2. Inside' = Inside /\ Ordered' /\ Handled' = Handled /\ Apart'
    BY <2>1 DEF Inside, InJobs, InOut, InHand, InStream, Handled, FeedInv, Ordered, Apart
  <2> QED
    BY <2>1, <2>2, Transferred DEF FeedInv
<1>6. CASE TakeItem
  <2>1. /\ stream'.in = Tail(stream.in) /\ stream'.item = <<Head(stream.in)>>
        /\ stream.in # <<>> /\ stream.pc # "forward" /\ UNCHANGED <<out, jobs, work, outcome>>
    BY <1>6 DEF TakeItem
  <2>2. /\ InHand = {} /\ InHand' = {Head(stream.in)} /\ InStream = InHand' \cup InStream'
        /\ InOut' = InOut /\ InJobs' = InJobs
        /\ Ascending(stream'.in) /\ Ascending(stream'.item) /\ Below(InHand', InStream')
    <3>1. stream.in \in Seq(Tx) /\ stream.in # <<>> /\ Ascending(stream.in) /\ InHand = {}
      BY <1>1, <2>1, FeedSets, StreamParts DEF FeedInv, Ordered
    <3>2. /\ ToSet(stream.in) = {Head(stream.in)} \cup ToSet(Tail(stream.in))
          /\ Ascending(Tail(stream.in)) /\ Below({Head(stream.in)}, ToSet(Tail(stream.in)))
      BY <3>1, Received
    <3>3. InHand' = {Head(stream.in)} /\ Ascending(stream'.item)
      BY <2>1, ShortChannels DEF InHand
    <3>4. InStream' = ToSet(Tail(stream.in)) /\ InStream = ToSet(stream.in)
      BY <2>1 DEF InStream
    <3>5. InOut' = InOut /\ InJobs' = InJobs
      BY <2>1 DEF InOut, InJobs
    <3> QED
      BY <2>1, <3>1, <3>2, <3>3, <3>4, <3>5
  <2>3. Ordered'
    BY <2>1, <2>2 DEF FeedInv, Ordered, Below
  <2>4. Inside' = Inside /\ Handled' = Handled /\ Apart'
    BY <1>2, <2>1, <2>2 DEF Inside, FeedInv, Apart
  <2> QED
    BY <2>1, <2>3, <2>4, Transferred DEF FeedInv
<1>7. CASE Forward
  <2>1. /\ stream'.in = stream.in /\ stream'.item = <<>> /\ out' = out \o stream.item
        /\ UNCHANGED <<jobs, work, outcome>>
    BY <1>1, <1>7 DEF Forward, ChannelsOK, StreamOK, StreamType
  <2>2. Below(InOut, InHand)
    BY DEF FeedInv, Ordered, Below
  <2>3. /\ InHand' = {} /\ InStream' = InStream /\ InOut' = InOut \cup InHand /\ InJobs' = InJobs
        /\ Ascending(stream'.item) /\ Ascending(out')
    BY <1>1, <2>1, <2>2, StreamParts, Joined, ShortChannels
       DEF InStream, InHand, InOut, InJobs, FeedInv, Ordered
  <2>4. Ordered'
    BY <2>1, <2>3 DEF FeedInv, Ordered, Below
  <2>5. Inside' = Inside /\ Handled' = Handled /\ Apart'
    BY <1>2, <2>1, <2>3 DEF Inside, FeedInv, Apart
  <2> QED
    BY <2>1, <2>4, <2>5, Transferred DEF FeedInv
<1>8. CASE StopStream
  <2>1. stream'.in = <<>> /\ stream'.item = <<>> /\ UNCHANGED <<out, jobs, work>>
    BY <1>8 DEF StopStream
  <2>2. /\ InStream' = {} /\ InHand' = {} /\ InOut' = InOut /\ InJobs' = InJobs
        /\ Ascending(stream'.in) /\ Ascending(stream'.item)
        /\ ToSet(stream.item \o stream.in) = InHand \cup InStream
    BY <1>1, <2>1, StreamParts, Joined, ShortChannels DEF InStream, InHand, InOut, InJobs
  <2>3. Ordered'
    BY <2>1, <2>2 DEF FeedInv, Ordered, Below
  <2>4. Inside' = Inside \ (InHand \cup InStream) /\ InHand \cup InStream \subseteq Inside
    BY <1>3, <2>2 DEF Inside
  <2>5. /\ Apart' /\ Handled' = Handled
        /\ Inside' \cup Handled' = (Inside \cup Handled) \ (InHand \cup InStream)
    BY <1>2, <2>1, <2>4 DEF FeedInv, Apart
  <2>6. Moving' /\ AnnouncedInOrder'
    BY <1>8, <2>2, <2>4, <2>5, CameToAnEnd DEF StopStream
  <2> QED
    BY <2>3, <2>5, <2>6 DEF FeedInv
<1>9. CASE Receive
  <2> DEFINE t == Head(out)
  <2>1. out # <<>> /\ out' = Tail(out) /\ UNCHANGED <<stream, work>>
    BY <1>9 DEF Receive
  <2>2. /\ t \in Tx /\ InOut = {t} \cup InOut' /\ Ascending(out') /\ Below({t}, InOut')
        /\ InStream' = InStream /\ InHand' = InHand
    BY <1>1, <2>1, StreamParts, Received DEF InStream, InHand, InOut, FeedInv, Ordered
  <2> HIDE DEF t
  <2>3. t \notin InOut' /\ t \notin InJobs \cup InHand \cup InStream /\ t \in Inside
    BY <1>3, <2>2, FeedConstants DEF Below, Inside
  <2>4. CASE Len(jobs) < JobsBuffer
    <3>1. jobs' = Append(jobs, t) /\ UNCHANGED outcome
      BY <1>9, <2>4 DEF Receive, t
    <3>2. Below(InJobs, {t})
      BY <2>2 DEF FeedInv, Ordered, Below
    <3>3. InJobs' = InJobs \cup {t} /\ Ascending(jobs')
      BY <1>1, <2>2, <3>1, <3>2, StreamParts, Sent DEF InJobs, FeedInv, Ordered
    <3>4. Ordered'
      BY <2>1, <2>2, <3>3 DEF FeedInv, Ordered, Below
    <3>5. Inside' = Inside /\ Handled' = Handled /\ Apart'
      BY <1>2, <2>1, <2>2, <3>3 DEF Inside, FeedInv, Apart
    <3> QED
      BY <3>1, <3>4, <3>5, Transferred DEF FeedInv
  <2>5. CASE ~(Len(jobs) < JobsBuffer)
    <3>1. UNCHANGED jobs /\ Becomes(<<t>>, "gone") /\ ToSet(<<t>>) = {t}
      BY <1>9, <2>5, ShortChannels DEF Receive, t
    <3>2. InJobs' = InJobs
      BY <3>1 DEF InJobs
    <3>3. Ordered'
      BY <2>1, <2>2, <3>1, <3>2 DEF FeedInv, Ordered, Below
    <3>4. Inside' = Inside \ {t}
      BY <2>2, <2>3, <3>2 DEF Inside
    <3>5. Apart' /\ Handled' = Handled /\ Inside' \cup Handled' = (Inside \cup Handled) \ {t}
      BY <1>2, <2>1, <2>3, <3>4 DEF FeedInv, Apart
    <3>6. Moving' /\ AnnouncedInOrder'
      BY <2>3, <3>1, <3>5, CameToAnEnd
    <3> QED
      BY <3>3, <3>5, <3>6 DEF FeedInv
  <2> QED
    BY <2>4, <2>5
<1> QED
  BY <1>4, <1>5, <1>6, <1>7, <1>8, <1>9 DEF RunStream

LEMMA FeedInvTakeJob ==
    ASSUME PendingInv, FeedInv, NEW w \in Worker, TakeJob(w)
    PROVE  FeedInv'
<1> DEFINE t == Head(jobs)
<1>1. ChannelsOK /\ jobs # <<>> /\ jobs' = Tail(jobs) /\ UNCHANGED <<stream, out>> /\ work[w] = <<>>
  BY DEF PendingInv, TakeJob
<1>2. /\ t \in Tx /\ InJobs = {t} \cup InJobs' /\ Ascending(jobs') /\ Below({t}, InJobs')
      /\ InStream' = InStream /\ InHand' = InHand /\ InOut' = InOut
  BY <1>1, StreamParts, Received DEF InStream, InHand, InOut, InJobs, FeedInv, Ordered
<1> HIDE DEF t
<1>3. t \notin InJobs' /\ t \notin InOut \cup InHand \cup InStream /\ t \in Inside /\ t \notin Handled
  BY <1>1, <1>2, FeedConstants DEF Below, Inside, FeedInv, Ordered, Apart
<1>4. Ordered' /\ Inside' = Inside \ {t}
  <2>1. Ordered'
    BY <1>1, <1>2 DEF FeedInv, Ordered, Below
  <2> QED
    BY <1>2, <1>3, <2>1 DEF Inside
<1>5. CASE t \in Invalid \/ cancelled
  <2>1. UNCHANGED work /\ Becomes(<<t>>, "gone") /\ ToSet(<<t>>) = {t}
    BY <1>5, ShortChannels DEF TakeJob, t
  <2>2. Handled' = Handled /\ Apart' /\ Inside' \cup Handled' = (Inside \cup Handled) \ {t}
    BY <1>3, <1>4, <2>1 DEF Handled, FeedInv, Apart
  <2>3. Moving' /\ AnnouncedInOrder'
    BY <1>3, <2>1, <2>2, CameToAnEnd
  <2> QED
    BY <1>4, <2>2, <2>3 DEF FeedInv
<1>6. CASE ~(t \in Invalid \/ cancelled)
  <2>1. work' = [work EXCEPT ![w] = <<t>>] /\ UNCHANGED outcome
    BY <1>6 DEF TakeJob, t
  <2>2. /\ Handled' = Handled \cup {t}
        /\ \A v, u \in Worker : work'[v] = work'[u] /\ work'[v] \notin {<<>>, Stopped} => v = u
    BY <1>1, <1>2, <1>3, <2>1, WorkerTakes
  <2>3. Apart' /\ Inside' \cup Handled' = Inside \cup Handled
    BY <1>3, <1>4, <2>2 DEF FeedInv, Apart
  <2> QED
    BY <1>4, <2>1, <2>3, Transferred DEF FeedInv
<1> QED
  BY <1>5, <1>6

LEMMA FeedInvKeeps ==
    ASSUME FeedInv, UNCHANGED <<feedVars, outcome>>, Handled' = Handled,
           \A v, u \in Worker : work'[v] = work'[u] /\ work'[v] \notin {<<>>, Stopped} => v = u
    PROVE  FeedInv'
<1>1. Inside' = Inside /\ Ordered'
  BY DEF feedVars, Inside, InJobs, InOut, InHand, InStream, FeedInv, Ordered
<1>2. Apart'
  BY <1>1 DEF FeedInv, Apart
<1> QED
  BY <1>1, <1>2, Transferred DEF FeedInv

LEMMA FeedInvIdle == FeedInv /\ UNCHANGED <<feedVars, work, outcome>> => FeedInv'
<1> SUFFICES ASSUME FeedInv, UNCHANGED <<feedVars, work, outcome>> PROVE FeedInv'
  OBVIOUS
<1> QED
  BY FeedInvKeeps DEF Handled, FeedInv, Apart

LEMMA FeedInvEnds ==
    ASSUME PendingInv, FeedInv, NEW s \in Session, NEW what \in {"saved", "gone"}, session[s] # Idle,
           Ends(s, what), UNCHANGED feedVars
    PROVE  FeedInv'
<1>1. CASE s \notin Worker
  BY <1>1, FeedInvIdle DEF Ends
<1>2. CASE s \in Worker
  <2>1. PICK t \in Tx : work[s] = <<t>>
    BY <1>2, WorkValues DEF PendingInv, WorkOK
  <2>2. work' = [work EXCEPT ![s] = <<>>] /\ Becomes(<<t>>, what) /\ ToSet(<<t>>) = {t}
    BY <1>2, <2>1, ShortChannels DEF Ends
  <2>3. /\ Handled' = Handled \ {t} /\ t \in Handled
        /\ \A v, u \in Worker : work'[v] = work'[u] /\ work'[v] \notin {<<>>, Stopped} => v = u
    BY <1>2, <2>1, <2>2, WorkerLeaves DEF Handled
  <2>4. Inside' = Inside /\ Ordered'
    BY DEF feedVars, Inside, InJobs, InOut, InHand, InStream, FeedInv, Ordered
  <2>5. Apart' /\ Inside' \cup Handled' = (Inside \cup Handled) \ {t}
    BY <2>3, <2>4 DEF FeedInv, Apart
  <2>6. Moving' /\ AnnouncedInOrder'
    BY <2>2, <2>3, <2>5, CameToAnEnd
  <2> QED
    BY <2>4, <2>5, <2>6 DEF FeedInv
<1> QED
  BY <1>1, <1>2

LEMMA FeedInvStep == PendingInv /\ FeedInv /\ [PendingNext]_pendingVars => FeedInv'
<1> SUFFICES ASSUME PendingInv, FeedInv, [PendingNext]_pendingVars PROVE FeedInv'
  OBVIOUS
<1>1. ASSUME NEW w \in Worker, StopWorker(w) PROVE FeedInv'
  <2>1. work' = [work EXCEPT ![w] = Stopped] /\ work[w] = <<>> /\ UNCHANGED <<feedVars, outcome>>
    BY <1>1 DEF StopWorker
  <2> QED
    BY <2>1, WorkerLeaves, FeedInvKeeps
<1>2. CASE EndLoop \/ ReturnFromRun
  <2>1. UNCHANGED <<stream, out, jobs, work, outcome>>
    BY <1>2 DEF EndLoop, ReturnFromRun
  <2>2. Inside' = Inside /\ Ordered' /\ Handled' = Handled /\ Apart'
    BY <2>1 DEF Inside, InJobs, InOut, InHand, InStream, Handled, FeedInv, Ordered, Apart
  <2> QED
    BY <2>1, <2>2, Transferred DEF FeedInv
<1>3. \A s \in Session : session[s].pc # "idle" => session[s] # Idle
  BY DEF Idle
<1>4. ASSUME NEW s \in Session, RunSession(s) PROVE FeedInv'
  <2>1. CASE Lock(s) \/ RunAgain(s)
    BY <2>1, FeedInvIdle DEF Lock, RunAgain, Unchanged
  <2>2. CASE Commit(s)
    BY <1>3, <2>2, FeedInvEnds DEF Commit, Complete, Unchanged
  <2>3. CASE AbortDeadlocked(s)
    <3>1. session[s].pc = "locking"
      BY <2>3 DEF AbortDeadlocked, Deadlocked, Waiting, WaitsFor
    <3>2. CASE Ends(s, "gone")
      BY <1>3, <2>3, <3>1, <3>2, FeedInvEnds DEF AbortDeadlocked, Unchanged
    <3>3. CASE UNCHANGED <<work, outcome>>
      BY <2>3, <3>3, FeedInvIdle DEF AbortDeadlocked, Unchanged
    <3> QED
      BY <2>3, <3>2, <3>3 DEF AbortDeadlocked
  <2>4. CASE Cancel(s)
    BY <2>4, FeedInvEnds DEF Cancel, Unchanged
  <2> QED
    BY <1>4, <2>1, <2>2, <2>3, <2>4 DEF RunSession
<1>5. ASSUME UNCHANGED <<feedVars, work, outcome>> PROVE FeedInv'
  BY <1>5, FeedInvIdle
<1> QED
  BY <1>1, <1>2, <1>4, <1>5, FeedInvAnnounce, FeedInvChannels, FeedInvTakeJob
     DEF PendingNext, RunStream, RunLoop, RunWorker, BeginBlock, BeginSweep, Hang, Shutdown, pendingVars

\* Announced transactions are in one channel or with one worker, in the order of the feed, or
\* ended: the three channels, their bounds, dropped subscriptions and shutdown lose none
\* without a trace, duplicate none and reorder none.
THEOREM FeedAccountedFor == PendingSpec => []FeedAccounted
<1>1. FeedInv /\ PendingInv /\ [PendingNext]_pendingVars => FeedInv'
  BY FeedInvStep
<1>2. PendingInv /\ FeedInv => FeedAccounted
  BY FeedInvAccounts DEF PendingInv
<1> QED
  BY <1>1, <1>2, PendingInvHolds, FeedInvInit, PTL DEF PendingSpec
-----------------------------------------------------------------------------
(***************************************************************************)
(* Deadlocks.                                                              *)
(***************************************************************************)

\* A nonempty set of naturals up to n has a smallest element.
LEMMA SmallestUpTo ==
    ASSUME NEW n \in Nat, NEW T \in SUBSET (0 .. n), T # {}
    PROVE  \E x \in T : \A y \in T : x <= y
<1> DEFINE Initial == {0 .. x : x \in T}
           Smaller == StrictSubsetOrdering(0 .. n)
<1>1. IsFiniteSet(0 .. n)
  BY FS_Interval
<1>2. IsWellFoundedOn(Smaller, FiniteSubsetsOf(0 .. n))
  BY <1>1, FS_StrictSubsetOrderingWellFounded
<1>3. Initial \subseteq FiniteSubsetsOf(0 .. n) /\ Initial # {}
  <2>1. \A x \in T : 0 .. x \subseteq 0 .. n
    OBVIOUS
  <2>2. \A x \in T : IsFiniteSet(0 .. x)
    BY FS_Interval
  <2> QED
    BY <2>1, <2>2 DEF FiniteSubsetsOf
<1>4. PICK I \in Initial : \A J \in Initial : ~(<<J, I>> \in Smaller)
  <2> HIDE DEF Smaller, Initial
  <2> QED
    BY <1>2, <1>3, WFMin
<1>5. PICK x \in T : I = 0 .. x
  BY <1>4
<1>6. ASSUME NEW y \in T PROVE x <= y
  <2> SUFFICES ASSUME y < x PROVE FALSE
    OBVIOUS
  <2>1. 0 .. y \subseteq 0 .. x /\ x \in 0 .. x /\ x \notin 0 .. y /\ 0 .. x \subseteq 0 .. n
    OBVIOUS
  <2>2. <<0 .. y, 0 .. x>> \in Smaller
    BY <2>1 DEF StrictSubsetOrdering
  <2> QED
    BY <1>4, <1>5, <2>2
<1> QED
  BY <1>6

\* A worker saves the transaction it took, and a sweep touches no account.
Plans ==
    /\ \A w \in Worker, t \in Tx : work[w] = <<t>> => session[w].plan = PendingPlan(t)
    /\ \A i \in DOMAIN session[Maintenance].plan :
          \E t \in Tx : session[Maintenance].plan[i] = TxRow(t)

LEMMA PlansInit == PendingInit => Plans
<1> SUFFICES ASSUME PendingInit PROVE Plans
  OBVIOUS
<1>1. \A w \in Worker, t \in Tx : work[w] # <<t>>
  BY Single DEF PendingInit
<1>2. session[Maintenance].plan = <<>> /\ DOMAIN <<>> = {}
  BY FeedConstants DEF PendingInit, Idle
<1> QED
  BY <1>1, <1>2 DEF Plans

\* What the plans need of a step.
LEMMA PlansKept ==
    ASSUME Plans,
           \A w \in Worker : work'[w] = work[w] \/ work'[w] \in {<<>>, Stopped},
           \A s \in Worker \cup {Maintenance} :
              session'[s].plan \in {session[s].plan, <<>>}
              /\ (s \in Worker /\ work'[s] = work[s] /\ session'[s].plan # session[s].plan
                     => work[s] \in {<<>>, Stopped})
    PROVE  Plans'
<1>1. \A w \in Worker, t \in Tx : work'[w] = <<t>> => session'[w].plan = PendingPlan(t)
  BY WorkValues DEF Plans
<1>2. DOMAIN <<>> = {}
  OBVIOUS
<1>3. CASE session'[Maintenance].plan = <<>>
  BY <1>1, <1>2, <1>3 DEF Plans
<1>4. CASE session'[Maintenance].plan = session[Maintenance].plan
  BY <1>1, <1>4 DEF Plans
<1> QED
  BY <1>3, <1>4

LEMMA PlansStep == PendingInv /\ Plans /\ [PendingNext]_pendingVars => Plans'
<1> SUFFICES ASSUME PendingInv, Plans, [PendingNext]_pendingVars PROVE Plans'
  OBVIOUS
<1>0. session \in [Session -> Transaction] /\ work \in [Worker -> Work]
  BY DEF PendingInv, SessionsOK, WorkOK
<1>1. ASSUME UNCHANGED <<session, work>> PROVE Plans'
  BY <1>1 DEF Plans
<1>2. ASSUME NEW w \in Worker, TakeJob(w) PROVE Plans'
  <2> DEFINE t == Head(jobs)
  <2>1. CASE t \in Invalid \/ cancelled
    BY <1>1, <1>2, <2>1 DEF TakeJob
  <2>2. CASE ~(t \in Invalid \/ cancelled)
    <3>1. Begin(w, PendingPlan(t)) /\ work' = [work EXCEPT ![w] = <<t>>]
      BY <1>2, <2>2 DEF TakeJob
    <3> HIDE DEF t
    <3>2. session'[w].plan = PendingPlan(t) /\ \A s \in Session \ {w} : session'[s] = session[s]
      BY <1>0, <3>1, FeedConstants DEF Begin
    <3>3. work'[w] = <<t>> /\ \A v \in Worker \ {w} : work'[v] = work[v]
      BY <1>0, <3>1
    <3>4. \A v \in Worker, u \in Tx : work'[v] = <<u>> => session'[v].plan = PendingPlan(u)
      <4>1. ASSUME NEW u \in Tx, work'[w] = <<u>> PROVE session'[w].plan = PendingPlan(u)
        <5>1. u = t
          BY <3>3, <4>1, Single
        <5> QED
          BY <3>2, <5>1
      <4>2. ASSUME NEW v \in Worker \ {w}, NEW u \in Tx, work'[v] = <<u>>
            PROVE  session'[v].plan = PendingPlan(u)
        <5>1. work[v] = <<u>> /\ session'[v] = session[v]
          BY <3>2, <3>3, <4>2, FeedConstants
        <5> QED
          BY <5>1 DEF Plans
      <4> QED
        BY <4>1, <4>2
    <3> QED
      BY <3>2, <3>4, FeedConstants DEF Plans
  <2> QED
    BY <2>1, <2>2
<1>3. ASSUME NEW w \in Worker, StopWorker(w) PROVE Plans'
  <2>1. UNCHANGED session /\ \A v \in Worker : work'[v] \in {work[v], Stopped}
    BY <1>0, <1>3 DEF StopWorker
  <2> QED
    BY <2>1, PlansKept
<1>4. ASSUME NEW plan, BeginBlock(plan) PROVE Plans'
  <2>1. UNCHANGED work /\ \A s \in Session \ {Block} : session'[s] = session[s]
    BY <1>0, <1>4, FeedConstants DEF BeginBlock, Begin
  <2> QED
    BY <2>1, FeedConstants DEF Plans
<1>5. ASSUME NEW plan \in Sweeps, BeginSweep(plan) PROVE Plans'
  <2>1. /\ UNCHANGED work /\ \A s \in Session \ {Maintenance} : session'[s] = session[s]
        /\ session'[Maintenance].plan = plan
    BY <1>0, <1>5, FeedConstants DEF BeginSweep, Begin
  <2>2. \A i \in DOMAIN plan : \E t \in Tx : plan[i] = TxRow(t)
    BY SweepRows DEF PendingInv
  <2> QED
    BY <2>1, <2>2, FeedConstants DEF Plans
<1>6. ASSUME NEW s \in Session, NEW what, Ends(s, what) PROVE Plans'
  <2>1. session'[s].plan = <<>> /\ \A q \in Session \ {s} : session'[q] = session[q]
    BY <1>0, <1>6 DEF Ends, Release, Idle
  <2>2. CASE s \in Worker
    <3>1. work'[s] = <<>> /\ \A v \in Worker \ {s} : work'[v] = work[v]
      BY <1>0, <1>6, <2>2 DEF Ends
    <3> QED
      BY <2>1, <2>2, <3>1, PlansKept, FeedConstants
  <2>3. CASE s \notin Worker
    BY <1>6, <2>1, <2>3, PlansKept, FeedConstants DEF Ends
  <2> QED
    BY <2>2, <2>3
<1>7. ASSUME NEW s \in Session, LockRow(s) \/ Retry(s) \/ RetryLater(s), UNCHANGED work PROVE Plans'
  <2>1. /\ session'[s].plan = session[s].plan
        /\ \A q \in Session \ {s} : session'[q] = session[q]
    BY <1>0, <1>7 DEF LockRow, Retry, RetryLater, Transaction
  <2> QED
    BY <1>7, <2>1, PlansKept, FeedConstants
<1>8. ASSUME NEW s \in Session, RunSession(s) PROVE Plans'
  BY <1>6, <1>7, <1>8 DEF RunSession, Lock, Commit, AbortDeadlocked, RunAgain, Cancel
<1> QED
  BY <1>1, <1>2, <1>3, <1>4, <1>5, <1>8
     DEF PendingNext, Announce, Drop, RunStream, Subscribe, TakeItem, Forward, StopStream, RunLoop, Receive,
         EndLoop, ReturnFromRun, RunWorker, Hang, Shutdown, pendingVars

\* A waiting worker has locked accounts of its plan and waits for its next row; if that is an
\* account too, it comes after those.
LEMMA WaitingWorker ==
    ASSUME PendingInv, Plans, NEW w \in Worker, session[w].pc = "locking",
           session[w].locked < Len(session[w].plan)
    PROVE  LET next == session[w].plan[session[w].locked + 1] IN
           /\ \A row \in Held(w) : \E a \in Address : row = Account(a)
           /\ (\E a \in Address : next = Account(a)) => \A row \in Held(w) : row.key < next.key
<1> DEFINE plan == session[w].plan
           n == Len(plan)
           m == session[w].locked
<1>1. PICK t \in Tx : work[w] = <<t>>
  <2>1. session[w] # Idle
    BY DEF Idle
  <2> QED
    BY <2>1, WorkValues DEF PendingInv, WorkOK
<1>2. plan = PendingPlan(t)
  BY <1>1 DEF Plans
<1>3. /\ n \in Nat \ {0} /\ plan[n] = TxRow(t)
      /\ \A i \in 1 .. (n - 1) : \E a \in Address : plan[i] = Account(a)
      /\ \A i, j \in 1 .. (n - 1) : i < j => plan[i].key < plan[j].key
  BY <1>2, PlanRows
<1>4. m \in Nat /\ m < n /\ Held(w) = {plan[i] : i \in 1 .. m}
  BY FeedConstants DEF PendingInv, SessionsOK, Transaction, Held
<1> HIDE DEF plan, n, m
<1>5. \A i \in 1 .. m : i \in 1 .. (n - 1)
  BY <1>3, <1>4
<1>6. \A row \in Held(w) : \E a \in Address : row = Account(a)
  BY <1>3, <1>4, <1>5
<1>7. ASSUME NEW a \in Address, plan[m + 1] = Account(a), NEW row \in Held(w)
      PROVE  row.key < plan[m + 1].key
  <2>1. PICK i \in 1 .. m : row = plan[i]
    BY <1>4
  <2>2. m + 1 # n
    BY <1>3, <1>7 DEF Account, TxRow
  <2>3. m + 1 \in 1 .. (n - 1) /\ i < m + 1 /\ i \in 1 .. (n - 1)
    BY <1>3, <1>4, <2>2
  <2> QED
    BY <1>3, <2>1, <2>3
<1> QED
  BY <1>6, <1>7 DEF plan, m

LEMMA PlansOrderLocks == PendingInv /\ Plans => CyclesNeedABlock
<1> SUFFICES ASSUME PendingInv, Plans, NEW C \in SUBSET Waiting, Cycle(C), Block \notin C PROVE FALSE
  BY DEF CyclesNeedABlock
<1> DEFINE Next(s) == session[s].plan[session[s].locked + 1]
<1>1. ASSUME NEW s \in C
      PROVE  /\ s \in Session /\ session[s].pc = "locking"
             /\ session[s].locked < Len(session[s].plan)
             /\ \E q \in C \ {s} : Next(s) \in Held(q)
             /\ \E r \in C \ {s} : Next(r) \in Held(s)
  BY <1>1 DEF Waiting, Cycle, WaitsFor
<1>2. ASSUME NEW s \in C, s \in Worker
      PROVE  \A row \in Held(s) : \E a \in Address : row = Account(a)
  BY <1>1, <1>2, WaitingWorker
<1>3. Maintenance \notin C
  <2> SUFFICES ASSUME Maintenance \in C PROVE FALSE
    OBVIOUS
  <2> DEFINE plan == session[Maintenance].plan
             n == session[Maintenance].locked + 1
  <2>1. n \in DOMAIN plan
    <3>1. plan \in Seq(Row) /\ session[Maintenance].locked \in Nat /\ n <= Len(plan)
      BY <1>1, FeedConstants DEF PendingInv, SessionsOK, Transaction
    <3> QED
      BY <3>1
  <2>2. PICK t \in Tx : Next(Maintenance) = TxRow(t)
    BY <2>1 DEF Plans
  <2>3. PICK q \in C \ {Maintenance} : Next(Maintenance) \in Held(q)
    BY <1>1
  <2>4. q \in Worker
    BY <1>1, <2>3, FeedConstants
  <2>5. \E a \in Address : TxRow(t) = Account(a)
    BY <1>2, <2>2, <2>3, <2>4
  <2> QED
    BY <2>5 DEF TxRow, Account
<1>4. C \subseteq Worker
  BY <1>1, <1>3, FeedConstants
<1>5. ASSUME NEW s \in C PROVE \E a \in Address : Next(s) = Account(a)
  <2>1. PICK q \in C \ {s} : Next(s) \in Held(q)
    BY <1>1, <1>5
  <2>2. \A row \in Held(q) : \E a \in Address : row = Account(a)
    BY <1>2, <1>4
  <2> QED
    BY <2>1, <2>2
<1>6. ASSUME NEW s \in C PROVE \A row \in Held(s) : row.key < Next(s).key
  BY <1>1, <1>4, <1>5, <1>6, WaitingWorker
<1> DEFINE T == {Next(s).key : s \in C}
<1> HIDE DEF Next
<1>7. T \subseteq Nat /\ T # {}
  <2>1. \A s \in C : Next(s).key \in Address
    BY <1>5 DEF Account
  <2>2. \A s \in C : Next(s).key \in Nat
    BY <2>1, FeedConstants
  <2>3. C # {}
    BY DEF Cycle
  <2> QED
    BY <2>2, <2>3
<1>8. PICK k \in T : TRUE
  BY <1>7
<1>9. T \cap (0 .. k) \subseteq 0 .. k /\ k \in T \cap (0 .. k)
  BY <1>7, <1>8
<1>10. PICK x \in T \cap (0 .. k) : \A y \in T \cap (0 .. k) : x <= y
  BY <1>7, <1>9, SmallestUpTo
<1>11. \A y \in T : x <= y
  BY <1>7, <1>10
<1>12. PICK s \in C : x = Next(s).key
  BY <1>10
<1>13. PICK r \in C \ {s} : Next(r) \in Held(s)
  BY <1>1
<1>14. Next(r).key < Next(s).key /\ Next(r).key \in T
  BY <1>6, <1>13
<1> QED
  BY <1>7, <1>11, <1>12, <1>14

LEMMA PlansHold == PendingSpec => []Plans
<1>1. PendingInv /\ Plans /\ [PendingNext]_pendingVars => Plans'
  BY PlansStep
<1> QED
  BY <1>1, PlansInit, PendingInvHolds, PTL DEF PendingSpec

\* Whatever transactions are saved, and by how many workers: accounts are locked in sorted
\* order and the row of the transaction last, so a cycle of waiting sessions has the block
\* among its members.
THEOREM PendingCyclesNeedABlock == PendingSpec => []CyclesNeedABlock
BY PlansHold, PendingInvHolds, PlansOrderLocks, PTL

-----------------------------------------------------------------------------
(***************************************************************************)
(* ApiRequests.                                                            *)
(***************************************************************************)

LEMMA MinOfTwo ==
    ASSUME NEW a \in Nat, NEW b \in Nat
    PROVE  Min({a, b}) = IF a <= b THEN a ELSE b
<1>1. \E m \in {a, b} : \A y \in {a, b} : m <= y
  BY SMT
<1> QED
  BY <1>1 DEF Min

LEMMA Appended ==
    ASSUME NEW s \in Seq(Nat), NEW x \in Nat
    PROVE  /\ DOMAIN s = 1 .. Len(s) /\ Len(s) \in Nat /\ \A i \in 1 .. Len(s) : s[i] \in Nat
           /\ DOMAIN Append(s, x) = 1 .. (Len(s) + 1) /\ Len(Append(s, x)) = Len(s) + 1
           /\ \A i \in 1 .. Len(s) : Append(s, x)[i] = s[i]
           /\ Append(s, x)[Len(s) + 1] = x
OBVIOUS

(***************************************************************************)
(* What a request in flight may look like at the given time.               *)
(***************************************************************************)
RequestOK(q, time) ==
    /\ q \in Open \cup Over
    /\ q.pc \in {"limit", "lookup", "label", "name", "risk", "store"} =>
          /\ q \in Open
          /\ q.at <= time
          /\ q.pc = "limit" => time <= q.at + MaxWait
          /\ q.pc \in {"name", "risk", "store"} => time <= q.at + MaxLoad
          /\ q.pc \in {"lookup", "name", "risk", "store"} => q.path \in Cached
          /\ q.pc \in {"risk", "store"} => q.name \in Entity
          /\ IF q.pc = "store" /\ q.path = "hubs" THEN q.risk \in Entity ELSE q.risk = Null
          /\ q.pc = "risk" => q.path = "hubs"

ApiInv ==
    /\ now \in Nat /\ errors \in Nat /\ restarts \in Nat
    /\ windows \in [Client -> [count : 1 .. (Limit + 1), resetAt : Nat] \cup {Null}]
    /\ \A c \in Client : windows[c] # Null => windows[c].resetAt <= now + Minute
    /\ known \in Entity
    /\ cache \in [Cached -> [name : Entity, risk : Entity \cup {Null}, expires : Nat] \cup {Null}]
    /\ \A p \in Cached : cache[p] # Null =>
          /\ cache[p].expires <= now + Ttl
          /\ IF p = "hubs" THEN cache[p].risk \in Entity ELSE cache[p].risk = Null
    /\ request \in [Request -> Open \cup Over]
    /\ \A r \in Request : RequestOK(request[r], now)
    /\ admitted \in [Client -> Seq(Nat)]
    /\ labelled \in Seq(Nat)

LEMMA ApiInvTyped == ApiInv => ApiTypeOK
<1> SUFFICES ASSUME ApiInv PROVE ApiTypeOK
  OBVIOUS
<1>1. ASSUME NEW c \in Client, windows[c] # Null
      PROVE  windows[c].count \in 1 .. (Limit + 1) /\ windows[c].resetAt <= now + Minute
  BY <1>1 DEF ApiInv
<1>2. ASSUME NEW p \in Cached, cache[p] # Null
      PROVE  /\ cache[p].name \in Entity /\ cache[p].expires <= now + Ttl
             /\ IF p = "hubs" THEN cache[p].risk \in Entity ELSE cache[p].risk = Null
  BY <1>2 DEF ApiInv
<1> QED
  BY <1>1, <1>2 DEF ApiInv, ApiTypeOK

LEMMA ApiInvInit == ApiInit => ApiInv
<1> SUFFICES ASSUME ApiInit PROVE ApiInv
  OBVIOUS
<1>1. \A r \in Request : request[r] = [pc |-> "over"]
  BY DEF ApiInit
<1>2. [pc |-> "over"] \in Over
  BY DEF Over
<1>3. \A r \in Request : RequestOK(request[r], now)
  BY <1>1, <1>2 DEF RequestOK
<1> QED
  BY <1>1, <1>2, <1>3 DEF ApiInit, ApiInv, Entity

\* A step of one request.
LEMMA OneRequest ==
    ASSUME ApiInv, NEW r \in Request, NEW q, GoTo(r, q), RequestOK(q, now), now' = now
    PROVE  /\ request' \in [Request -> Open \cup Over]
           /\ \A s \in Request : RequestOK(request'[s], now')
           /\ request'[r] = q /\ \A s \in Request \ {r} : request'[s] = request[s]
<1>1. q \in Open \cup Over
  BY DEF RequestOK
<1>2. request'[r] = q /\ \A s \in Request \ {r} : request'[s] = request[s]
  BY DEF GoTo, ApiInv
<1>3. request' \in [Request -> Open \cup Over]
  BY <1>1 DEF GoTo, ApiInv
<1> QED
  BY <1>2, <1>3 DEF ApiInv

\* Where a request stands tells what its locals are.
LEMMA InFlight ==
    ASSUME ApiInv, NEW r \in Request, request[r].pc \notin {"over", "refused", "answered"}
    PROVE  /\ request[r] \in Open /\ RequestOK(request[r], now)
           /\ request[r].client \in Client /\ request[r].path \in Path
           /\ request[r].at \in Nat /\ request[r].at <= now /\ now \in Nat
BY DEF ApiInv, RequestOK, Open, Over

LEMMA Leaves ==
    ASSUME NEW time
    PROVE  RequestOK([pc |-> "over"], time) /\ RequestOK([pc |-> "refused"], time)
BY DEF RequestOK, Over

\* The window of a client after a request with this clock reading.
LEMMA CountedTyped ==
    ASSUME NEW window \in [count : 1 .. (Limit + 1), resetAt : Nat] \cup {Null}, NEW at \in Nat,
           NEW time \in Nat, at <= time, window # Null => window.resetAt <= time + Minute
    PROVE  /\ Counted(window, at) \in [count : 1 .. (Limit + 1), resetAt : Nat]
           /\ Counted(window, at).resetAt <= time + Minute
           /\ IF Ended(window, at)
              THEN Counted(window, at) = [count |-> 1, resetAt |-> at + Minute]
              ELSE /\ Counted(window, at).resetAt = window.resetAt
                   /\ Counted(window, at).count =
                        IF window.count <= Limit THEN window.count + 1 ELSE Limit + 1
<1>1. Limit \in Nat \ {0} /\ Minute \in Nat \ {0}
  BY ApiAssumption DEF ApiAssumption
<1>2. CASE Ended(window, at)
  BY <1>1, <1>2 DEF Counted
<1>3. CASE ~Ended(window, at)
  <2>1. window \in [count : 1 .. (Limit + 1), resetAt : Nat] /\ window.resetAt <= time + Minute
    BY <1>3 DEF Ended
  <2>2. window.count + 1 \in Nat /\ Limit + 1 \in Nat
    BY <1>1, <2>1
  <2>3. Min({window.count + 1, Limit + 1}) =
          IF window.count <= Limit THEN window.count + 1 ELSE Limit + 1
    BY <1>1, <2>1, <2>2, MinOfTwo
  <2> QED
    BY <1>1, <1>3, <2>1, <2>3 DEF Counted
<1> QED
  BY <1>2, <1>3

LEMMA ApiInvStep == ApiInv /\ [ApiNext]_apiVars => ApiInv'
<1> SUFFICES ASSUME ApiInv, [ApiNext]_apiVars PROVE ApiInv'
  OBVIOUS
<1>0. /\ {Limit, Minute, Ttl} \subseteq Nat \ {0} /\ {MaxWait, MaxLoad} \subseteq Nat
      /\ Path \subseteq {"top", "hubs", "label"}
  BY ApiAssumption DEF ApiAssumption
<1>1. CASE ClockTicks
  <2>1. \A r \in Request : RequestOK(request[r], now + 1)
    BY <1>0, <1>1 DEF ClockTicks, At, Loading, ApiInv, RequestOK, Open
  <2> QED
    BY <1>0, <1>1, <2>1 DEF ClockTicks, ApiInv
<1>2. ASSUME NEW r \in Request, NEW c \in Client, NEW path \in Path, NEW authorised \in BOOLEAN,
             Arrive(r, c, path, authorised)
      PROVE  ApiInv'
  <2>1. RequestOK(Arriving(c, path), now)
    BY <1>0 DEF Arriving, RequestOK, Open, ApiInv
  <2>2. RequestOK(IF authorised THEN Arriving(c, path) ELSE [pc |-> "over"], now)
    BY <2>1, Leaves
  <2>3. /\ request' \in [Request -> Open \cup Over]
        /\ \A s \in Request : RequestOK(request'[s], now')
    BY <1>2, <2>2, OneRequest DEF Arrive
  <2> QED
    BY <1>2, <2>3 DEF Arrive, ApiInv
<1>3. ASSUME NEW r \in Request, LimitRate(r) PROVE ApiInv'
  <2> DEFINE q == request[r]
             window == Counted(windows[q.client], q.at)
  <2>1. q \in Open /\ RequestOK(q, now) /\ q.pc = "limit" /\ q.client \in Client /\ q.path \in Path
        /\ q.at \in Nat /\ q.at <= now /\ now \in Nat
    BY <1>3, InFlight DEF LimitRate, At
  <2>2. /\ windows[q.client] \in [count : 1 .. (Limit + 1), resetAt : Nat] \cup {Null}
        /\ windows[q.client] # Null => windows[q.client].resetAt <= now + Minute
    BY <2>1 DEF ApiInv
  <2> HIDE DEF q
  <2>3. window \in [count : 1 .. (Limit + 1), resetAt : Nat] /\ window.resetAt <= now + Minute
    BY <2>1, <2>2, CountedTyped
  <2>4. RequestOK([q EXCEPT !.pc = IF q.path = "label" THEN "label" ELSE "lookup"], now)
    BY <1>0, <2>1 DEF RequestOK, Open, Cached
  <2>5. /\ request' \in [Request -> Open \cup Over]
        /\ \A s \in Request : RequestOK(request'[s], now')
    BY <1>3, <2>4, Leaves, OneRequest DEF LimitRate, q
  <2>6. windows' = [windows EXCEPT ![q.client] = window]
    BY <1>3 DEF LimitRate, q
  <2> HIDE DEF window
  <2>7. /\ windows' \in [Client -> [count : 1 .. (Limit + 1), resetAt : Nat] \cup {Null}]
        /\ \A c \in Client : windows'[c] # Null => windows'[c].resetAt <= now + Minute
    BY <2>1, <2>3, <2>6 DEF ApiInv
  <2>8. admitted' \in [Client -> Seq(Nat)]
    <3>1. admitted' = admitted \/ admitted' = [admitted EXCEPT ![q.client] = Append(@, now)]
      BY <1>3 DEF LimitRate, q
    <3>2. Append(admitted[q.client], now) \in Seq(Nat)
      BY <2>1 DEF ApiInv
    <3> QED
      BY <2>1, <3>1, <3>2 DEF ApiInv
  <2> QED
    BY <1>3, <2>5, <2>7, <2>8 DEF LimitRate, ApiInv
<1>4. ASSUME NEW r \in Request, Lookup(r) PROVE ApiInv'
  <2> DEFINE q == request[r]
  <2>1. q \in Open /\ RequestOK(q, now) /\ q.pc = "lookup" /\ q.path \in Cached
        /\ q.at \in Nat /\ now \in Nat
    BY <1>4, InFlight DEF Lookup, At, RequestOK
  <2>2. ASSUME cache[q.path] # Null PROVE RequestOK(Answered(cache[q.path]), now)
    BY <2>1, <2>2 DEF ApiInv, Answered, Answer, RequestOK, Over
  <2>3. RequestOK(Load(q), now)
    <3> DEFINE l == Load(q)
    <3>1. /\ l \in Open /\ l.pc = "name" /\ l.at = now
          /\ l.path = q.path /\ l.risk = q.risk /\ q.risk = Null
      BY <2>1 DEF Load, RequestOK, Open
    <3> HIDE DEF l
    <3>2. RequestOK(l, now)
      BY <1>0, <2>1, <3>1 DEF RequestOK
    <3> QED
      BY <3>2 DEF l
  <2>4. /\ request' \in [Request -> Open \cup Over]
        /\ \A s \in Request : RequestOK(request'[s], now')
    BY <1>4, <2>2, <2>3, OneRequest DEF Lookup
  <2> QED
    BY <1>4, <2>4 DEF Lookup, ApiInv
<1>5. ASSUME NEW r \in Request, ReadName(r) \/ ReadRisk(r) \/ FailLoad(r) PROVE ApiInv'
  <2> DEFINE q == request[r]
  <2>1. q \in Open /\ RequestOK(q, now) /\ now \in Nat /\ q.pc \in {"name", "risk"}
    BY <1>5, InFlight DEF ReadName, ReadRisk, FailLoad, At
  <2>2. ASSUME ReadName(r)
        PROVE  RequestOK([q EXCEPT !.pc = IF q.path = "hubs" THEN "risk" ELSE "store",
                                   !.name = known], now)
    BY <2>1, <2>2 DEF ReadName, At, ApiInv, RequestOK, Open
  <2>3. ASSUME ReadRisk(r) PROVE RequestOK([q EXCEPT !.pc = "store", !.risk = known], now)
    BY <2>1, <2>3 DEF ReadRisk, At, ApiInv, RequestOK, Open
  <2>4. /\ request' \in [Request -> Open \cup Over]
        /\ \A s \in Request : RequestOK(request'[s], now')
        /\ now' = now
    <3>1. CASE ReadName(r)
      BY <2>2, <3>1, OneRequest DEF ReadName
    <3>2. CASE ReadRisk(r)
      BY <2>3, <3>2, OneRequest DEF ReadRisk
    <3>3. CASE FailLoad(r)
      BY <3>3, Leaves, OneRequest DEF FailLoad
    <3> QED
      BY <1>5, <3>1, <3>2, <3>3
  <2>5. errors' \in Nat
    BY <1>5 DEF ReadName, ReadRisk, FailLoad, ApiInv
  <2> QED
    BY <1>5, <2>4, <2>5 DEF ReadName, ReadRisk, FailLoad, ApiInv
<1>6. ASSUME NEW r \in Request, StoreAnswer(r) PROVE ApiInv'
  <2> DEFINE q == request[r]
             entry == [name |-> q.name, risk |-> q.risk, expires |-> now + Ttl]
  <2>1. q \in Open /\ RequestOK(q, now) /\ q.pc = "store" /\ q.path \in Cached /\ now \in Nat
        /\ q.name \in Entity /\ IF q.path = "hubs" THEN q.risk \in Entity ELSE q.risk = Null
    BY <1>6, InFlight DEF StoreAnswer, At, RequestOK
  <2>2. RequestOK(Answered(q), now)
    BY <2>1 DEF Answered, Answer, RequestOK, Over
  <2>3. /\ request' \in [Request -> Open \cup Over]
        /\ \A s \in Request : RequestOK(request'[s], now')
    BY <1>6, <2>2, OneRequest DEF StoreAnswer
  <2>4. cache' = [cache EXCEPT ![q.path] = entry]
    BY <1>6 DEF StoreAnswer
  <2>5. /\ cache' \in [Cached -> [name : Entity, risk : Entity \cup {Null}, expires : Nat] \cup {Null}]
        /\ \A p \in Cached : cache'[p] # Null =>
              /\ cache'[p].expires <= now + Ttl
              /\ IF p = "hubs" THEN cache'[p].risk \in Entity ELSE cache'[p].risk = Null
    BY <1>0, <2>1, <2>4 DEF ApiInv
  <2> QED
    BY <1>6, <2>3, <2>5 DEF StoreAnswer, ApiInv
<1>7. ASSUME NEW r \in Request, SaveLabel(r) PROVE ApiInv'
  <2>1. /\ request' \in [Request -> Open \cup Over]
        /\ \A s \in Request : RequestOK(request'[s], now')
    BY <1>7, Leaves, OneRequest DEF SaveLabel
  <2>2. known' \in Entity /\ labelled' \in Seq(Nat)
    BY <1>7 DEF SaveLabel, ApiInv, Entity
  <2> QED
    BY <1>7, <2>1, <2>2 DEF SaveLabel, ApiInv
<1>8. CASE Restart
  <2>1. \A r \in Request : request'[r] \in Open \cup Over /\ RequestOK(request'[r], now')
    BY <1>8, Leaves DEF Restart, Over
  <2>2. known' \in Entity
    BY <1>8 DEF Restart, Seeded, Entity, ApiInv
  <2>3. request' \in [Request -> Open \cup Over]
    BY <1>8, <2>1 DEF Restart
  <2> QED
    BY <1>8, <2>1, <2>2, <2>3 DEF Restart, ApiInv
<1>9. CASE UNCHANGED apiVars
  BY <1>9 DEF apiVars, ApiInv
<1> QED
  BY <1>1, <1>2, <1>3, <1>4, <1>5, <1>6, <1>7, <1>8, <1>9 DEF ApiNext, Serve

\* The windows, the cache and the requests in flight are well formed, for any number of
\* requests, clients and labels and without a bound on the time: hubs are cached with a risk.
THEOREM ApiTypeCorrect == ApiSpec => []ApiTypeOK
<1>1. ApiSpec => []ApiInv
  BY ApiInvInit, ApiInvStep, PTL DEF ApiSpec
<1> QED
  BY <1>1, ApiInvTyped, PTL
-----------------------------------------------------------------------------
(***************************************************************************)
(* The limiter.                                                            *)
(***************************************************************************)

\* How many admissions of a client its window counts.
InWindow(c) == IF windows[c].count <= Limit THEN windows[c].count ELSE Limit

\* The last admissions are those of the window, and came after it started; those before them
\* came before it, give or take the wait for the lock; and all but one more limit of those
\* came long ago.
Windowed(c) ==
    LET times == admitted[c] IN
    /\ \A i \in DOMAIN times : times[i] <= now
    /\ IF windows[c] = Null THEN times = <<>>
       ELSE /\ InWindow(c) <= Len(times)
            /\ \A i \in DOMAIN times :
                  /\ IF i > Len(times) - InWindow(c)
                     THEN times[i] + Minute >= windows[c].resetAt
                     ELSE times[i] + Minute <= windows[c].resetAt + MaxWait
                  /\ i <= Len(times) - InWindow(c) - Limit => times[i] + Minute < now + MaxWait

AllWindowed == \A c \in Client : Windowed(c)

LEMMA WindowedInit == ApiInit => AllWindowed
BY DEF ApiInit, AllWindowed, Windowed

\* One more admission, in a window that started before it or with it.
LEMMA AdmittedOnce ==
    ASSUME NEW c \in Client, ApiInv, Windowed(c), NEW at \in Nat, at <= now, now <= at + MaxWait,
           windows'[c] = Counted(windows[c], at), windows'[c].count <= Limit,
           admitted'[c] = Append(admitted[c], now), now' = now
    PROVE  Windowed(c)'
<1> DEFINE times == admitted[c]
           window == windows[c]
           n == Len(times)
<1>0. /\ Limit \in Nat \ {0} /\ Minute \in Nat \ {0} /\ MaxWait \in Nat
      /\ Null \notin [count : Nat, resetAt : Nat]
  BY ApiAssumption DEF ApiAssumption
<1>1. /\ times \in Seq(Nat) /\ now \in Nat /\ n \in Nat
      /\ window \in [count : 1 .. (Limit + 1), resetAt : Nat] \cup {Null}
      /\ window # Null => window.resetAt <= now + Minute
  BY DEF ApiInv
<1>2. /\ Counted(window, at) \in [count : 1 .. (Limit + 1), resetAt : Nat]
      /\ IF Ended(window, at)
         THEN Counted(window, at) = [count |-> 1, resetAt |-> at + Minute]
         ELSE /\ Counted(window, at).resetAt = window.resetAt
              /\ Counted(window, at).count =
                   IF window.count <= Limit THEN window.count + 1 ELSE Limit + 1
  BY <1>1, CountedTyped
<1>3. windows'[c] # Null
  BY <1>0, <1>2
<1>4. /\ DOMAIN Append(times, now) = 1 .. (n + 1) /\ Len(Append(times, now)) = n + 1
      /\ \A i \in 1 .. n : Append(times, now)[i] = times[i] /\ times[i] \in Nat
      /\ Append(times, now)[n + 1] = now
  BY <1>1, Appended
<1>5. /\ \A i \in 1 .. n : times[i] <= now
      /\ IF window = Null THEN n = 0
         ELSE /\ InWindow(c) <= n
              /\ \A i \in 1 .. n :
                    /\ IF i > n - InWindow(c)
                       THEN times[i] + Minute >= window.resetAt
                       ELSE times[i] + Minute <= window.resetAt + MaxWait
                    /\ i <= n - InWindow(c) - Limit => times[i] + Minute < now + MaxWait
  BY <1>1 DEF Windowed
<1> DEFINE k == IF Ended(window, at) THEN 1 ELSE InWindow(c) + 1
           reset == IF Ended(window, at) THEN at + Minute ELSE window.resetAt
<1>6. /\ windows'[c].count = k /\ InWindow(c)' = k /\ windows'[c].resetAt = reset
      /\ k \in 1 .. Limit /\ reset \in Nat
      /\ ~Ended(window, at) => at <= reset /\ window # Null
      /\ window # Null => window.resetAt \in Nat /\ InWindow(c) \in 1 .. Limit
      /\ Ended(window, at) /\ window # Null => window.resetAt < at
  BY <1>0, <1>1, <1>2 DEF InWindow, Ended
<1>7. ASSUME NEW i \in 1 .. n
      PROVE  /\ times[i] <= now
             /\ IF i > n + 1 - k THEN times[i] + Minute >= reset
                                 ELSE times[i] + Minute <= reset + MaxWait
             /\ i <= n + 1 - k - Limit => times[i] + Minute < now + MaxWait
  <2> DEFINE time == times[i]
             old == window.resetAt
             ended == Ended(window, at)
             m == InWindow(c)
  <2>1. /\ time \in Nat /\ time <= now /\ window # Null /\ m <= n /\ m \in 1 .. Limit /\ old \in Nat
        /\ IF i > n - m THEN time + Minute >= old ELSE time + Minute <= old + MaxWait
        /\ i <= n - m - Limit => time + Minute < now + MaxWait
        /\ ended => old < at
    BY <1>0, <1>1, <1>4, <1>5, <1>6
  <2>2. k = IF ended THEN 1 ELSE m + 1
    OBVIOUS
  <2>3. reset = IF ended THEN at + Minute ELSE old
    OBVIOUS
  <2> HIDE DEF time, old, ended, m, k, reset, n
  <2>4. CASE ended
    <3>1. i \in 1 .. n /\ n \in Nat /\ k = 1 /\ reset = at + Minute /\ old < at
      BY <1>1, <2>1, <2>2, <2>3, <2>4
    <3>2. ~(i > n + 1 - k) /\ time + Minute <= reset + MaxWait
      BY <1>0, <1>1, <2>1, <3>1
    <3>3. i <= n + 1 - k - Limit => time + Minute < now + MaxWait
      <4>1. SUFFICES ASSUME i <= n - Limit PROVE time + Minute < now + MaxWait
        BY <1>0, <3>1
      <4>2. ~(i > n - m)
        BY <1>0, <2>1, <3>1, <4>1
      <4>3. time + Minute <= old + MaxWait
        BY <2>1, <4>2
      <4> QED
        BY <1>0, <1>1, <2>1, <3>1, <4>3
    <3> QED
      BY <2>1, <3>2, <3>3 DEF time
  <2>5. CASE ~ended
    BY <1>0, <1>1, <2>1, <2>2, <2>3, <2>5 DEF time
  <2> QED
    BY <2>4, <2>5
<1>8. now + Minute >= reset
  BY <1>0, <1>1, <1>6
<1>9. k <= n + 1
  <2>1. CASE Ended(window, at)
    BY <1>1, <2>1
  <2>2. CASE ~Ended(window, at)
    BY <1>0, <1>1, <1>5, <1>6, <2>2
  <2> QED
    BY <2>1, <2>2
<1> HIDE DEF k, reset
<1> DEFINE after == Append(times, now)
<1>10. ASSUME NEW i \in 1 .. (n + 1)
       PROVE  /\ after[i] <= now
              /\ IF i > n + 1 - k THEN after[i] + Minute >= reset
                                  ELSE after[i] + Minute <= reset + MaxWait
              /\ i <= n + 1 - k - Limit => after[i] + Minute < now + MaxWait
  <2>1. CASE i = n + 1
    <3>1. after[i] = now
      BY <1>4, <2>1
    <3>2. i > n + 1 - k /\ ~(i <= n + 1 - k - Limit)
      BY <1>0, <1>1, <1>6, <2>1
    <3> QED
      BY <1>1, <1>8, <3>1, <3>2
  <2>2. CASE i \in 1 .. n
    BY <1>4, <1>7, <2>2
  <2> QED
    BY <1>1, <2>1, <2>2
<1>11. admitted'[c] = after /\ DOMAIN after = 1 .. (n + 1) /\ Len(after) = n + 1
  BY <1>4
<1> HIDE DEF after, times, window
<1>12. ASSUME NEW i \in DOMAIN admitted'[c]
       PROVE  /\ admitted'[c][i] <= now'
              /\ IF i > Len(admitted'[c]) - InWindow(c)'
                 THEN admitted'[c][i] + Minute >= windows'[c].resetAt
                 ELSE admitted'[c][i] + Minute <= windows'[c].resetAt + MaxWait
              /\ i <= Len(admitted'[c]) - InWindow(c)' - Limit =>
                    admitted'[c][i] + Minute < now' + MaxWait
  <2>1. i \in 1 .. (n + 1)
    BY <1>11
  <2> HIDE DEF n
  <2>2. /\ after[i] <= now
        /\ IF i > n + 1 - k THEN after[i] + Minute >= reset ELSE after[i] + Minute <= reset + MaxWait
        /\ i <= n + 1 - k - Limit => after[i] + Minute < now + MaxWait
    BY <1>10, <2>1
  <2>3. /\ admitted'[c] = after /\ Len(admitted'[c]) = n + 1 /\ InWindow(c)' = k
        /\ windows'[c].resetAt = reset
    BY <1>6, <1>11
  <2>7. n \in Nat /\ k \in Nat /\ i \in Nat /\ Limit \in Nat
    BY <1>0, <1>1, <1>6, <2>1 DEF n, times
  <2> HIDE DEF k, reset
  <2>4. admitted'[c][i] <= now'
    BY <2>2, <2>3
  <2>5. IF i > Len(admitted'[c]) - InWindow(c)'
        THEN admitted'[c][i] + Minute >= windows'[c].resetAt
        ELSE admitted'[c][i] + Minute <= windows'[c].resetAt + MaxWait
    BY <2>2, <2>3, <2>7
  <2>6. i <= Len(admitted'[c]) - InWindow(c)' - Limit => admitted'[c][i] + Minute < now' + MaxWait
    BY <2>2, <2>3, <2>7
  <2> QED
    BY <2>4, <2>5, <2>6
<1>13. InWindow(c)' <= Len(admitted'[c])
  BY <1>6, <1>9, <1>11
<1> QED
  BY <1>3, <1>12, <1>13 DEF Windowed

\* One more refusal: the window is full and goes on.
LEMMA RefusedOnce ==
    ASSUME NEW c \in Client, ApiInv, Windowed(c), NEW at \in Nat, at <= now,
           windows'[c] = Counted(windows[c], at), ~(windows'[c].count <= Limit),
           admitted'[c] = admitted[c], now' = now
    PROVE  /\ Windowed(c)'
           /\ windows[c] # Null /\ at <= windows[c].resetAt /\ InWindow(c) = Limit
<1>0. /\ Limit \in Nat \ {0} /\ Minute \in Nat \ {0} /\ MaxWait \in Nat
      /\ Null \notin [count : Nat, resetAt : Nat]
  BY ApiAssumption DEF ApiAssumption
<1>1. /\ now \in Nat
      /\ windows[c] \in [count : 1 .. (Limit + 1), resetAt : Nat] \cup {Null}
      /\ windows[c] # Null => windows[c].resetAt <= now + Minute
  BY DEF ApiInv
<1>2. /\ windows'[c] \in [count : 1 .. (Limit + 1), resetAt : Nat]
      /\ IF Ended(windows[c], at)
         THEN windows'[c] = [count |-> 1, resetAt |-> at + Minute]
         ELSE /\ windows'[c].resetAt = windows[c].resetAt
              /\ windows'[c].count =
                   IF windows[c].count <= Limit THEN windows[c].count + 1 ELSE Limit + 1
  <2>1. PICK window : window = windows[c]
    OBVIOUS
  <2>2. /\ Counted(window, at) \in [count : 1 .. (Limit + 1), resetAt : Nat]
        /\ IF Ended(window, at)
           THEN Counted(window, at) = [count |-> 1, resetAt |-> at + Minute]
           ELSE /\ Counted(window, at).resetAt = window.resetAt
                /\ Counted(window, at).count =
                     IF window.count <= Limit THEN window.count + 1 ELSE Limit + 1
    BY <1>1, <2>1, CountedTyped
  <2>3. windows'[c] = Counted(window, at)
    BY <2>1
  <2> QED
    BY <2>1, <2>2, <2>3
<1>3. ~Ended(windows[c], at) /\ windows'[c] # Null
  BY <1>0, <1>2
<1>4. windows[c] # Null /\ at <= windows[c].resetAt /\ windows[c].count \in 1 .. (Limit + 1)
  BY <1>1, <1>3 DEF Ended
<1>5. InWindow(c) = Limit /\ InWindow(c)' = Limit /\ windows'[c].resetAt = windows[c].resetAt
  BY <1>0, <1>2, <1>3, <1>4 DEF InWindow
<1> QED
  BY <1>3, <1>4, <1>5 DEF Windowed

\* What the limiter does to the client it serves, and to no other.
LEMMA LimitedClient ==
    ASSUME ApiInv, AllWindowed, NEW r \in Request, LimitRate(r),
           NEW c \in Client, c = request[r].client
    PROVE  /\ AllWindowed'
           /\ request'[r].pc = "refused" =>
                 /\ windows[c] # Null /\ now <= windows[c].resetAt + MaxWait
                 /\ InWindow(c) = Limit
<1> DEFINE q == request[r]
<1>1. /\ q \in Open /\ RequestOK(q, now) /\ q.pc = "limit" /\ q.path \in Path
      /\ q.at \in Nat /\ q.at <= now /\ now \in Nat
  BY InFlight DEF LimitRate, At
<1>2. now <= q.at + MaxWait
  BY <1>1 DEF RequestOK
<1>3. windows' = [windows EXCEPT ![c] = Counted(windows[c], q.at)] /\ now' = now
  BY DEF LimitRate
<1>4. windows'[c] = Counted(windows[c], q.at)
  BY <1>1, <1>3 DEF ApiInv
<1>5. /\ IF Counted(windows[c], q.at).count <= Limit
         THEN admitted' = [admitted EXCEPT ![c] = Append(@, now)]
         ELSE admitted' = admitted
      /\ request'[r].pc = "refused" => ~(Counted(windows[c], q.at).count <= Limit)
  BY <1>1 DEF LimitRate, GoTo, ApiInv, Open
<1>6. Windowed(c)
  BY <1>1 DEF AllWindowed
<1>7. CASE Counted(windows[c], q.at).count <= Limit
  <2>1. admitted'[c] = Append(admitted[c], now)
    BY <1>1, <1>5, <1>7 DEF ApiInv
  <2>2. Windowed(c)'
    BY <1>1, <1>2, <1>3, <1>4, <1>6, <1>7, <2>1, AdmittedOnce
  <2>3. \A d \in Client \ {c} : Windowed(d)'
    BY <1>1, <1>3, <1>5, <1>7 DEF AllWindowed, Windowed, InWindow, ApiInv
  <2> QED
    BY <1>5, <1>7, <2>2, <2>3 DEF AllWindowed
<1>8. CASE ~(Counted(windows[c], q.at).count <= Limit)
  <2>1. Windowed(c)' /\ windows[c] # Null /\ q.at <= windows[c].resetAt /\ InWindow(c) = Limit
    BY <1>1, <1>3, <1>4, <1>5, <1>6, <1>8, RefusedOnce
  <2>2. \A d \in Client \ {c} : Windowed(d)'
    BY <1>1, <1>3, <1>5, <1>8 DEF AllWindowed, Windowed, InWindow, ApiInv
  <2>3. windows[c].resetAt \in Nat /\ MaxWait \in Nat
    BY <1>1, <2>1, ApiAssumption DEF ApiInv, ApiAssumption
  <2> QED
    BY <1>1, <1>2, <2>1, <2>2, <2>3 DEF AllWindowed
<1> QED
  BY <1>7, <1>8

LEMMA WindowedStep == ApiInv /\ AllWindowed /\ [ApiNext]_apiVars => AllWindowed'
<1> SUFFICES ASSUME ApiInv, AllWindowed, [ApiNext]_apiVars PROVE AllWindowed'
  OBVIOUS
<1>1. CASE ClockTicks
  <2>1. now \in Nat /\ now' = now + 1 /\ windows' = windows /\ admitted' = admitted
        /\ Minute \in Nat /\ MaxWait \in Nat
    BY <1>1, ApiAssumption DEF ClockTicks, ApiInv, ApiAssumption
  <2>2. \A c \in Client : \A i \in DOMAIN admitted[c] : admitted[c][i] \in Nat
    BY DEF ApiInv
  <2>3. \A c \in Client : InWindow(c)' = InWindow(c)
    BY <2>1 DEF InWindow
  <2> QED
    BY <2>1, <2>2, <2>3 DEF AllWindowed, Windowed
<1>2. CASE \E r \in Request : LimitRate(r)
  <2>1. PICK r \in Request : LimitRate(r)
    BY <1>2
  <2>2. request[r].client \in Client
    BY <2>1, InFlight DEF LimitRate, At
  <2> QED
    BY <2>1, <2>2, LimitedClient
<1>3. CASE Restart
  BY <1>3 DEF Restart, AllWindowed, Windowed
<1>4. ASSUME UNCHANGED <<now, windows, admitted>> PROVE AllWindowed'
  BY <1>4 DEF AllWindowed, Windowed, InWindow
<1>5. CASE \E r \in Request, c \in Client, path \in Path, authorised \in BOOLEAN :
              Arrive(r, c, path, authorised)
  BY <1>4, <1>5 DEF Arrive
<1>6. CASE \E r \in Request :
              Lookup(r) \/ ReadName(r) \/ ReadRisk(r) \/ FailLoad(r) \/ StoreAnswer(r) \/ SaveLabel(r)
  BY <1>4, <1>6 DEF Lookup, ReadName, ReadRisk, FailLoad, StoreAnswer, SaveLabel
<1>7. CASE UNCHANGED apiVars
  BY <1>4, <1>7 DEF apiVars
<1> QED
  BY <1>1, <1>2, <1>3, <1>5, <1>6, <1>7 DEF ApiNext, Serve

\* What Windowed says of the admissions of one client, in two intervals of them.
LEMMA Counting ==
    ASSUME ApiInv, NEW c \in Client, Windowed(c), NEW span \in Int
    PROVE  /\ AdmittedWithin(c, span) \in Nat
           /\ span <= Minute - MaxWait => AdmittedWithin(c, span) <= 2 * Limit
           /\ windows[c] # Null /\ InWindow(c) = Limit /\ now <= windows[c].resetAt + span - Minute
                => AdmittedWithin(c, span) >= Limit
<1> DEFINE times == admitted[c]
           n == Len(times)
           k == InWindow(c)
           S == {i \in DOMAIN times : times[i] >= now - span}
<1>0. Limit \in Nat \ {0} /\ Minute \in Nat \ {0} /\ MaxWait \in Nat
  BY ApiAssumption DEF ApiAssumption
<1>1. /\ now \in Nat /\ n \in Nat /\ DOMAIN times = 1 .. n /\ \A i \in 1 .. n : times[i] \in Nat
      /\ windows[c] # Null => windows[c].resetAt \in Nat /\ k \in 1 .. Limit
  BY <1>0 DEF ApiInv, InWindow
<1>2. IsFiniteSet(S) /\ Cardinality(S) \in Nat
  <2>1. S \in SUBSET (1 .. n)
    BY <1>1
  <2> HIDE DEF S, n
  <2>2. IsFiniteSet(1 .. n)
    BY <1>1, FS_Interval
  <2> QED
    BY <2>1, <2>2, FS_Subset, FS_CardinalityType
<1>3. AdmittedWithin(c, span) = Cardinality(S)
  BY DEF AdmittedWithin
<1>4. IF windows[c] = Null THEN n = 0
      ELSE /\ k <= n
           /\ \A i \in 1 .. n :
                 /\ i > n - k => times[i] + Minute >= windows[c].resetAt
                 /\ i <= n - k - Limit => times[i] + Minute < now + MaxWait
  BY <1>1 DEF Windowed
<1>5. ASSUME span <= Minute - MaxWait PROVE Cardinality(S) <= 2 * Limit
  <2> DEFINE low == IF windows[c] # Null /\ n - k - Limit >= 0 THEN n - k - Limit + 1 ELSE 1
  <2>1. low \in Int /\ n - low + 1 <= 2 * Limit /\ n - low + 1 >= 0
    <3>1. CASE windows[c] = Null
      BY <1>0, <1>1, <1>4, <3>1
    <3>2. CASE windows[c] # Null
      BY <1>0, <1>1, <1>4, <3>2
    <3> QED
      BY <3>1, <3>2
  <2>2. S \subseteq low .. n
    <3>1. SUFFICES ASSUME NEW i \in 1 .. n, times[i] >= now - span PROVE i >= low
      BY <1>1, <2>1
    <3>2. CASE windows[c] # Null /\ n - k - Limit >= 0
      <4>1. ~(times[i] + Minute < now + MaxWait)
        BY <1>0, <1>1, <1>5, <3>1
      <4>2. ~(i <= n - k - Limit)
        BY <1>4, <3>2, <4>1
      <4> QED
        BY <1>0, <1>1, <3>2, <4>2
    <3>3. CASE ~(windows[c] # Null /\ n - k - Limit >= 0)
      BY <3>3
    <3> QED
      BY <3>2, <3>3
  <2>3. IsFiniteSet(low .. n) /\ Cardinality(low .. n) = IF low > n THEN 0 ELSE n - low + 1
    <3>1. low \in Int /\ n \in Int
      BY <1>1, <2>1
    <3> HIDE DEF low, n
    <3> QED
      BY <3>1, FS_Interval
  <2>4. Cardinality(S) <= Cardinality(low .. n)
    BY <2>2, <2>3, FS_Subset
  <2> HIDE DEF low, S
  <2> QED
    BY <1>0, <1>1, <1>2, <2>1, <2>3, <2>4
<1>6. ASSUME windows[c] # Null, k = Limit, now <= windows[c].resetAt + span - Minute
      PROVE  Cardinality(S) >= Limit
  <2> DEFINE T == (n - Limit + 1) .. n
  <2>1. T \subseteq S
    <3>1. SUFFICES ASSUME NEW i \in T PROVE i \in 1 .. n /\ times[i] >= now - span
      BY <1>1
    <3>2. i \in 1 .. n /\ i > n - k /\ Limit <= n
      BY <1>0, <1>1, <1>4, <1>6
    <3>3. times[i] + Minute >= windows[c].resetAt /\ windows[c].resetAt \in Nat /\ times[i] \in Nat
      BY <1>1, <1>4, <1>6, <3>2
    <3>4. times[i] >= now - span
      <4> DEFINE time == times[i]
                 end == windows[c].resetAt
      <4>1. /\ time \in Nat /\ end \in Nat /\ now \in Nat /\ Minute \in Nat /\ span \in Int
            /\ time + Minute >= end /\ now <= end + span - Minute
        BY <1>0, <1>1, <1>6, <3>3
      <4> HIDE DEF time, end
      <4>2. time >= now - span
        BY <4>1
      <4> QED
        BY <4>2 DEF time
    <3> QED
      BY <3>2, <3>4
  <2>2. Cardinality(T) = Limit
    <3> DEFINE low == n - Limit + 1
    <3>1. low \in Int /\ n \in Int /\ ~(low > n) /\ n - low + 1 = Limit
      BY <1>0, <1>1
    <3> HIDE DEF low, n
    <3>2. Cardinality(low .. n) = n - low + 1
      BY <3>1, FS_Interval
    <3> QED
      BY <3>1, <3>2 DEF low
  <2>3. Cardinality(T) <= Cardinality(S)
    <3> HIDE DEF T, S
    <3> QED
      BY <1>2, <2>1, FS_Subset
  <2> QED
    BY <2>2, <2>3
<1> QED
  BY <1>2, <1>3, <1>5, <1>6

\* Around the end of a window a client gets at most twice its limit in a minute less the wait
\* for the lock, whatever the limit, the minute and the wait are.
THEOREM ApiAtMostTwice == ApiSpec => []AtMostTwiceLimit
<1>1. ApiInv /\ AllWindowed => AtMostTwiceLimit
  <2>1. Minute - MaxWait \in Int
    BY ApiAssumption DEF ApiAssumption
  <2> QED
    BY <2>1, Counting DEF AllWindowed, AtMostTwiceLimit
<1> QED
  BY <1>1, ApiInvInit, ApiInvStep, WindowedInit, WindowedStep, PTL DEF ApiSpec

LEMMA RefusedOverLimit ==
    ASSUME ApiInv, AllWindowed, [ApiNext]_apiVars,
           NEW r \in Request, At(r, "limit"), request'[r].pc = "refused"
    PROVE  AdmittedWithin(request[r].client, Minute + MaxWait) >= Limit
<1>1. request[r].client \in Client
  BY InFlight DEF At
<1>2. CASE LimitRate(r)
  <2>1. PICK c \in Client : c = request[r].client
    BY <1>1
  <2>2. windows[c] # Null /\ now <= windows[c].resetAt + MaxWait /\ InWindow(c) = Limit
    BY <1>2, <2>1, LimitedClient
  <2>3. windows[c].resetAt \in Nat /\ Minute \in Nat /\ MaxWait \in Nat /\ now \in Nat
    BY <2>2, ApiAssumption DEF ApiInv, ApiAssumption
  <2>4. Minute + MaxWait \in Int /\ now <= windows[c].resetAt + (Minute + MaxWait) - Minute
    BY <2>2, <2>3
  <2> QED
    BY <2>1, <2>2, <2>4, Counting DEF AllWindowed
<1>3. ASSUME NEW s \in Request, NEW q, GoTo(s, q), s # r PROVE FALSE
  BY <1>3 DEF GoTo, ApiInv, At
<1>4. ASSUME NEW s \in Request, LimitRate(s), ~LimitRate(r) PROVE FALSE
  BY <1>3, <1>4 DEF LimitRate
<1>5. ASSUME NEW s \in Request,
             Lookup(s) \/ ReadName(s) \/ ReadRisk(s) \/ FailLoad(s) \/ StoreAnswer(s) \/ SaveLabel(s)
      PROVE  FALSE
  <2>1. ~At(s, "limit")
    BY <1>5 DEF Lookup, ReadName, ReadRisk, FailLoad, StoreAnswer, SaveLabel, At
  <2> QED
    BY <1>3, <1>5, <2>1 DEF Lookup, ReadName, ReadRisk, FailLoad, StoreAnswer, SaveLabel
<1>6. ASSUME NEW s \in Request, NEW c \in Client, NEW path \in Path, NEW authorised \in BOOLEAN,
             Arrive(s, c, path, authorised)
      PROVE  FALSE
  <2>1. ~At(s, "limit")
    BY <1>6 DEF Arrive, At, Over
  <2> QED
    BY <1>3, <1>6, <2>1 DEF Arrive
<1>7. ASSUME ClockTicks \/ Restart \/ UNCHANGED apiVars PROVE FALSE
  BY <1>7 DEF ClockTicks, Restart, apiVars, At
<1> QED
  BY <1>2, <1>4, <1>5, <1>6, <1>7 DEF ApiNext, Serve

\* A client is refused only when it was admitted Limit times within the last minute and wait.
THEOREM ApiRefusedOnlyOverLimit == ApiSpec => RefusedOnlyOverLimit
<1>1. ApiInv /\ AllWindowed /\ [ApiNext]_apiVars =>
        [\A r \in Request :
            At(r, "limit") /\ request'[r].pc = "refused" =>
                AdmittedWithin(request[r].client, Minute + MaxWait) >= Limit]_apiVars
  BY RefusedOverLimit
<1> QED
  BY <1>1, ApiInvInit, ApiInvStep, WindowedInit, WindowedStep, PTL DEF ApiSpec, RefusedOnlyOverLimit
-----------------------------------------------------------------------------
(***************************************************************************)
(* The label.                                                              *)
(***************************************************************************)

\* An entity is as the row was after every label that was saved before the given time.
Shows(entity, time) ==
    \A i \in DOMAIN labelled : labelled[i] < time => entity.source = "manual" /\ entity.number >= i

\* One entity is not older than another.
NotOlder(entity, than) ==
    than.source = "manual" => entity.source = "manual" /\ entity.number >= than.number

\* The row shows every label.
RowShows ==
    /\ \A i \in DOMAIN labelled : known.source = "manual" /\ known.number >= i
    /\ \A i \in DOMAIN labelled : labelled[i] <= now
    /\ known.source = "manual" => known.number <= Len(labelled)

\* An entry of the cache shows what was saved before it was loaded, and its risk was read
\* after its name.
EntryShows(p) ==
    cache[p] # Null =>
        /\ Shows(cache[p].name, cache[p].expires - (Ttl + MaxLoad))
        /\ p = "hubs" => NotOlder(cache[p].risk, cache[p].name)

\* So does a load.
LoadShows(q) ==
    /\ q.pc \in {"risk", "store"} => Shows(q.name, q.at)
    /\ q.pc = "risk" => NotOlder(known, q.name)
    /\ q.pc = "store" /\ q.path = "hubs" => NotOlder(q.risk, q.name)

LabelsInv ==
    /\ RowShows
    /\ \A p \in Cached : EntryShows(p)
    /\ \A r \in Request : LoadShows(request[r])

LEMMA LabelsInit == ApiInit => LabelsInv
BY DEF ApiInit, LabelsInv, RowShows, EntryShows, LoadShows

\* What an entity shows, it shows for ever: labels are only added, at the present.
LEMMA ShowsStays ==
    ASSUME ApiInv, NEW entity, NEW time \in Int, Shows(entity, time), time <= now,
           labelled' \in {labelled, Append(labelled, now)}
    PROVE  Shows(entity, time)'
<1>1. CASE labelled' = labelled
  BY <1>1 DEF Shows
<1>2. CASE labelled' = Append(labelled, now)
  <2>1. /\ labelled \in Seq(Nat) /\ now \in Nat
        /\ DOMAIN labelled' = 1 .. (Len(labelled) + 1) /\ DOMAIN labelled = 1 .. Len(labelled)
        /\ labelled'[Len(labelled) + 1] = now
        /\ \A i \in 1 .. Len(labelled) : labelled'[i] = labelled[i]
    BY <1>2, Appended DEF ApiInv
  <2> SUFFICES ASSUME NEW i \in DOMAIN labelled', labelled'[i] < time
               PROVE  entity.source = "manual" /\ entity.number >= i
    BY DEF Shows
  <2>2. i # Len(labelled) + 1
    BY <2>1
  <2>3. i \in DOMAIN labelled /\ labelled[i] < time
    BY <2>1, <2>2
  <2> QED
    BY <2>3 DEF Shows
<1> QED
  BY <1>1, <1>2

\* Entries and loads that a step leaves alone.
LEMMA OthersShow ==
    ASSUME ApiInv, LabelsInv, labelled' \in {labelled, Append(labelled, now)},
           \A name \in Entity : NotOlder(known, name) => NotOlder(known', name)
    PROVE  /\ \A p \in Cached : cache'[p] = cache[p] => EntryShows(p)'
           /\ \A r \in Request : request'[r] = request[r] => LoadShows(request[r])'
<1>0. Ttl \in Nat /\ MaxLoad \in Nat /\ now \in Nat
  BY ApiAssumption DEF ApiAssumption, ApiInv
<1>1. ASSUME NEW p \in Cached, cache'[p] = cache[p], cache[p] # Null PROVE EntryShows(p)'
  <2> DEFINE entry == cache[p]
             time == entry.expires - (Ttl + MaxLoad)
  <2>1. entry.expires \in Nat /\ entry.expires <= now + Ttl
    BY <1>1 DEF ApiInv
  <2>2. time \in Int /\ time <= now
    BY <1>0, <2>1
  <2>3. Shows(entry.name, time) /\ (p = "hubs" => NotOlder(entry.risk, entry.name))
    BY <1>1 DEF LabelsInv, EntryShows
  <2>4. ASSUME NEW name, name = entry.name, NEW t, t = time PROVE Shows(name, t)'
    BY <2>2, <2>3, <2>4, ShowsStays
  <2>5. \A i \in DOMAIN labelled' : labelled'[i] < time =>
            entry.name.source = "manual" /\ entry.name.number >= i
    <3> HIDE DEF entry, time
    <3> QED
      BY <2>4 DEF Shows
  <2> QED
    BY <1>1, <2>3, <2>5 DEF EntryShows, Shows, NotOlder
<1>2. ASSUME NEW r \in Request, request'[r] = request[r] PROVE LoadShows(request[r])'
  <2>1. PICK q : q = request[r]
    OBVIOUS
  <2>2. LoadShows(q) /\ RequestOK(q, now)
    BY <2>1 DEF LabelsInv, ApiInv
  <2>3. ASSUME q.pc \in {"risk", "store"}
        PROVE  Shows(q.name, q.at)' /\ q.name \in Entity
    <3>1. q.at \in Int /\ q.at <= now /\ q.name \in Entity
      BY <2>2, <2>3 DEF RequestOK, Open
    <3> QED
      BY <2>2, <2>3, <3>1, ShowsStays DEF LoadShows
  <2>4. LoadShows(q)'
    BY <2>2, <2>3 DEF LoadShows, NotOlder
  <2> QED
    BY <1>2, <2>1, <2>4
<1>3. \A p \in Cached : cache'[p] = cache[p] /\ cache[p] = Null => EntryShows(p)'
  BY DEF EntryShows
<1> QED
  BY <1>1, <1>2, <1>3

\* A step that leaves the row and the labels alone, and one request and the time at most
\* changed.
LEMMA LoadStep ==
    ASSUME ApiInv, LabelsInv, UNCHANGED <<known, labelled, cache>>, now' \in {now, now + 1},
           NEW r \in Request, NEW q, GoTo(r, q), LoadShows(q)
    PROVE  LabelsInv'
<1>1. now \in Nat /\ labelled \in Seq(Nat)
  BY DEF ApiInv
<1>2. RowShows'
  BY <1>1 DEF LabelsInv, RowShows
<1>3. /\ \A p \in Cached : EntryShows(p)'
      /\ \A s \in Request \ {r} : LoadShows(request[s])'
  BY OthersShow DEF GoTo, ApiInv
<1>4. LoadShows(request[r])'
  <2>1. request'[r] = q
    BY DEF GoTo, ApiInv
  <2>2. LoadShows(q)'
    BY DEF LoadShows, Shows, NotOlder
  <2> QED
    BY <2>1, <2>2
<1> QED
  BY <1>2, <1>3, <1>4 DEF LabelsInv

LEMMA LabelsStep == ApiInv /\ LabelsInv /\ [ApiNext]_apiVars => LabelsInv'
<1> SUFFICES ASSUME ApiInv, LabelsInv, [ApiNext]_apiVars PROVE LabelsInv'
  OBVIOUS
<1>0. /\ Ttl \in Nat /\ MaxLoad \in Nat /\ now \in Nat
      /\ labelled \in Seq(Nat) /\ Len(labelled) \in Nat /\ DOMAIN labelled = 1 .. Len(labelled)
      /\ \A i \in DOMAIN labelled : labelled[i] \in Nat
      /\ known \in [source : {"seed", "manual"}, number : Nat]
  BY ApiAssumption DEF ApiAssumption, ApiInv, Entity
<1>1. CASE ClockTicks \/ UNCHANGED apiVars
  <2>1. /\ now' \in {now, now + 1} /\ UNCHANGED <<known, labelled, cache, request>>
    BY <1>1 DEF ClockTicks, apiVars
  <2>2. RowShows'
    BY <1>0, <2>1 DEF LabelsInv, RowShows
  <2>3. \A name \in Entity : NotOlder(known, name) => NotOlder(known', name)
    BY <2>1
  <2> QED
    BY <2>1, <2>2, <2>3, OthersShow DEF LabelsInv
<1>2. CASE \E r \in Request, c \in Client, path \in Path, authorised \in BOOLEAN :
              Arrive(r, c, path, authorised)
  <2>1. \A c, path : LoadShows(Arriving(c, path)) /\ LoadShows([pc |-> "over"])
    BY DEF Arriving, LoadShows
  <2> QED
    BY <1>2, <2>1, LoadStep DEF Arrive
<1>3. ASSUME NEW r \in Request, LimitRate(r) \/ Lookup(r) \/ FailLoad(r) PROVE LabelsInv'
  <2>1. PICK q : GoTo(r, q) /\ q.pc \in {"label", "lookup", "refused", "answered", "name", "over"}
    <3>1. CASE LimitRate(r)
      <4>1. request[r] \in Open
        BY <3>1, InFlight DEF LimitRate, At
      <4> QED
        BY <3>1, <4>1 DEF LimitRate, Open
    <3>2. CASE Lookup(r)
      <4>1. request[r] \in Open
        BY <3>2, InFlight DEF Lookup, At
      <4>2. Load(request[r]).pc = "name" /\ \A entry : Answered(entry).pc = "answered"
        BY <4>1 DEF Load, Open, Answered
      <4> QED
        BY <3>2, <4>2 DEF Lookup
    <3>3. CASE FailLoad(r)
      BY <3>3 DEF FailLoad
    <3> QED
      BY <1>3, <3>1, <3>2, <3>3
  <2>2. LoadShows(q)
    BY <2>1 DEF LoadShows
  <2>3. UNCHANGED <<known, labelled, cache, now>>
    BY <1>3 DEF LimitRate, Lookup, FailLoad
  <2> QED
    BY <2>1, <2>2, <2>3, LoadStep
<1>4. ASSUME NEW r \in Request, ReadName(r) PROVE LabelsInv'
  <2> DEFINE q == [request[r] EXCEPT !.pc = IF request[r].path = "hubs" THEN "risk" ELSE "store",
                                     !.name = known]
  <2>1. request[r] \in Open /\ request[r].pc = "name"
    BY <1>4, InFlight DEF ReadName, At
  <2>2. /\ q.pc = IF q.path = "hubs" THEN "risk" ELSE "store"
        /\ q.name = known
    BY <2>1 DEF Open
  <2>3. \A time : Shows(known, time)
    BY DEF LabelsInv, RowShows, Shows
  <2>4. NotOlder(known, known)
    BY <1>0 DEF NotOlder
  <2>5. LoadShows(q)
    <3> HIDE DEF q
    <3> QED
      BY <2>2, <2>3, <2>4 DEF LoadShows
  <2> QED
    BY <1>4, <2>5, LoadStep DEF ReadName
<1>5. ASSUME NEW r \in Request, ReadRisk(r) PROVE LabelsInv'
  <2> DEFINE q == [request[r] EXCEPT !.pc = "store", !.risk = known]
  <2>1. request[r] \in Open /\ request[r].pc = "risk" /\ LoadShows(request[r])
    BY <1>5, InFlight DEF ReadRisk, At, LabelsInv
  <2>2. q.pc = "store" /\ q.name = request[r].name /\ q.at = request[r].at /\ q.risk = known
    BY <2>1 DEF Open
  <2>3. LoadShows(q)
    <3> HIDE DEF q
    <3> QED
      BY <2>1, <2>2 DEF LoadShows
  <2> QED
    BY <1>5, <2>3, LoadStep DEF ReadRisk
<1>6. ASSUME NEW r \in Request, StoreAnswer(r) PROVE LabelsInv'
  <2> DEFINE q == request[r]
             entry == [name |-> q.name, risk |-> q.risk, expires |-> now + Ttl]
  <2>1. q.pc = "store" /\ RequestOK(q, now) /\ LoadShows(q) /\ q.at \in Nat /\ q.path \in Cached
    BY <1>6, InFlight DEF StoreAnswer, At, LabelsInv, RequestOK
  <2>2. now <= q.at + MaxLoad
    BY <2>1 DEF RequestOK
  <2>3. /\ GoTo(r, Answered(q)) /\ cache' = [cache EXCEPT ![q.path] = entry]
        /\ UNCHANGED <<known, labelled, now>>
    BY <1>6 DEF StoreAnswer
  <2>4. Shows(q.name, now + Ttl - (Ttl + MaxLoad))
    <3>1. Shows(q.name, q.at)
      BY <2>1 DEF LoadShows
    <3>2. \A i \in DOMAIN labelled : labelled[i] < now + Ttl - (Ttl + MaxLoad) => labelled[i] < q.at
      BY <1>0, <2>1, <2>2
    <3> QED
      BY <3>1, <3>2 DEF Shows
  <2>5. cache'[q.path] = entry /\ \A p \in Cached \ {q.path} : cache'[p] = cache[p]
    BY <2>1, <2>3 DEF ApiInv
  <2>6. q.path = "hubs" => NotOlder(q.risk, q.name)
    BY <2>1 DEF LoadShows
  <2>7. \A p \in Cached : p = q.path => EntryShows(p)'
    <3>1. SUFFICES ASSUME NEW p \in Cached, p = q.path PROVE EntryShows(p)'
      OBVIOUS
    <3>2. PICK e : e = entry
      OBVIOUS
    <3>3. /\ Shows(e.name, e.expires - (Ttl + MaxLoad))
          /\ p = "hubs" => NotOlder(e.risk, e.name)
      <4>1. e.name = q.name /\ e.risk = q.risk /\ e.expires = now + Ttl
        BY <3>2
      <4>2. Shows(e.name, e.expires - (Ttl + MaxLoad))
        BY <1>0, <2>4, <4>1 DEF Shows
      <4> QED
        BY <2>6, <3>1, <4>1, <4>2 DEF NotOlder
    <3>4. /\ Shows(e.name, e.expires - (Ttl + MaxLoad))'
          /\ p = "hubs" => NotOlder(e.risk, e.name)'
      BY <2>3, <3>3 DEF Shows, NotOlder
    <3>5. cache'[p] = e
      BY <2>5, <3>1, <3>2
    <3> QED
      BY <3>4, <3>5 DEF EntryShows, Shows, NotOlder
  <2>8. \A s \in Request \ {r} : request'[s] = request[s]
    BY <2>3 DEF GoTo, ApiInv
  <2>9. LoadShows(request[r])'
    BY <2>3 DEF GoTo, ApiInv, Answered, LoadShows
  <2>10. /\ \A p \in Cached : cache'[p] = cache[p] => EntryShows(p)'
         /\ \A s \in Request : request'[s] = request[s] => LoadShows(request[s])'
    BY <2>3, OthersShow
  <2>11. RowShows'
    BY <2>3 DEF LabelsInv, RowShows
  <2> QED
    BY <2>5, <2>7, <2>8, <2>9, <2>10, <2>11 DEF LabelsInv
<1>7. ASSUME NEW r \in Request, SaveLabel(r) PROVE LabelsInv'
  <2>1. /\ labelled' = Append(labelled, now) /\ now' = now /\ cache' = cache
        /\ known' = [source |-> "manual", number |-> Len(labelled) + 1]
    BY <1>7 DEF SaveLabel
  <2>2. /\ Len(labelled') = Len(labelled) + 1 /\ DOMAIN labelled' = 1 .. (Len(labelled) + 1)
        /\ \A i \in DOMAIN labelled' : labelled'[i] = IF i \in DOMAIN labelled THEN labelled[i] ELSE now
    BY <1>0, <2>1
  <2>3. RowShows'
    BY <1>0, <2>1, <2>2 DEF LabelsInv, RowShows
  <2>4. \A name \in Entity : NotOlder(known, name) => NotOlder(known', name)
    <3>1. known.source = "manual" => known.number <= Len(labelled)
      BY DEF LabelsInv, RowShows
    <3> QED
      BY <1>0, <2>1, <3>1 DEF NotOlder, Entity
  <2>5. request'[r] = [pc |-> "over"] /\ \A s \in Request \ {r} : request'[s] = request[s]
    BY <1>7 DEF SaveLabel, GoTo, ApiInv
  <2>6. LoadShows(request[r])'
    BY <2>5 DEF LoadShows
  <2>7. /\ \A p \in Cached : EntryShows(p)'
        /\ \A s \in Request \ {r} : LoadShows(request[s])'
    BY <2>1, <2>4, <2>5, OthersShow
  <2> QED
    BY <2>3, <2>6, <2>7 DEF LabelsInv
<1>8. CASE Restart
  <2>1. RowShows'
    BY <1>0, <1>8 DEF Restart, Seeded, LabelsInv, RowShows
  <2>2. \A p \in Cached : EntryShows(p)'
    BY <1>8 DEF Restart, EntryShows
  <2>3. \A r \in Request : LoadShows(request[r])'
    BY <1>8 DEF Restart, LoadShows
  <2> QED
    BY <2>1, <2>2, <2>3 DEF LabelsInv
<1> QED
  BY <1>1, <1>2, <1>3, <1>4, <1>5, <1>6, <1>7, <1>8 DEF ApiNext, Serve

\* No answer is kept that shows a label with the risk the address had before it, however
\* loads, labels, restarts and other loads interleave.
THEOREM ApiRiskKeepsUp == ApiSpec => []RiskKeepsUp
<1>1. ApiInv /\ LabelsInv => RiskKeepsUp
  <2> SUFFICES ASSUME ApiInv, LabelsInv, NEW p \in Cached, cache[p] # Null, cache[p].risk # Null,
                      cache[p].name.source = "manual"
               PROVE  cache[p].risk.source = "manual" /\ cache[p].risk.number >= cache[p].name.number
    BY DEF RiskKeepsUp
  <2>1. p = "hubs"
    BY DEF ApiInv
  <2> QED
    BY <2>1 DEF LabelsInv, EntryShows, NotOlder
<1> QED
  BY <1>1, ApiInvInit, ApiInvStep, LabelsInit, LabelsStep, PTL DEF ApiSpec

\* An answer shows at least as many labels as were saved before the age it may have.
LEMMA AnswerShows ==
    ASSUME ApiInv, NEW entity \in Entity, NEW time \in Int, Shows(entity, time),
           now - (Ttl + MaxLoad) <= time, Settled > 0
    PROVE  entity.source = "manual" /\ entity.number >= Settled
<1> DEFINE Old == {i \in DOMAIN labelled : labelled[i] < now - (Ttl + MaxLoad)}
<1>0. /\ Ttl \in Nat /\ MaxLoad \in Nat /\ now \in Nat /\ entity.number \in Nat
      /\ DOMAIN labelled = 1 .. Len(labelled) /\ \A i \in DOMAIN labelled : labelled[i] \in Nat
  <2>1. entity.number \in Nat
    BY DEF Entity
  <2>2. labelled \in Seq(Nat) /\ now \in Nat
    BY DEF ApiInv
  <2> QED
    BY <2>1, <2>2, Appended, ApiAssumption DEF ApiAssumption
<1>1. \A i \in Old : entity.source = "manual" /\ i \in 1 .. entity.number
  BY <1>0 DEF Shows
<1>2. IsFiniteSet(1 .. entity.number) /\ Cardinality(1 .. entity.number) = entity.number
  <2>1. PICK m \in Nat : m = entity.number
    BY <1>0
  <2>2. /\ IsFiniteSet(1 .. m)
        /\ Cardinality(1 .. m) = IF 1 > m THEN 0 ELSE m - 1 + 1
    BY FS_Interval
  <2>3. Cardinality(1 .. m) = m
    BY <2>2
  <2> QED
    BY <2>1, <2>2, <2>3
<1>3. Cardinality(Old) <= entity.number
  <2>1. Old \in SUBSET (1 .. entity.number)
    BY <1>1
  <2> HIDE DEF Old
  <2> QED
    BY <1>2, <2>1, FS_Subset
<1>4. Settled = Cardinality(Old)
  BY DEF Settled
<1>5. Old # {}
  BY <1>4, FS_EmptySet
<1> QED
  BY <1>0, <1>1, <1>3, <1>4, <1>5

LEMMA AnswersShow ==
    ASSUME ApiInv, LabelsInv, [ApiNext]_apiVars, NEW r \in Request, Answers(r), Settled > 0
    PROVE  request'[r].answer.name.source = "manual" /\ request'[r].answer.name.number >= Settled
<1>0. Ttl \in Nat /\ MaxLoad \in Nat /\ now \in Nat
  BY ApiAssumption DEF ApiAssumption, ApiInv
<1>1. CASE Lookup(r)
  <2> DEFINE entry == cache[request[r].path]
  <2>1. request[r] \in Open /\ request[r].path \in Cached
    BY <1>1, InFlight DEF Lookup, At, RequestOK
  <2>2. entry # Null /\ now < entry.expires /\ request'[r] = Answered(entry)
    BY <1>1, <2>1 DEF Lookup, GoTo, ApiInv, Answers, Load, Open
  <2>3. /\ entry.name \in Entity /\ entry.expires \in Nat
        /\ Shows(entry.name, entry.expires - (Ttl + MaxLoad))
    BY <2>1, <2>2 DEF ApiInv, LabelsInv, EntryShows
  <2>4. request'[r].answer.name = entry.name
    BY <2>2 DEF Answered
  <2>5. entry.expires - (Ttl + MaxLoad) \in Int /\ now - (Ttl + MaxLoad) <= entry.expires - (Ttl + MaxLoad)
    BY <1>0, <2>2, <2>3
  <2> HIDE DEF entry
  <2> QED
    BY <2>3, <2>4, <2>5, AnswerShows
<1>2. CASE StoreAnswer(r)
  <2> DEFINE q == request[r]
  <2>1. /\ q.at \in Nat /\ now <= q.at + MaxLoad /\ q.name \in Entity /\ Shows(q.name, q.at)
        /\ request'[r].answer.name = q.name
    BY <1>2, InFlight DEF StoreAnswer, At, RequestOK, LabelsInv, LoadShows, GoTo, ApiInv, Answered
  <2>2. now - (Ttl + MaxLoad) <= q.at
    BY <1>0, <2>1
  <2> HIDE DEF q
  <2> QED
    BY <2>1, <2>2, AnswerShows
<1>3. ASSUME NEW s \in Request, NEW q, GoTo(s, q), s # r \/ q.pc # "answered" PROVE FALSE
  BY <1>3 DEF GoTo, ApiInv, Answers
<1>4. ASSUME NEW s \in Request, LimitRate(s) \/ ReadName(s) \/ ReadRisk(s) \/ FailLoad(s) \/ SaveLabel(s)
      PROVE  FALSE
  <2>1. LimitRate(s) \/ ReadName(s) \/ ReadRisk(s) => request[s] \in Open
    BY InFlight DEF LimitRate, ReadName, ReadRisk, At
  <2> QED
    BY <1>3, <1>4, <2>1 DEF LimitRate, ReadName, ReadRisk, FailLoad, SaveLabel, Open
<1>5. ASSUME NEW s \in Request, s # r, Lookup(s) \/ StoreAnswer(s) PROVE FALSE
  BY <1>3, <1>5 DEF Lookup, StoreAnswer
<1>6. ASSUME NEW s \in Request, NEW c \in Client, NEW path \in Path, NEW authorised \in BOOLEAN,
             Arrive(s, c, path, authorised)
      PROVE  FALSE
  BY <1>3, <1>6 DEF Arrive, Arriving
<1>7. ASSUME ClockTicks \/ Restart \/ UNCHANGED apiVars PROVE FALSE
  BY <1>7 DEF ClockTicks, Restart, apiVars, Answers
<1> QED
  BY <1>1, <1>2, <1>4, <1>5, <1>6, <1>7 DEF ApiNext, Serve

\* An answer shows every label that is older than the cache's age and one load: no overtaking
\* load, cached answer or seed of a new process brings anything older back.
THEOREM ApiLabelsVisible == ApiSpec => LabelsVisible
<1>1. ApiInv /\ LabelsInv /\ [ApiNext]_apiVars =>
        [\A r \in Request :
            LET name == request'[r].answer.name IN
            Answers(r) /\ Settled > 0 => name.source = "manual" /\ name.number >= Settled]_apiVars
  BY AnswersShow
<1> QED
  BY <1>1, ApiInvInit, ApiInvStep, LabelsInit, LabelsStep, PTL DEF ApiSpec, LabelsVisible
=============================================================================

---------------------------- MODULE AccountLocks ----------------------------
(***************************************************************************)
(* The row locks that the writing transactions of store/postgres.go take,  *)
(* and withTx, which runs a transaction again after PostgreSQL aborted it  *)
(* to break a deadlock.  Rows are those of accounts and transactions.      *)
(***************************************************************************)
EXTENDS Integers, SequencesExt

CONSTANTS
    Session,        \* database connections that write
    MaxAttempts     \* maxAttempts of withTx

ASSUME LockAssumption == MaxAttempts \in Nat \ {0} /\ IsFiniteSet(Session)

VARIABLE
    session         \* session -> its transaction: the rows it locks in turn, how many it has

Idle == [pc |-> "idle", plan |-> <<>>, locked |-> 0, attempt |-> 0]

Held(s) == {session[s].plan[i] : i \in 1 .. session[s].locked}

\* s is in a statement that waits for a row q has locked.
WaitsFor(s, q) ==
    /\ s # q
    /\ session[s].pc = "locking"
    /\ session[s].locked < Len(session[s].plan)
    /\ session[s].plan[session[s].locked + 1] \in Held(q)

\* Every member waits for another and is waited for.
Cycle(C) == C # {} /\ \A s \in C : \E q, r \in C : WaitsFor(s, q) /\ WaitsFor(r, s)

Waiting == {s \in Session : \E q \in Session : WaitsFor(s, q)}

Deadlocked(s) == \E C \in SUBSET Waiting : s \in C /\ Cycle(C)

Begin(s, plan) ==
    /\ session[s] = Idle
    /\ session' = [session EXCEPT ![s] = [pc |-> "locking", plan |-> plan, locked |-> 0, attempt |-> 1]]

LockRow(s) ==
    /\ session[s].pc = "locking"
    /\ session[s].locked < Len(session[s].plan)
    /\ \A q \in Session : ~WaitsFor(s, q)
    /\ session' = [session EXCEPT ![s].locked = @ + 1]

Complete(s) == session[s].pc = "locking" /\ session[s].locked = Len(session[s].plan)

\* The transaction ends, committed or not, and its locks with it.
Release(s) == session' = [session EXCEPT ![s] = Idle]

\* Mutant of GivesUp: one attempt too many.
GivesUpLate(s) == session[s].attempt > MaxAttempts

GivesUp(s) == session[s].attempt = MaxAttempts

\* Mutant of RetryLater: the statement is tried again in the same transaction, uncounted.
RetryStatement(s) == session' = [session EXCEPT ![s].pc = "locking"]

\* PostgreSQL aborts the transaction, and withTx runs it once more from scratch.
RetryLater(s) == session' = [session EXCEPT ![s].pc = "backoff", ![s].locked = 0]

Retry(s) ==
    /\ session[s].pc = "backoff"
    /\ session' = [session EXCEPT ![s].pc = "locking", ![s].locked = 0, ![s].attempt = @ + 1]

SessionTypeOK(Row) ==
    \A s \in Session :
        /\ session[s].pc \in {"idle", "locking", "backoff"}
        /\ session[s].plan \in Seq(Row)
        /\ session[s].locked \in 0 .. Len(session[s].plan)
        /\ session[s].attempt \in 0 .. MaxAttempts
        /\ \A q \in Session \ {s} : Held(s) \cap Held(q) = {}
=============================================================================

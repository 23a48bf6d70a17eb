---------------------------- MODULE MCPendingFeed ----------------------------
(***************************************************************************)
(* Four transactions between two accounts, two workers, channels of one    *)
(* item, a block of a reorg.                                               *)
(***************************************************************************)
EXTENDS PendingFeed, TLC

CONSTANTS w1, w2, block, maintenance

\* The first two pay in opposite directions; the last one creates a contract.
MCAccountsOf == (1 :> <<2, 1>>) @@ (2 :> <<1, 2>>) @@ (3 :> <<1, 2>>) @@ (4 :> <<2>>)

\* The block replaces the one that mined the first transaction, creates the first account as
\* a contract, and mines the second transaction.
MCBlockPlans == {<<TxRow(1), Account(2), Account(1), TxRow(2)>>}

\* A feed that outruns the workers of a database that hangs, one whose subscription drops,
\* and two transactions among a block and a sweep.
MCLimits ==
    {[announced |-> 4, blocks |-> 0, sweeps |-> 0, drops |-> 0, hangs |-> 1],
     [announced |-> 3, blocks |-> 0, sweeps |-> 0, drops |-> 1, hangs |-> 0],
     [announced |-> 2, blocks |-> 1, sweeps |-> 1, drops |-> 0, hangs |-> 0]}
=============================================================================

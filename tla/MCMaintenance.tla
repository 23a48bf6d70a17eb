---------------------------- MODULE MCMaintenance ----------------------------
(***************************************************************************)
(* Two transactions among two accounts: a sends both, b receives one.      *)
(***************************************************************************)
EXTENDS Maintenance, TLC

CONSTANTS t1, t2, a, b

MCAddressesOf == [t \in Tx |-> IF t = t1 THEN {a} ELSE {a, b}]

\* The recent window outlasts the age of a late row, a slow turn and a failed one; the first
\* refresh reaches back to the beginning.  Rows come later than behaviourSince waits for them.
ASSUME WindowSuffices ==
    /\ RecentWindow >= Latency + MaxTurn + (1 + MaxErrors) * Max({Interval, MaxTurn})
    /\ BackfillWindow >= MaxTime
    /\ \E age \in Ages : age > Interval /\ age > Latency
=============================================================================

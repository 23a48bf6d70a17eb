--------------------------- MODULE MCCircularFlow ---------------------------
(***************************************************************************)
(* t1 sends ether from a to b.  t2 is a call to d, by which tokens go from *)
(* b to c and back and from b to a.  One block mines both transactions.    *)
(***************************************************************************)
EXTENDS CircularFlow, FiniteSets, TLC

CONSTANTS t1, t2, e1, e2, bc, cb, ba, a, b, c, d

MCTxOf == [l \in Leg |-> IF l = e1 THEN t1 ELSE t2]

MCFrom == (e1 :> a) @@ (e2 :> b) @@ (bc :> b) @@ (cb :> c) @@ (ba :> b)

MCTo == (e1 :> b) @@ (e2 :> d) @@ (bc :> c) @@ (cb :> b) @@ (ba :> a)

MCMoment == [l \in Leg |-> IF l = e2 THEN 1 ELSE 2]

\* The instance has loops to find, some in one block.
ASSUME LoopsExist == Cardinality(Loops) > Cardinality(Circles) /\ Cardinality(Circles) > 1
=============================================================================

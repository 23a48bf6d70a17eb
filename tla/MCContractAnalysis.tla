------------------------- MODULE MCContractAnalysis -------------------------
(***************************************************************************)
(* Two clones: c1 is revealed by t1 and c2 by t2; c2 may be a contract     *)
(* that the first vector model stored.                                     *)
(***************************************************************************)
EXTENDS ContractAnalysis, TLC

CONSTANTS t1, t2, c1, c2

MCClones == [c \in Contract |-> Contract \ {c}]

MCTargetOf == (t1 :> c1) @@ (t2 :> c2)
=============================================================================

---------------------------- MODULE MCGraphRepair ----------------------------
(***************************************************************************)
(* Four nodes with any of four addresses: an account in two spellings,     *)
(* another account, and none.  Up to two edges of one transaction join any *)
(* two nodes.                                                              *)
(***************************************************************************)
EXTENDS GraphRepair, TLC

CONSTANTS upper, lower, other, blank, k

MCNormal == (upper :> upper) @@ (lower :> upper) @@ (other :> other) @@ (blank :> blank)

MCGraph ==
    [address : [Node -> Spelling], contracts : {{2}}, edges : {{e, f} : e, f \in Edge}]
=============================================================================

---------------------------- MODULE MCChainStore ----------------------------
(***************************************************************************)
(* Two heights, two competing blocks at each.  t1 and t2 spend the same    *)
(* nonce; t3 creates a contract.  t1, with transfer x1, is in a1, and      *)
(* again one height later in b2, as after a reorg that delays it; t2 wins  *)
(* the nonce in b1.  t3 sits in a2 and, one height earlier, in b1, where   *)
(* alone it emits x3.                                                      *)
(***************************************************************************)
EXTENDS ChainStore, TLC

CONSTANTS t1, t2, t3, x1, x3, a1, b1, a2, b2

MCHeight == {1, 2}

MCHeightOf == (a1 :> 1) @@ (b1 :> 1) @@ (a2 :> 2) @@ (b2 :> 2)

MCTxsOf == (a1 :> {t1}) @@ (b1 :> {t2, t3}) @@ (a2 :> {t3}) @@ (b2 :> {t1})

MCTransfersOf == (a1 :> {x1}) @@ (b1 :> {x3}) @@ (a2 :> {}) @@ (b2 :> {x1})

MCEmitterOf == (x1 :> t1) @@ (x3 :> t3)

MCSlotOf == (t1 :> 1) @@ (t2 :> 1) @@ (t3 :> 2)

MCWithRecipient == {t1, t2}
=============================================================================

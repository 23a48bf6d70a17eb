--------------------------- MODULE MCBlockWatcher ---------------------------
(***************************************************************************)
(* The chain of the runs: two branches from g and how transactions and     *)
(* transfers are spread over them.  A run picks its blocks by its cfg.     *)
(*                                                                         *)
(*          g - a1 - a2 - a3 - a4                                          *)
(*           \- b1 - b2                                                    *)
(*                                                                         *)
(*   Fork   t is in a1, its rival u in b1, v in a2 and earlier in b1, and w  *)
(*          at the same height in a1 and b1, with the transfer y           *)
(*   Deep   t is in a1 and later in b2, v in a2 and earlier in b1, with    *)
(*          the transfers x and y                                          *)
(*   Line   t is in a2 alone                                               *)
(***************************************************************************)
EXTENDS BlockWatcher, TLC

CONSTANTS t, u, v, w, x, y, g, a1, a2, a3, a4, b1, b2, Base

MCParentOf ==
    [b \in Block |->
        CASE b = g -> NoBlock
          [] b \in {a1, b1} -> g
          [] b = a2 -> a1
          [] b = a3 -> a2
          [] b = a4 -> a3
          [] b = b2 -> b1]

MCBranch[b \in Block] ==
    {b} \cup IF MCParentOf[b] = NoBlock THEN {} ELSE MCBranch[MCParentOf[b]]

MCHeightOf ==
    [b \in Block |->
        Base + CASE b = g -> 0
                 [] b \in {a1, b1} -> 1
                 [] b \in {a2, b2} -> 2
                 [] b = a3 -> 3
                 [] b = a4 -> 4]

MCHeight == {MCHeightOf[b] : b \in Block}

ForkTxsOf ==
    [b \in Block |-> CASE b = a1 -> {t, w} [] b = b1 -> {u, v, w} [] b = a2 -> {v} [] OTHER -> {}]

ForkTransfersOf == [b \in Block |-> CASE b \in {a1, b1} -> {y} [] OTHER -> {}]

DeepTxsOf ==
    [b \in Block |-> CASE b \in {a1, b2} -> {t} [] b \in {a2, b1} -> {v} [] OTHER -> {}]

DeepTransfersOf ==
    [b \in Block |-> CASE b \in {a1, b2} -> {x} [] b \in {a2, b1} -> {y} [] OTHER -> {}]

LineTxsOf == [b \in Block |-> CASE b = a2 -> {t} [] OTHER -> {}]

NoTransfersOf == [b \in Block |-> {}]

DeepEmitterOf == [z \in Transfer |-> IF z = x THEN t ELSE v]

ForkEmitterOf == [z \in Transfer |-> w]

MCSlotOf == (t :> 1) @@ (u :> 1) @@ (v :> 2) @@ (w :> 3)

MCWithRecipient == Tx
=============================================================================

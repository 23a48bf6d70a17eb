------------------------- MODULE MCEnrichmentQueue -------------------------
(***************************************************************************)
(* Two workers.  t1 is a token transfer seen pending first; t2 creates a   *)
(* contract.  The competing blocks a1 and b1 both mine t1, with its log at *)
(* another index; only b1 mines t2, and there t1 also mints a token, xm.   *)
(***************************************************************************)
EXTENDS EnrichmentQueue, TLC

CONSTANTS t1, t2, xa, xb, xm, a1, b1

MCHeight == {1}

MCHeightOf == (a1 :> 1) @@ (b1 :> 1)

MCTxsOf == (a1 :> {t1}) @@ (b1 :> {t1, t2} \cap Tx)

MCTransfersOf == (a1 :> {xa}) @@ (b1 :> {xb, xm} \cap Transfer)

MCEmitterOf == [x \in Transfer |-> t1]

MCSlotOf == [t \in Tx |-> t]

MCWithRecipient == {t1}

MCWithCalldata == {t1}

MCMintOrBurn == {xm} \cap Transfer
=============================================================================

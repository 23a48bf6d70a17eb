--------------------------- MODULE MCLiveSnapshot ---------------------------
(***************************************************************************)
(* Streams take no part in each other's steps: one is enough to meet the   *)
(* hub at every point.                                                     *)
(***************************************************************************)
EXTENDS LiveSnapshot

\* The hub's payload and two for every stream never take up all addresses.
ASSUME EnoughBuffers == Cardinality(Buffer) > 2 * Cardinality(Client) + 1
=============================================================================

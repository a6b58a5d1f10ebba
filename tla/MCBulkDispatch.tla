--------------------------- MODULE MCBulkDispatch ---------------------------
(* Requests for BulkDispatch: three devices, and one of two listed twice. *)
EXTENDS BulkDispatch

CONSTANTS h1, h2, h3

SomeBatches == {<<h1, h2, h3>>, <<h1, h2, h1>>}
=============================================================================

----------------------------- MODULE MCDbCache -----------------------------
(* The cache alone, driven by every sequence of calls on a few keys.       *)
EXTENDS DbCacheRefinement

CONSTANTS d1, d2

MCData == {d1, d2}
MCKeys == 0..3
============================================================================

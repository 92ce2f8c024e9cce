---------------------------- MODULE MCDbRecord ----------------------------
(* One table with a few rows: every content, every failure of a save.      *)
EXTENDS DbRecord

CONSTANTS h1, h2, h3, a, b

MCIds == {h1, h2, h3}
MCVals == {a, b}
===========================================================================

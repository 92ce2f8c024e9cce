--------------------------- MODULE MCDataManager ---------------------------
(* Two characters, two modules (PLAYER and FORMATION, one row each).       *)
EXTENDS DataManager

MCKeys == 0..1
MCOneKey == {0}
MCData == {"d1", "d2", "d3"}
============================================================================

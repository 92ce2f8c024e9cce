---------------------------- MODULE MCGateLogin ----------------------------
(* Two connections of one user and one of another.                          *)
EXTENDS GateLogin

CONSTANTS conn1, conn2, conn3, ann, bob

MCConns == {conn1, conn2, conn3}
MCUsers == {ann, bob}
MCUserOf == [c \in MCConns |-> IF c = conn3 THEN bob ELSE ann]
MCPlayerOf == [u \in MCUsers |-> IF u = ann THEN 1 ELSE 2]
============================================================================

------------------------------ MODULE MCActor ------------------------------
(* Two actors.  The callback of act1's task runs on act2, as in a request   *)
(* to a database actor answered on a logic actor, that of act2's first task *)
(* on act2 itself; every queue has one place.                               *)
EXTENDS Actor

CONSTANTS act1, act2, t1, t2

MCActors == {act1, act2}
MCTasks == {t1, t2}
MCHome == [t \in MCTasks |-> IF t = t1 THEN act1 ELSE act2]
MCTarget == [t \in MCTasks |-> act2]
MCOffered == {t2}
MCMayStop == MCActors
MCCapacity == [a \in MCActors |-> 1]
============================================================================

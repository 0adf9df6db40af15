--------------------------- MODULE MCDurableTasks ---------------------------
EXTENDS DurableTasks, TLC

CONSTANTS t1, t2, w1, w2

(* t2 depends on t1. *)
ChainDeps == [t \in Tasks |-> IF t = t2 THEN {t1} ELSE {}]
NoDeps    == [t \in Tasks |-> {}]
=============================================================================

--------------------------- MODULE MCLocalTriggers ---------------------------
(* Two triggers that take turns as targets of the deliveries.               *)
EXTENDS LocalTriggers

CONSTANTS t1, t2

MCTriggerOf == [d \in Deliveries |-> IF d % 2 = 1 THEN t1 ELSE t2]
=============================================================================

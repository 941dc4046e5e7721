---------------------------- MODULE MCCronService ----------------------------
(* The scheduler on small instances: a recurring job, a one-shot job, edits    *)
(* chosen per run through Ops.                                                 *)
EXTENDS CronService

CONSTANTS rec1, once1

ShortAndLong == [j \in Jobs |-> IF j = once1 THEN {Once(1), Every(1)} ELSE {Every(1), Every(2)}]
Later == [j \in Jobs |-> IF j = once1 THEN {Once(1), Once(2), Every(1)} ELSE {Every(1)}]

OnlyAdd   == {"add"}
Edits     == {"add", "remove", "enable", "disable", "update"}
Owning    == Edits \cup {"read", "extadd", "extremove", "run", "hang"}
AllOps    == (Owning \ {"hang"}) \cup {"stop"}
=============================================================================

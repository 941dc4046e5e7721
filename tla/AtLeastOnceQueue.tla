-------------------------- MODULE AtLeastOnceQueue --------------------------
(***************************************************************************)
(* What the local trigger queue promises: a delivery that was accepted can  *)
(* run any number of times, and leaves the queue only because a turn for it *)
(* ended, because its target refuses it, because it was given up after too  *)
(* many attempts, or because its trigger was deleted.                       *)
(***************************************************************************)
CONSTANTS Deliveries

Fates == {"none", "open", "ok", "error", "dropped", "failed", "deleted"}

VARIABLES fate,   \* [Deliveries -> Fates]
          ran     \* deliveries for which an agent turn has ended

vars == <<fate, ran>>

Init == fate = [d \in Deliveries |-> "none"] /\ ran = {}

Accept(d) == /\ fate[d] = "none"
             /\ fate' = [fate EXCEPT ![d] = "open"]
             /\ UNCHANGED ran

Run(d) == /\ fate[d] \in {"open", "deleted"}
          /\ ran' = ran \union {d}
          /\ \/ UNCHANGED fate
             \/ /\ fate[d] = "open"
                /\ \E r \in {"ok", "error", "failed"} : fate' = [fate EXCEPT ![d] = r]

GiveUp(d) == /\ fate[d] = "open"
             /\ \E r \in {"dropped", "failed"} : fate' = [fate EXCEPT ![d] = r]
             /\ UNCHANGED ran

Delete(D) == /\ \A d \in D : fate[d] \in {"open", "failed"}
             /\ fate' = [d \in Deliveries |-> IF d \in D THEN "deleted" ELSE fate[d]]
             /\ UNCHANGED ran

Next == \/ \E d \in Deliveries : Accept(d) \/ Run(d) \/ GiveUp(d)
        \/ \E D \in SUBSET Deliveries : Delete(D)

Spec == Init /\ [][Next]_vars
=============================================================================

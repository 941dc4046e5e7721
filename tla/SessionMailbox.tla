--------------------------- MODULE SessionMailbox ---------------------------
(***************************************************************************)
(* What AgentLoop promises to whoever sends it messages, without tasks,     *)
(* locks or queues: each accepted message is dealt with once, and a session *)
(* serves at most one message at a time.  A user message sent while its     *)
(* session is being served may be absorbed into the turn in progress; an    *)
(* automation turn never is.                                                *)
(***************************************************************************)
CONSTANTS
    Msgs,        \* messages
    Sessions,    \* session keys
    SessionOf,   \* [Msgs -> Sessions], the effective session key of a message
    Absorbable,  \* the messages that may join a turn in progress
    NoMsg        \* a value that is not a message

Handled == {"answered", "failed", "cancelled", "command", "dropped"}
Statuses == {"unsent", "open", "injected"} \union Handled

VARIABLES
    status,      \* [Msgs -> Statuses]
    serving      \* [Sessions -> Msgs \union {NoMsg}], the turn in progress

vars == <<status, serving>>

Init == /\ status = [m \in Msgs |-> "unsent"]
        /\ serving = [s \in Sessions |-> NoMsg]

-----------------------------------------------------------------------------
Accept(m) == /\ status[m] = "unsent"
             /\ status' = [status EXCEPT ![m] = "open"]
             /\ UNCHANGED serving

Serve(m) == /\ status[m] = "open"
            /\ serving[SessionOf[m]] = NoMsg
            /\ serving' = [serving EXCEPT ![SessionOf[m]] = m]
            /\ UNCHANGED status

Absorb(s, A) == /\ serving[s] \notin A \union {NoMsg}
                /\ \A m \in A : status[m] = "open" /\ SessionOf[m] = s
                /\ status' = [m \in Msgs |-> IF m \in A THEN "injected" ELSE status[m]]
                /\ UNCHANGED serving

(* The turn of m ends for good, or leaves m open for a continuation.        *)
Finish(m) == /\ serving[SessionOf[m]] = m
             /\ serving' = [serving EXCEPT ![SessionOf[m]] = NoMsg]
             /\ \/ \E r \in {"answered", "failed", "cancelled"} :
                       status' = [status EXCEPT ![m] = r]
                \/ UNCHANGED status

(* A message that is not being served is answered in place or given up.     *)
Retire(m) == /\ status[m] = "open"
             /\ serving[SessionOf[m]] # m
             /\ \E r \in {"cancelled", "command", "dropped"} :
                    status' = [status EXCEPT ![m] = r]
             /\ UNCHANGED serving

Next == \/ \E m \in Msgs : Accept(m) \/ Serve(m) \/ Finish(m) \/ Retire(m)
        \/ \E s \in Sessions, A \in SUBSET Absorbable : Absorb(s, A)

Spec == Init /\ [][Next]_vars
=============================================================================

------------------------------ MODULE ChatFeed ------------------------------
(***************************************************************************)
(* What the outbound dispatcher promises each chat: its messages arrive in  *)
(* the order they were published, several of them possibly joined into one, *)
(* one of them possibly twice in a row, and some possibly never; none       *)
(* arrives after a later one.                                               *)
(***************************************************************************)
EXTENDS Naturals, Sequences

CONSTANT Chats

VARIABLES published, \* [Chats -> Nat]: how many messages each chat is sent
          pending,   \* [Chats -> SUBSET Nat]: the numbers of those still to come
          got        \* [Chats -> Seq(Seq(Nat))]: what the chat has received

vars == <<published, pending, got>>

Init ==
  /\ published = [c \in Chats |-> 0] /\ pending = [c \in Chats |-> {}]
  /\ got = [c \in Chats |-> <<>>]

\* The next message of chat c is published.
Publish(c) ==
  /\ published' = [published EXCEPT ![c] = @ + 1]
  /\ pending' = [pending EXCEPT ![c] = @ \cup {published[c] + 1}]
  /\ UNCHANGED got

\* Pending messages next to each other are lost.
Lose(c) ==
  /\ \E gone \in SUBSET pending[c] :
       /\ gone # {}
       /\ \A i, j \in gone, k \in pending[c] : i <= k /\ k <= j => k \in gone
       /\ pending' = [pending EXCEPT ![c] = @ \ gone]
  /\ UNCHANGED <<published, got>>

\* The first pending messages arrive as one, and may arrive again.
Serve(c) ==
  /\ got'[c] # <<>>
  /\ \E first \in SUBSET pending[c] :
       /\ \A i \in first, k \in pending[c] \ first : i < k
       /\ LET m == got'[c][Len(got'[c])] IN
            /\ got' = [got EXCEPT ![c] = Append(@, m)]
            /\ m # <<>> /\ first = {m[i] : i \in DOMAIN m}
            /\ \A i, k \in DOMAIN m : i < k => m[i] < m[k]
       /\ pending' \in {pending, [pending EXCEPT ![c] = @ \ first]}
  /\ UNCHANGED published

Next == \E c \in Chats : Publish(c) \/ Lose(c) \/ Serve(c)

Spec == Init /\ [][Next]_vars
=============================================================================

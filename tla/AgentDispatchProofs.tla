------------------------- MODULE AgentDispatchProofs -------------------------
(***************************************************************************)
(* For any number of messages, sessions, queue and concurrency limits: the  *)
(* dispatcher never overlaps two turns of a session, never injects an       *)
(* automation turn into another, and neither loses nor duplicates a message; *)
(* on Python 3.11 no deferred turn is left behind in an idle session.        *)
(***************************************************************************)
EXTENDS AgentDispatch, QueueLemmas, FiniteSetTheorems

Bound(m) == KindOf[m] # "direct"     \* handled by _dispatch, not process_direct

(* A /stop in progress has cancelled every task of its session, no other.    *)
StopInv ==
    /\ \A m \in cancelled : /\ phase[m] # "none" /\ Bound(m)
                            /\ stopping # NoMsg /\ SessionOf[m] = SessionOf[stopping]
    /\ stopping # NoMsg =>
           \A m \in Msgs : SessionOf[m] = SessionOf[stopping] /\ phase[m] # "none" /\ Bound(m)
                               => m \in cancelled

TaskInv ==
    /\ IsInjective(ready)
    /\ ToSet(ready) = {m \in Msgs : phase[m] = "created"}
    /\ \A m \in Msgs : ~Bound(m) => phase[m] \in {"none", "lock", "running"}

(* The lock queue is the set of tasks past their first step; whoever is at   *)
(* the gate or in a turn is its head.                                        *)
LockInv ==
    /\ \A s \in Sessions :
           /\ IsInjective(lockQ[s])
           /\ ToSet(lockQ[s]) = {m \in Msgs : SessionOf[m] = s /\ phase[m] \notin {"none", "created"}}
    /\ \A m \in Msgs : phase[m] \in {"gate"} \union Working => lockQ[SessionOf[m]][1] = m

GateInv ==
    /\ IsInjective(gateQ)
    /\ \A m \in ToSet(gateQ) : phase[m] \in {"gate"} \union Working /\ Bound(m)

(* A pending queue is published exactly while its owner is in its turn.      *)
OwnerInv ==
    /\ \A s \in Sessions :
           /\ owner[s] # NoMsg => /\ SessionOf[owner[s]] = s /\ Bound(owner[s])
                                  /\ phase[owner[s]] \in Working
           /\ owner[s] = NoMsg => pending[s] = <<>>
    /\ \A m \in Msgs : phase[m] \in Working /\ Bound(m) => owner[SessionOf[m]] = m

RoundInv == \A m \in Msgs : phase[m] = "boundary" => rounds[SessionOf[m]] < MaxRounds

QueuesInv ==
    /\ IsInjective(bus)
    /\ \A s \in Sessions :
           /\ IsInjective(pending[s]) /\ IsInjective(deferred[s])
           /\ \A m \in ToSet(pending[s]) \union ToSet(deferred[s]) : SessionOf[m] = s

(* At most one holder, and a message is open exactly when it has one.        *)
HolderOK(m) ==
    LET s == SessionOf[m] IN
    /\ m \in ToSet(bus) => /\ m \notin ToSet(pending[s]) \union ToSet(deferred[s])
                           /\ phase[m] = "none" /\ stopping # m
    /\ m \in ToSet(pending[s]) => /\ m \notin ToSet(deferred[s])
                                  /\ phase[m] \in {"none", "continuing"} /\ stopping # m
    /\ m \in ToSet(deferred[s]) => phase[m] = "none" /\ stopping # m
    /\ stopping = m => phase[m] = "none"
    /\ phase[m] = "continuing" => m \in ToSet(pending[s])
    /\ status[m] = "open" <=> \/ m \in ToSet(bus) \/ m \in ToSet(pending[s])
                              \/ m \in ToSet(deferred[s])
                              \/ phase[m] # "none" \/ stopping = m
    /\ ~Bound(m) => m \notin ToSet(bus) \union ToSet(pending[s]) \union ToSet(deferred[s])

HolderInv == \A m \in Msgs : HolderOK(m)

(* The only automation turn in a pending queue is its owner, continuing.     *)
AutoOK(m) ==
    KindOf[m] = "auto" =>
        /\ status[m] # "injected"
        /\ m \in ToSet(pending[SessionOf[m]]) => phase[m] = "continuing"

AutoInv == \A m \in Msgs : AutoOK(m)

IInv == /\ TypeOK /\ StopInv /\ TaskInv /\ LockInv /\ GateInv /\ OwnerInv /\ RoundInv
        /\ QueuesInv /\ HolderInv /\ AutoInv

-----------------------------------------------------------------------------
(* What the helpers of the specification do to the queues they touch         *)

(* Whatever is queued is a message, and its session a session.               *)
LEMMA Ranges ==
    ASSUME IInv
    PROVE  /\ cancelled \subseteq Msgs /\ ToSet(bus) \subseteq Msgs /\ ToSet(gateQ) \subseteq Msgs
           /\ \A s \in Sessions : /\ ToSet(lockQ[s]) \subseteq Msgs
                                  /\ ToSet(pending[s]) \subseteq Msgs
                                  /\ ToSet(deferred[s]) \subseteq Msgs
                                  /\ owner[s] \in Msgs \union {NoMsg}
           /\ \A m \in Msgs : SessionOf[m] \in Sessions
           /\ NoMsg \notin Msgs
BY ElementsTyped, DispatchAssumption DEF IInv, TypeOK

(* run() takes a message nobody else holds.                                  *)
LEMMA ConsumeFacts ==
    ASSUME IInv, NEW m \in Msgs, Consume(m)
    PROVE  /\ bus' \in Seq(Msgs) /\ IsInjective(bus')
           /\ ToSet(bus') = ToSet(bus) \ {m} /\ m \in ToSet(bus)
           /\ yielded' \in BOOLEAN
           /\ stopping = NoMsg /\ cancelled = {}
           /\ phase[m] = "none" /\ status[m] = "open"
           /\ m \notin ToSet(pending[SessionOf[m]]) \union ToSet(deferred[SessionOf[m]])
<1>1. bus \in Seq(Msgs) /\ IsInjective(bus) /\ bus # <<>>
    BY DEF IInv, TypeOK, QueuesInv, Consume
<1>2. /\ Tail(bus) \in Seq(Msgs) /\ IsInjective(Tail(bus))
      /\ ToSet(Tail(bus)) = ToSet(bus) \ {Head(bus)} /\ Head(bus) \in ToSet(bus)
    BY <1>1, TailQueue
<1>3. cancelled = {}
    BY DispatchAssumption DEF IInv, TypeOK, StopInv, Consume
<1>4. yielded' \in BOOLEAN
    BY DispatchAssumption DEF Consume
<1>5. QED
    BY <1>2, <1>3, <1>4 DEF Consume, IInv, HolderInv, HolderOK

(* A task leaves the queue of its session's lock and no other task moves     *)
(* ahead of the holder.                                                      *)
LEMMA LeaveLockFacts ==
    ASSUME IInv, NEW m \in Msgs, LeaveLock(m)
    PROVE  /\ lockQ' \in [Sessions -> Seq(Msgs)]
           /\ \A s \in Sessions \ {SessionOf[m]} : lockQ'[s] = lockQ[s]
           /\ IsInjective(lockQ'[SessionOf[m]])
           /\ ToSet(lockQ'[SessionOf[m]]) = ToSet(lockQ[SessionOf[m]]) \ {m}
           /\ lockQ[SessionOf[m]][1] # m => lockQ'[SessionOf[m]][1] = lockQ[SessionOf[m]][1]
<1> DEFINE s == SessionOf[m]
<1>1. s \in Sessions /\ lockQ[s] \in Seq(Msgs) /\ IsInjective(lockQ[s])
    BY DispatchAssumption DEF IInv, TypeOK, LockInv
<1>2. PICK i \in DOMAIN lockQ[s] :
          lockQ[s][i] = m /\ lockQ' = [lockQ EXCEPT ![s] = RemoveAt(lockQ[s], i)]
    BY DEF LeaveLock, Without
<1>3. /\ RemoveAt(lockQ[s], i) \in Seq(Msgs)
      /\ IsInjective(RemoveAt(lockQ[s], i))
      /\ ToSet(RemoveAt(lockQ[s], i)) = ToSet(lockQ[s]) \ {m}
      /\ lockQ[s][1] # m => RemoveAt(lockQ[s], i)[1] = lockQ[s][1]
    BY <1>1, <1>2, RemoveQueue
<1>4. lockQ' \in [Sessions -> Seq(Msgs)] /\ lockQ'[s] = RemoveAt(lockQ[s], i)
    BY <1>1, <1>2, <1>3 DEF IInv, TypeOK
<1>5. \A t \in Sessions \ {s} : lockQ'[t] = lockQ[t]
    BY <1>2 DEF IInv, TypeOK
<1>6. QED
    BY <1>3, <1>4, <1>5

(* A task leaves the gate, if it is there.                                   *)
LEMMA LeaveGateFacts ==
    ASSUME IInv, NEW m \in Msgs, LeaveGate(m)
    PROVE  /\ gateQ' \in Seq(Msgs) /\ IsInjective(gateQ')
           /\ ToSet(gateQ') = ToSet(gateQ) \ {m}
<1>1. gateQ \in Seq(Msgs) /\ IsInjective(gateQ)
    BY DEF IInv, TypeOK, GateInv
<1>2. CASE \E i \in DOMAIN gateQ : gateQ[i] = m
    <2>1. PICK i \in DOMAIN gateQ : gateQ[i] = m /\ gateQ' = RemoveAt(gateQ, i)
        BY <1>2 DEF LeaveGate, Without
    <2>2. QED
        BY <1>1, <2>1, RemoveQueue
<1>3. CASE ~(\E i \in DOMAIN gateQ : gateQ[i] = m)
    BY <1>1, <1>3 DEF LeaveGate, ToSet
<1>4. QED
    BY <1>2, <1>3

(* At most one deferred turn is published, from the front.                   *)
LEMMA NextDeferredFacts ==
    ASSUME IInv, NEW s \in Sessions
    PROVE  LET rest == SubSeq(deferred[s], Len(NextDeferred(s)) + 1, Len(deferred[s])) IN
           /\ NextDeferred(s) \in Seq(Msgs) /\ IsInjective(NextDeferred(s))
           /\ rest \in Seq(Msgs) /\ IsInjective(rest)
           /\ ToSet(NextDeferred(s)) \subseteq ToSet(deferred[s])
           /\ ToSet(rest) = ToSet(deferred[s]) \ ToSet(NextDeferred(s))
<1> DEFINE q == deferred[s]
<1>1. q \in Seq(Msgs) /\ IsInjective(q)
    BY DEF IInv, TypeOK, QueuesInv
<1>2. CASE q = <<>>
    <2>1. NextDeferred(s) = <<>> /\ Len(NextDeferred(s)) = 0
        BY <1>2 DEF NextDeferred
    <2>2. SubSeq(q, 0 + 1, Len(q)) = <<>>
        BY <1>2
    <2>3. QED
        BY <1>2, <2>1, <2>2, EmptyQueue
<1>3. CASE q # <<>>
    <2>1. NextDeferred(s) = <<Head(q)>> /\ Len(NextDeferred(s)) = 1
        BY <1>3 DEF NextDeferred
    <2>2. SubSeq(q, 1 + 1, Len(q)) = Tail(q)
        BY <1>1, <1>3
    <2>3. /\ Tail(q) \in Seq(Msgs) /\ IsInjective(Tail(q))
          /\ ToSet(Tail(q)) = ToSet(q) \ {Head(q)} /\ Head(q) \in ToSet(q)
        BY <1>1, <1>3, TailQueue
    <2>4. Head(q) \in Msgs
        BY <1>1, <1>3
    <2>5. /\ <<Head(q)>> \in Seq(Msgs) /\ IsInjective(<<Head(q)>>)
          /\ ToSet(<<Head(q)>>) = {Head(q)}
        BY <2>4 DEF IsInjective, ToSet
    <2>6. QED
        BY <2>1, <2>2, <2>3, <2>5
<1>4. QED
    BY <1>2, <1>3

(* The deferred list of one session after a turn was published from it.      *)
DeferredAfter(s) ==
    /\ deferred' \in [Sessions -> Seq(Msgs)]
    /\ \A t \in Sessions \ {s} : deferred'[t] = deferred[t]
    /\ IsInjective(deferred'[s])
    /\ ToSet(deferred'[s]) = ToSet(deferred[s]) \ ToSet(NextDeferred(s))
    /\ ToSet(NextDeferred(s)) \subseteq ToSet(deferred[s])

(* The finally block of a turn moves what the turn did not take to the bus.  *)
LEMMA ReleaseFacts ==
    ASSUME IInv, NEW s \in Sessions, ReleaseSession(s)
    PROVE  /\ bus' \in Seq(Msgs) /\ IsInjective(bus')
           /\ ToSet(bus') = ToSet(bus) \union ToSet(pending[s]) \union ToSet(NextDeferred(s))
           /\ DeferredAfter(s)
           /\ pending' \in [Sessions -> Seq(Msgs)] /\ pending'[s] = <<>>
           /\ \A t \in Sessions \ {s} : pending'[t] = pending[t] /\ owner'[t] = owner[t]
           /\ owner' \in [Sessions -> Msgs \union {NoMsg}] /\ owner'[s] = NoMsg
<1> DEFINE rest == SubSeq(deferred[s], Len(NextDeferred(s)) + 1, Len(deferred[s]))
<1>1. /\ NextDeferred(s) \in Seq(Msgs) /\ IsInjective(NextDeferred(s))
      /\ rest \in Seq(Msgs) /\ IsInjective(rest)
      /\ ToSet(NextDeferred(s)) \subseteq ToSet(deferred[s])
      /\ ToSet(rest) = ToSet(deferred[s]) \ ToSet(NextDeferred(s))
    BY NextDeferredFacts
<1>2. /\ bus \in Seq(Msgs) /\ IsInjective(bus)
      /\ pending[s] \in Seq(Msgs) /\ IsInjective(pending[s])
    BY DEF IInv, TypeOK, QueuesInv
<1>3. ToSet(bus) \subseteq Msgs /\ ToSet(pending[s]) \subseteq Msgs
    BY <1>2, ElementsTyped
<1>4. \A m \in ToSet(pending[s]) \union ToSet(deferred[s]) : SessionOf[m] = s
    BY DEF IInv, QueuesInv
<1>5. /\ ToSet(bus) \intersect ToSet(pending[s]) = {}
      /\ ToSet(bus) \intersect ToSet(NextDeferred(s)) = {}
      /\ ToSet(pending[s]) \intersect ToSet(NextDeferred(s)) = {}
    BY <1>1, <1>3, <1>4 DEF IInv, HolderInv, HolderOK
<1>6. /\ bus \o pending[s] \in Seq(Msgs) /\ IsInjective(bus \o pending[s])
      /\ ToSet(bus \o pending[s]) = ToSet(bus) \union ToSet(pending[s])
    BY <1>2, <1>5, ConcatQueue
<1>7. ToSet(bus \o pending[s]) \intersect ToSet(NextDeferred(s)) = {}
    BY <1>5, <1>6
<1>8. bus' = (bus \o pending[s]) \o NextDeferred(s)
    BY DEF ReleaseSession, Leftovers
<1>9. /\ bus' \in Seq(Msgs) /\ IsInjective(bus')
      /\ ToSet(bus') = ToSet(bus) \union ToSet(pending[s]) \union ToSet(NextDeferred(s))
    <2> DEFINE b == bus \o pending[s]
               r == b \o NextDeferred(s)
    <2>1. r \in Seq(Msgs) /\ IsInjective(r) /\ ToSet(r) = ToSet(b) \union ToSet(NextDeferred(s))
        <3>1. b \in Seq(Msgs) /\ IsInjective(b) /\ ToSet(b) \intersect ToSet(NextDeferred(s)) = {}
            BY <1>6, <1>7
        <3> HIDE DEF b
        <3>2. QED
            BY <1>1, <3>1, ConcatQueue
    <2>2. QED
        BY <1>6, <1>8, <2>1
<1>10. deferred' = [deferred EXCEPT ![s] = rest]
    BY DEF ReleaseSession, IInv, TypeOK
<1>11. DeferredAfter(s)
    BY <1>1, <1>10 DEF DeferredAfter, IInv, TypeOK
<1>12. QED
    BY <1>9, <1>11 DEF ReleaseSession, IInv, TypeOK

(* A cancelled task that never began its turn only publishes a deferred one. *)
LEMMA PublishFacts ==
    ASSUME IInv, NEW s \in Sessions, PublishNextDeferred(s)
    PROVE  /\ bus' \in Seq(Msgs) /\ IsInjective(bus')
           /\ ToSet(bus') = ToSet(bus) \union ToSet(NextDeferred(s))
           /\ DeferredAfter(s)
<1> DEFINE rest == SubSeq(deferred[s], Len(NextDeferred(s)) + 1, Len(deferred[s]))
<1>1. /\ NextDeferred(s) \in Seq(Msgs) /\ IsInjective(NextDeferred(s))
      /\ rest \in Seq(Msgs) /\ IsInjective(rest)
      /\ ToSet(NextDeferred(s)) \subseteq ToSet(deferred[s])
      /\ ToSet(rest) = ToSet(deferred[s]) \ ToSet(NextDeferred(s))
    BY NextDeferredFacts
<1>2. bus \in Seq(Msgs) /\ IsInjective(bus)
    BY DEF IInv, TypeOK, QueuesInv
<1>3. ToSet(bus) \subseteq Msgs
    BY <1>2, ElementsTyped
<1>4. \A m \in ToSet(deferred[s]) : SessionOf[m] = s
    BY DEF IInv, QueuesInv
<1>5. ToSet(bus) \intersect ToSet(NextDeferred(s)) = {}
    BY <1>1, <1>3, <1>4 DEF IInv, HolderInv, HolderOK
<1>6. /\ bus' \in Seq(Msgs) /\ IsInjective(bus')
      /\ ToSet(bus') = ToSet(bus) \union ToSet(NextDeferred(s))
    BY <1>1, <1>2, <1>5, ConcatQueue DEF PublishNextDeferred
<1>7. deferred' = [deferred EXCEPT ![s] = rest]
    BY DEF PublishNextDeferred, IInv, TypeOK
<1>8. DeferredAfter(s)
    BY <1>1, <1>7 DEF DeferredAfter, IInv, TypeOK
<1>9. QED
    BY <1>6, <1>8

(* Nothing has happened yet.                                                 *)
LEMMA InitIInv == Init => IInv
<1> SUFFICES ASSUME Init PROVE IInv
    OBVIOUS
<1>1. <<>> \in Seq(Msgs) /\ IsInjective(<<>>) /\ ToSet(<<>>) = {}
    BY EmptyQueue
<1>2. TypeOK
    BY <1>1, DispatchAssumption DEF Init, TypeOK, Phases, Working, Futures, Statuses
<1>3. StopInv /\ TaskInv /\ LockInv /\ GateInv /\ OwnerInv /\ RoundInv
    BY <1>1 DEF Init, StopInv, TaskInv, LockInv, GateInv, OwnerInv, RoundInv, Working
<1>4. QueuesInv /\ HolderInv /\ AutoInv
    BY <1>1, DispatchAssumption DEF Init, QueuesInv, HolderInv, HolderOK, AutoInv, AutoOK
<1>5. QED
    BY <1>2, <1>3, <1>4 DEF IInv

-----------------------------------------------------------------------------
(* The actions keep the invariant                                            *)

(* Sending a message.                                                        *)
LEMMA SendersIInv ==
    ASSUME IInv, NEW x \in Msgs, Send(x)
    PROVE  IInv'
<1>1. ASSUME NEW m \in Msgs, Publish(m) PROVE IInv'
    <2>1. m \notin ToSet(bus) /\ phase[m] = "none" /\ stopping # m
          /\ m \notin ToSet(pending[SessionOf[m]]) \union ToSet(deferred[SessionOf[m]])
        BY <1>1 DEF IInv, HolderInv, HolderOK, Publish
    <2>2. /\ bus' \in Seq(Msgs) /\ IsInjective(bus')
          /\ ToSet(bus') = ToSet(bus) \union {m}
        BY <1>1, <2>1, AppendQueue DEF Publish, IInv, TypeOK, QueuesInv
    <2>3. TypeOK'
        BY <1>1, <2>1, <2>2 DEF Publish, IInv, TypeOK, Phases, Working, Futures, Handled,
            Statuses
    <2>4. QueuesInv'
        BY <1>1, <2>1, <2>2 DEF Publish, IInv, QueuesInv
    <2>5. HolderInv'
        BY <1>1, <2>1, <2>2 DEF Publish, IInv, HolderInv, HolderOK, Bound, TypeOK
    <2>6. AutoInv'
        BY <1>1, <2>1, <2>2 DEF Publish, IInv, AutoInv, AutoOK
    <2>7. StopInv' /\ TaskInv' /\ LockInv' /\ GateInv' /\ OwnerInv' /\ RoundInv'
        BY <1>1 DEF Publish, IInv, StopInv, Bound, TaskInv, LockInv, Working, GateInv,
            OwnerInv, RoundInv
    <2>8. QED
        BY <2>3, <2>4, <2>5, <2>6, <2>7 DEF IInv
<1>2. ASSUME NEW m \in Msgs, Submit(m) PROVE IInv'
    <2>1. m \notin ToSet(bus) /\ phase[m] = "none" /\ stopping # m
          /\ m \notin ToSet(pending[SessionOf[m]]) \union ToSet(deferred[SessionOf[m]])
        BY <1>2 DEF IInv, HolderInv, HolderOK, Submit
    <2>2. /\ bus' \in Seq(Msgs) /\ IsInjective(bus')
          /\ ToSet(bus') = ToSet(bus) \union {m}
        BY <1>2, <2>1, AppendQueue DEF Submit, IInv, TypeOK, QueuesInv
    <2>3. TypeOK'
        BY <1>2, <2>1, <2>2 DEF Submit, IInv, TypeOK, Phases, Working, Futures, Handled,
            Statuses
    <2>4. QueuesInv'
        BY <1>2, <2>1, <2>2 DEF Submit, IInv, QueuesInv
    <2>5. HolderInv'
        BY <1>2, <2>1, <2>2 DEF Submit, IInv, HolderInv, HolderOK, Bound, TypeOK
    <2>6. AutoInv'
        BY <1>2, <2>1, <2>2 DEF Submit, IInv, AutoInv, AutoOK
    <2>7. StopInv' /\ TaskInv' /\ LockInv' /\ GateInv' /\ OwnerInv' /\ RoundInv'
        BY <1>2 DEF Submit, IInv, StopInv, Bound, TaskInv, LockInv, Working, GateInv,
            OwnerInv, RoundInv
    <2>8. QED
        BY <2>3, <2>4, <2>5, <2>6, <2>7 DEF IInv
<1>3. ASSUME NEW m \in Msgs, CallDirect(m) PROVE IInv'
    <2>1. m \notin ToSet(bus) /\ phase[m] = "none" /\ stopping # m
          /\ m \notin ToSet(pending[SessionOf[m]]) \union ToSet(deferred[SessionOf[m]])
        BY <1>3 DEF IInv, HolderInv, HolderOK, CallDirect
    <2>2. /\ SessionOf[m] \in Sessions /\ ~Bound(m)
          /\ m \notin ToSet(lockQ[SessionOf[m]]) /\ phase[m] = "none"
        BY <1>3, <2>1, DispatchAssumption DEF CallDirect, Bound, IInv, LockInv
    <2>3. /\ lockQ' \in [Sessions -> Seq(Msgs)]
          /\ IsInjective(lockQ'[SessionOf[m]])
          /\ ToSet(lockQ'[SessionOf[m]]) = ToSet(lockQ[SessionOf[m]]) \union {m}
          /\ lockQ[SessionOf[m]] # <<>> => lockQ'[SessionOf[m]][1] = lockQ[SessionOf[m]][1]
          /\ \A s \in Sessions \ {SessionOf[m]} : lockQ'[s] = lockQ[s]
        BY <1>3, <2>2, AppendQueue DEF CallDirect, IInv, TypeOK, LockInv
    <2>4. \A n \in Msgs \ {m} : phase'[n] = phase[n] /\ status'[n] = status[n]
        BY <1>3 DEF CallDirect, IInv, TypeOK
    <2>5. phase'[m] = "lock" /\ status'[m] = "open"
        BY <1>3 DEF CallDirect, IInv, TypeOK
    <2>6. \A n \in Msgs : phase[n] \notin {"none", "created"} => lockQ[SessionOf[n]] # <<>>
        BY EmptyQueue, DispatchAssumption DEF IInv, LockInv
    <2>7. TypeOK'
        BY <1>3, <2>1, <2>2, <2>3, <2>4, <2>5, <2>6 DEF CallDirect, IInv, TypeOK, Phases,
            Working, Futures, Handled, Statuses
    <2>8. StopInv'
        BY <1>3, <2>2, <2>4, <2>5 DEF CallDirect, IInv, StopInv, Bound
    <2>9. TaskInv'
        BY <1>3, <2>2, <2>4, <2>5 DEF CallDirect, IInv, TaskInv, Bound
    <2>10. LockInv'
        BY <1>3, <2>1, <2>2, <2>3, <2>4, <2>5, <2>6 DEF CallDirect, IInv, LockInv, Working
    <2>11. GateInv'
        BY <1>3, <2>1, <2>4, <2>5 DEF CallDirect, IInv, GateInv, Working
    <2>12. OwnerInv'
        BY <1>3, <2>1, <2>2, <2>4, <2>5 DEF CallDirect, IInv, OwnerInv, Bound, Working
    <2>13. RoundInv'
        BY <1>3, <2>4, <2>5 DEF CallDirect, IInv, RoundInv
    <2>14. HolderInv'
        BY <1>3, <2>1, <2>4, <2>5 DEF CallDirect, IInv, HolderInv, HolderOK, Bound
    <2>15. AutoInv'
        BY <1>3, <2>1, <2>4, <2>5 DEF CallDirect, IInv, AutoInv, AutoOK
    <2>16. QueuesInv'
        BY <1>3 DEF CallDirect, IInv, QueuesInv
    <2>17. QED
        BY <2>7, <2>8, <2>9, <2>10, <2>11, <2>12, <2>13, <2>14, <2>15, <2>16 DEF IInv
<1>4. QED
    BY <1>1, <1>2, <1>3 DEF Send

(* Every branch of run() and both halves of /stop.                           *)
LEMMA RunLoopIInv ==
    ASSUME IInv, RunLoop
    PROVE  IInv'
<1>1. CASE FinishStop
    <2>1. /\ stopping \in Msgs /\ SessionOf[stopping] \in Sessions
          /\ \A m \in Msgs : SessionOf[m] = SessionOf[stopping] /\ Bound(m) => phase[m] = "none"
        BY <1>1, DispatchAssumption DEF FinishStop, IInv, TypeOK, StopInv
    <2>2. owner[SessionOf[stopping]] = NoMsg
        <3> DEFINE w == owner[SessionOf[stopping]]
        <3>1. w \in Msgs \union {NoMsg}
            BY <2>1 DEF IInv, TypeOK
        <3>2. w # NoMsg => SessionOf[w] = SessionOf[stopping] /\ Bound(w) /\ phase[w] \in Working
            BY <2>1 DEF IInv, OwnerInv
        <3> HIDE DEF w
        <3>3. QED
            BY <2>1, <3>1, <3>2 DEF Working, w
    <2>3. pending[SessionOf[stopping]] = <<>> /\ ToSet(pending[SessionOf[stopping]]) = {}
        BY <2>1, <2>2, EmptyQueue DEF IInv, OwnerInv
    <2>4. /\ pending' = pending /\ owner' = owner
          /\ status' = [status EXCEPT ![stopping] = "command"]
        BY <1>1, <2>1, <2>2, <2>3 DEF FinishStop, IInv, TypeOK
    <2>5. stopping' = NoMsg /\ cancelled = {} /\ cancelled' = {}
        BY <1>1 DEF FinishStop
    <2>6. UNCHANGED <<ready, yielded, bus, phase, lockQ, gateQ, deferred, cycles, rounds, waiter>>
        BY <1>1 DEF FinishStop
    <2>7. TypeOK'
        BY <1>1, <2>1, <2>2, <2>3, <2>4, <2>5, <2>6 DEF FinishStop, IInv, TypeOK, Phases,
            Working, Futures, Handled, Statuses
    <2>8. StopInv'
        BY <1>1, <2>5 DEF FinishStop, IInv, StopInv, Bound
    <2>9. HolderInv'
        <3> SUFFICES ASSUME NEW n \in Msgs PROVE HolderOK(n)'
            BY DEF HolderInv
        <3>0. HolderOK(n) /\ SessionOf[n] \in Sessions
            BY DispatchAssumption DEF IInv, HolderInv
        <3>1. CASE n = stopping
            BY <2>1, <2>4, <2>5, <2>6, DispatchAssumption, <3>0, <3>1 DEF IInv, HolderOK,
                Bound, TypeOK
        <3>2. CASE n # stopping
            BY <2>1, <2>4, <2>5, <2>6, DispatchAssumption, <3>0, <3>2 DEF IInv, HolderOK,
                Bound, TypeOK
        <3>3. QED
            BY <3>1, <3>2
    <2>10. AutoInv'
        BY <1>1, <2>1, <2>4, <2>6 DEF FinishStop, IInv, AutoInv, AutoOK, TypeOK
    <2>11. TaskInv' /\ LockInv' /\ GateInv' /\ OwnerInv' /\ RoundInv' /\ QueuesInv'
        BY <1>1, <2>4, <2>6 DEF FinishStop, IInv, TaskInv, Bound, LockInv, Working, GateInv,
            OwnerInv, RoundInv, QueuesInv
    <2>12. QED
        BY <2>7, <2>8, <2>9, <2>10, <2>11 DEF IInv
<1>2. ASSUME NEW m \in Msgs, DropOrphan(m) PROVE IInv'
    <2>1. /\ bus' \in Seq(Msgs) /\ IsInjective(bus') /\ yielded' \in BOOLEAN
          /\ ToSet(bus') = ToSet(bus) \ {m} /\ m \in ToSet(bus)
          /\ stopping = NoMsg /\ cancelled = {}
          /\ phase[m] = "none" /\ status[m] = "open"
          /\ m \notin ToSet(pending[SessionOf[m]]) \union ToSet(deferred[SessionOf[m]])
        BY <1>2, ConsumeFacts DEF DropOrphan
    <2>2. TypeOK'
        BY <1>2, <2>1 DEF DropOrphan, IInv, TypeOK, Phases, Working, Futures, Handled,
            Statuses
    <2>3. StopInv'
        BY <1>2, <2>1 DEF DropOrphan, IInv, StopInv, Bound
    <2>4. QueuesInv'
        BY <1>2, <2>1 DEF DropOrphan, IInv, QueuesInv
    <2>5. HolderInv'
        BY <1>2, <2>1 DEF DropOrphan, IInv, HolderInv, HolderOK, Bound, TypeOK
    <2>6. AutoInv'
        BY <1>2, <2>1 DEF DropOrphan, IInv, AutoInv, AutoOK, TypeOK
    <2>7. TaskInv' /\ LockInv' /\ GateInv' /\ OwnerInv' /\ RoundInv'
        BY <1>2 DEF DropOrphan, IInv, TaskInv, Bound, LockInv, Working, GateInv, OwnerInv,
            RoundInv
    <2>8. QED
        BY <2>2, <2>3, <2>4, <2>5, <2>6, <2>7 DEF IInv
<1>3. ASSUME NEW m \in Msgs, AnswerInline(m) PROVE IInv'
    <2>1. /\ bus' \in Seq(Msgs) /\ IsInjective(bus') /\ yielded' \in BOOLEAN
          /\ ToSet(bus') = ToSet(bus) \ {m} /\ m \in ToSet(bus)
          /\ stopping = NoMsg /\ cancelled = {}
          /\ phase[m] = "none" /\ status[m] = "open"
          /\ m \notin ToSet(pending[SessionOf[m]]) \union ToSet(deferred[SessionOf[m]])
        BY <1>3, ConsumeFacts DEF AnswerInline
    <2>2. TypeOK'
        BY <1>3, <2>1 DEF AnswerInline, IInv, TypeOK, Phases, Working, Futures, Handled,
            Statuses
    <2>3. StopInv'
        BY <1>3, <2>1 DEF AnswerInline, IInv, StopInv, Bound
    <2>4. QueuesInv'
        BY <1>3, <2>1 DEF AnswerInline, IInv, QueuesInv
    <2>5. HolderInv'
        BY <1>3, <2>1 DEF AnswerInline, IInv, HolderInv, HolderOK, Bound, TypeOK
    <2>6. AutoInv'
        BY <1>3, <2>1 DEF AnswerInline, IInv, AutoInv, AutoOK, TypeOK
    <2>7. TaskInv' /\ LockInv' /\ GateInv' /\ OwnerInv' /\ RoundInv'
        BY <1>3 DEF AnswerInline, IInv, TaskInv, Bound, LockInv, Working, GateInv, OwnerInv,
            RoundInv
    <2>8. QED
        BY <2>2, <2>3, <2>4, <2>5, <2>6, <2>7 DEF IInv
<1>4. ASSUME NEW m \in Msgs, BeginStop(m) PROVE IInv'
    <2>1. /\ bus' \in Seq(Msgs) /\ IsInjective(bus') /\ yielded' \in BOOLEAN
          /\ ToSet(bus') = ToSet(bus) \ {m} /\ m \in ToSet(bus)
          /\ stopping = NoMsg /\ cancelled = {}
          /\ phase[m] = "none" /\ status[m] = "open"
          /\ m \notin ToSet(pending[SessionOf[m]]) \union ToSet(deferred[SessionOf[m]])
        BY <1>4, ConsumeFacts DEF BeginStop
    <2>2. TypeOK'
        BY <1>4, <2>1 DEF BeginStop, IInv, TypeOK, Phases, Working, Futures, Handled,
            Statuses, ActiveTasks
    <2>3. StopInv'
        BY <1>4, DispatchAssumption DEF BeginStop, IInv, StopInv, Bound, ActiveTasks
    <2>4. QueuesInv'
        BY <1>4, <2>1 DEF BeginStop, IInv, QueuesInv
    <2>5. HolderInv'
        BY <1>4, <2>1, DispatchAssumption DEF BeginStop, IInv, HolderInv, HolderOK, Bound,
            TypeOK
    <2>6. TaskInv' /\ LockInv' /\ GateInv' /\ OwnerInv' /\ RoundInv' /\ AutoInv'
        BY <1>4 DEF BeginStop, IInv, TaskInv, Bound, LockInv, Working, GateInv, OwnerInv,
            RoundInv, AutoInv, AutoOK
    <2>7. QED
        BY <2>2, <2>3, <2>4, <2>5, <2>6 DEF IInv
<1>5. ASSUME NEW m \in Msgs, Defer(m) PROVE IInv'
    <2>1. /\ bus' \in Seq(Msgs) /\ IsInjective(bus') /\ yielded' \in BOOLEAN
          /\ ToSet(bus') = ToSet(bus) \ {m} /\ m \in ToSet(bus)
          /\ stopping = NoMsg /\ cancelled = {}
          /\ phase[m] = "none" /\ status[m] = "open"
          /\ m \notin ToSet(pending[SessionOf[m]]) \union ToSet(deferred[SessionOf[m]])
        BY <1>5, ConsumeFacts DEF Defer
    <2>2. SessionOf[m] \in Sessions /\ (KindOf[m] = "auto")
        BY <1>5, DispatchAssumption DEF Defer, DefersTurn
    <2>3. /\ deferred' \in [Sessions -> Seq(Msgs)]
          /\ IsInjective(deferred'[SessionOf[m]])
          /\ ToSet(deferred'[SessionOf[m]]) = ToSet(deferred[SessionOf[m]]) \union {m}
          /\ \A s \in Sessions \ {SessionOf[m]} : deferred'[s] = deferred[s]
        BY <1>5, <2>1, <2>2, AppendQueue DEF Defer, IInv, TypeOK, QueuesInv
    <2>4. TypeOK'
        BY <1>5, <2>1, <2>2, <2>3 DEF Defer, IInv, TypeOK, Phases, Working, Futures,
            Handled, Statuses
    <2>5. StopInv'
        BY <1>5, <2>1, <2>2, <2>3 DEF Defer, IInv, StopInv, Bound
    <2>6. QueuesInv'
        BY <1>5, <2>1, <2>2, <2>3 DEF Defer, IInv, QueuesInv
    <2>7. HolderInv'
        <3> SUFFICES ASSUME NEW n \in Msgs PROVE HolderOK(n)'
            BY DEF HolderInv
        <3>0. HolderOK(n) /\ SessionOf[n] \in Sessions
            BY DispatchAssumption DEF IInv, HolderInv
        <3>1. CASE n = m
            BY <1>5, <2>1, <2>2, <2>3, <3>0, <3>1 DEF Defer, IInv, HolderOK, Bound, TypeOK,
                QueuesInv
        <3>2. CASE n # m
            BY <1>5, <2>1, <2>2, <2>3, <3>0, <3>2 DEF Defer, IInv, HolderOK, Bound, TypeOK,
                QueuesInv
        <3>3. QED
            BY <3>1, <3>2
    <2>8. TaskInv' /\ LockInv' /\ GateInv' /\ OwnerInv' /\ RoundInv' /\ AutoInv'
        BY <1>5 DEF Defer, IInv, TaskInv, Bound, LockInv, Working, GateInv, OwnerInv,
            RoundInv, AutoInv, AutoOK
    <2>9. QED
        BY <2>4, <2>5, <2>6, <2>7, <2>8 DEF IInv
<1>6. ASSUME NEW m \in Msgs, RouteToPending(m) PROVE IInv'
    <2>1. /\ bus' \in Seq(Msgs) /\ IsInjective(bus') /\ yielded' \in BOOLEAN
          /\ ToSet(bus') = ToSet(bus) \ {m} /\ m \in ToSet(bus)
          /\ stopping = NoMsg /\ cancelled = {}
          /\ phase[m] = "none" /\ status[m] = "open"
          /\ m \notin ToSet(pending[SessionOf[m]]) \union ToSet(deferred[SessionOf[m]])
        BY <1>6, ConsumeFacts DEF RouteToPending
    <2>2. SessionOf[m] \in Sessions /\ owner[SessionOf[m]] # NoMsg /\ KindOf[m] # "auto"
        BY <1>6, DispatchAssumption DEF RouteToPending, DefersTurn
    <2>3. /\ pending' \in [Sessions -> Seq(Msgs)]
          /\ IsInjective(pending'[SessionOf[m]])
          /\ ToSet(pending'[SessionOf[m]]) = ToSet(pending[SessionOf[m]]) \union {m}
          /\ \A s \in Sessions \ {SessionOf[m]} : pending'[s] = pending[s]
        BY <1>6, <2>1, <2>2, AppendQueue DEF RouteToPending, IInv, TypeOK, QueuesInv
    <2>4. TypeOK'
        BY <1>6, <2>1, <2>2, <2>3 DEF RouteToPending, IInv, TypeOK, Phases, Working,
            Futures, Handled, Statuses
    <2>5. StopInv'
        BY <1>6, <2>1, <2>2, <2>3 DEF RouteToPending, IInv, StopInv, Bound
    <2>6. OwnerInv'
        BY <1>6, <2>1, <2>2, <2>3 DEF RouteToPending, IInv, OwnerInv, Bound, Working
    <2>7. QueuesInv'
        BY <1>6, <2>1, <2>2, <2>3 DEF RouteToPending, IInv, QueuesInv
    <2>8. HolderInv'
        <3> SUFFICES ASSUME NEW n \in Msgs PROVE HolderOK(n)'
            BY DEF HolderInv
        <3>0. HolderOK(n) /\ SessionOf[n] \in Sessions
            BY DispatchAssumption DEF IInv, HolderInv
        <3>1. CASE n = m
            BY <1>6, <2>1, <2>2, <2>3, <3>0, <3>1 DEF RouteToPending, IInv, HolderOK, Bound,
                TypeOK, QueuesInv
        <3>2. CASE n # m
            BY <1>6, <2>1, <2>2, <2>3, <3>0, <3>2 DEF RouteToPending, IInv, HolderOK, Bound,
                TypeOK, QueuesInv
        <3>3. QED
            BY <3>1, <3>2
    <2>9. AutoInv'
        BY <1>6, <2>1, <2>2, <2>3, DispatchAssumption DEF RouteToPending, IInv, AutoInv,
            AutoOK, TypeOK
    <2>10. TaskInv' /\ LockInv' /\ GateInv' /\ RoundInv'
        BY <1>6 DEF RouteToPending, IInv, TaskInv, Bound, LockInv, Working, GateInv,
            RoundInv
    <2>11. QED
        BY <2>4, <2>5, <2>6, <2>7, <2>8, <2>9, <2>10 DEF IInv
<1>7. ASSUME NEW m \in Msgs, SpawnTask(m) PROVE IInv'
    <2>1. /\ bus' \in Seq(Msgs) /\ IsInjective(bus') /\ yielded' \in BOOLEAN
          /\ ToSet(bus') = ToSet(bus) \ {m} /\ m \in ToSet(bus)
          /\ stopping = NoMsg /\ cancelled = {}
          /\ phase[m] = "none" /\ status[m] = "open"
          /\ m \notin ToSet(pending[SessionOf[m]]) \union ToSet(deferred[SessionOf[m]])
        BY <1>7, ConsumeFacts DEF SpawnTask
    <2>2. /\ phase' = [phase EXCEPT ![m] = "created"]
          /\ \A n \in Msgs \ {m} : phase'[n] = phase[n]
          /\ phase'[m] = "created"
        BY <1>7 DEF SpawnTask, IInv, TypeOK
    <2>3. /\ ready' \in Seq(Msgs) /\ IsInjective(ready')
          /\ ToSet(ready') = ToSet(ready) \union {m}
        BY <1>7, <2>1, AppendQueue DEF SpawnTask, IInv, TypeOK, TaskInv
    <2>4. Bound(m)
        BY <2>1 DEF IInv, HolderInv, HolderOK
    <2>5. TypeOK'
        BY <1>7, <2>1, <2>2, <2>3, <2>4 DEF SpawnTask, IInv, TypeOK, Phases, Working,
            Futures, Handled, Statuses
    <2>6. StopInv'
        BY <1>7, <2>1, <2>2, <2>3, <2>4 DEF SpawnTask, IInv, StopInv, Bound
    <2>7. TaskInv'
        BY <1>7, <2>1, <2>2, <2>3, <2>4 DEF SpawnTask, IInv, TaskInv, Bound
    <2>8. LockInv'
        BY <1>7, <2>1, <2>2 DEF SpawnTask, IInv, LockInv, Working
    <2>9. GateInv'
        BY <1>7, <2>1, <2>2 DEF SpawnTask, IInv, GateInv, Working
    <2>10. OwnerInv'
        BY <1>7, <2>1, <2>2 DEF SpawnTask, IInv, OwnerInv, Bound, Working
    <2>11. RoundInv'
        BY <1>7, <2>2 DEF SpawnTask, IInv, RoundInv
    <2>12. QueuesInv'
        BY <1>7, <2>1, <2>2, <2>3, <2>4 DEF SpawnTask, IInv, QueuesInv
    <2>13. HolderInv'
        BY <1>7, <2>1, <2>2, DispatchAssumption DEF SpawnTask, IInv, HolderInv, HolderOK,
            Bound, TypeOK
    <2>14. AutoInv'
        BY <1>7, <2>1, <2>2 DEF SpawnTask, IInv, AutoInv, AutoOK, TypeOK
    <2>15. QED
        BY <2>5, <2>6, <2>7, <2>8, <2>9, <2>10, <2>11, <2>12, <2>13, <2>14 DEF IInv
<1>8. QED
    BY <1>1, <1>2, <1>3, <1>4, <1>5, <1>6, <1>7 DEF RunLoop

(* What a drain of pending queues may do: take messages of users out of it.  *)
InjectedOrKept(n) ==
    LET s == SessionOf[n] IN
    \/ status'[n] = status[n] /\ (n \in ToSet(pending'[s]) <=> n \in ToSet(pending[s]))
    \/ /\ status'[n] = "injected" /\ n \in ToSet(pending[s]) \ ToSet(pending'[s])
       /\ phase[n] = "none" /\ KindOf[n] # "auto"

DrainEffect ==
    /\ pending' \in [Sessions -> Seq(Msgs)] /\ cycles' \in [Sessions -> 0 .. MaxCycles]
    /\ status' \in [Msgs -> Statuses]
    /\ \A t \in Sessions : /\ IsInjective(pending'[t])
                           /\ owner[t] = NoMsg => pending'[t] = <<>>
                           /\ \A n \in ToSet(pending'[t]) : SessionOf[n] = t
    /\ \A n \in Msgs : InjectedOrKept(n)

(* A drain takes only follow-ups out of the queue, never an automation turn. *)
LEMMA InjectFacts ==
    ASSUME IInv, NEW s \in Sessions, NEW m \in Msgs, owner[s] = m, phase[m] = "running",
           InjectBatch(s) \/ UNCHANGED <<status, pending, cycles>>
    PROVE  DrainEffect
<1>1. CASE UNCHANGED <<status, pending, cycles>>
    BY <1>1 DEF DrainEffect, InjectedOrKept, IInv, TypeOK, OwnerInv, QueuesInv
<1>2. CASE InjectBatch(s)
    <2>1. pending[s] \in Seq(Msgs) /\ IsInjective(pending[s]) /\ ToSet(pending[s]) \subseteq Msgs
        BY ElementsTyped DEF IInv, TypeOK, QueuesInv
    <2>2. Drained(s) \subseteq ToSet(pending[s])
        BY DEF Drained, ToSet
    <2>3. /\ AfterDrain(s) \in Seq(Msgs) /\ IsInjective(AfterDrain(s))
          /\ ToSet(AfterDrain(s)) = ToSet(pending[s]) \ Drained(s)
        <3> DEFINE q == pending[s]
        <3>1. MaxPerDrain \in Nat /\ q \in Seq(Msgs) /\ IsInjective(q)
            BY <2>1, DispatchAssumption
        <3> HIDE DEF q
        <3>2. /\ SubSeq(q, MaxPerDrain + 1, Len(q)) \in Seq(Msgs)
              /\ IsInjective(SubSeq(q, MaxPerDrain + 1, Len(q)))
              /\ ToSet(SubSeq(q, MaxPerDrain + 1, Len(q)))
                   = ToSet(q) \ {q[i] : i \in {j \in DOMAIN q : j <= MaxPerDrain}}
            BY <3>1, DropQueue, ZenonT(30)
        <3>3. QED
            BY <3>2 DEF AfterDrain, Drained, q
    <2>4. /\ pending' \in [Sessions -> Seq(Msgs)] /\ pending'[s] = AfterDrain(s)
          /\ \A t \in Sessions \ {s} : pending'[t] = pending[t]
        BY <1>2, <2>3 DEF InjectBatch, IInv, TypeOK
    <2>5. cycles' \in [Sessions -> 0 .. MaxCycles]
        <3>1. cycles[s] \in 0 .. MaxCycles /\ cycles[s] < MaxCycles /\ MaxCycles \in Nat
            BY <1>2, DispatchAssumption DEF InjectBatch, IInv, TypeOK
        <3>2. cycles[s] + 1 \in 0 .. MaxCycles
            BY <3>1
        <3>3. QED
            BY <1>2, <3>2 DEF InjectBatch, IInv, TypeOK
    <2>6. ASSUME NEW n \in Drained(s)
          PROVE  n \in Msgs /\ SessionOf[n] = s /\ phase[n] = "none" /\ KindOf[n] # "auto"
        <3>1. n \in Msgs /\ SessionOf[n] = s /\ n \in ToSet(pending[s])
            BY <2>1, <2>2 DEF IInv, QueuesInv
        <3>2. phase[n] \in {"none", "continuing"} /\ Bound(n)
            BY <3>1 DEF IInv, HolderInv, HolderOK
        <3>3. phase[n] = "none"
            BY <3>1, <3>2 DEF IInv, OwnerInv, Working
        <3>4. KindOf[n] # "auto"
            BY <3>1, <3>3 DEF IInv, AutoInv, AutoOK
        <3>5. QED
            BY <3>1, <3>3, <3>4
    <2>7. \A x \in Msgs : status'[x] = IF x \in Drained(s) THEN "injected" ELSE status[x]
        BY <1>2 DEF InjectBatch
    <2>8. status' \in [Msgs -> Statuses]
        BY <1>2 DEF InjectBatch, IInv, TypeOK, Statuses
    <2>9. \A n \in Msgs : InjectedOrKept(n)
        <3> SUFFICES ASSUME NEW n \in Msgs PROVE InjectedOrKept(n)
            OBVIOUS
        <3>1. SessionOf[n] \in Sessions
            BY DispatchAssumption
        <3>2. CASE n \in Drained(s)
            BY <2>2, <2>3, <2>4, <2>6, <2>7, <3>2 DEF InjectedOrKept
        <3>3. CASE n \notin Drained(s)
            BY <2>3, <2>4, <2>7, <3>1, <3>3 DEF InjectedOrKept
        <3>4. QED
            BY <3>2, <3>3
    <2>10. owner[s] # NoMsg
        BY DispatchAssumption
    <2>11. \A t \in Sessions : /\ IsInjective(pending'[t])
                               /\ owner[t] = NoMsg => pending'[t] = <<>>
                               /\ \A n \in ToSet(pending'[t]) : SessionOf[n] = t
        BY <2>2, <2>3, <2>4, <2>10 DEF IInv, OwnerInv, QueuesInv
    <2>12. QED
        BY <2>4, <2>5, <2>8, <2>9, <2>11 DEF DrainEffect
<1>3. QED
    BY <1>1, <1>2

(* The end of a turn, whether it returned, raised or was cancelled.          *)
TurnEnds(m) ==
    LET s == SessionOf[m] IN
    /\ Bound(m) /\ phase[m] \in Working /\ owner[s] = m /\ lockQ[s][1] = m
    /\ phase' \in [Msgs -> Phases] /\ phase'[m] = "none"
    /\ \A n \in Msgs \ {m} : phase'[n] = phase[n]
    /\ lockQ' \in [Sessions -> Seq(Msgs)]
    /\ \A t \in Sessions \ {s} : lockQ'[t] = lockQ[t]
    /\ IsInjective(lockQ'[s]) /\ ToSet(lockQ'[s]) = ToSet(lockQ[s]) \ {m}
    /\ gateQ' \in Seq(Msgs) /\ IsInjective(gateQ') /\ ToSet(gateQ') = ToSet(gateQ) \ {m}
    /\ bus' \in Seq(Msgs) /\ IsInjective(bus')
    /\ ToSet(bus') = ToSet(bus) \union ToSet(pending[s]) \union ToSet(NextDeferred(s))
    /\ DeferredAfter(s)
    /\ pending' \in [Sessions -> Seq(Msgs)] /\ pending'[s] = <<>>
    /\ \A t \in Sessions \ {s} : pending'[t] = pending[t] /\ owner'[t] = owner[t]
    /\ owner' \in [Sessions -> Msgs \union {NoMsg}] /\ owner'[s] = NoMsg
    /\ status' \in [Msgs -> Statuses] /\ \A n \in Msgs \ {m} : status'[n] = status[n]
    /\ \/ status'[m] \notin {"open", "injected"} /\ phase[m] # "continuing"
       \/ status'[m] = status[m] /\ phase[m] = "continuing"
    /\ waiter' \in [Msgs -> Futures]
    /\ UNCHANGED <<ready, yielded, cycles, rounds, stopping>>

(* It leaves the session free and every message with its one holder.         *)
LEMMA TurnEndsFacts ==
    ASSUME IInv, NEW m \in Msgs, TurnEnds(m)
    PROVE  /\ TaskInv' /\ LockInv' /\ GateInv' /\ OwnerInv' /\ RoundInv'
           /\ QueuesInv' /\ HolderInv' /\ AutoInv'
<1> DEFINE s == SessionOf[m]
<1>1. s \in Sessions
    BY Ranges
<1>2. \A n \in Msgs \ {m} : SessionOf[n] = s => phase[n] \notin {"gate"} \union Working
    BY DEF TurnEnds, IInv, LockInv
<1>3. TaskInv' /\ RoundInv'
    <2>1. /\ \A n \in Msgs : phase'[n] = "created" <=> phase[n] = "created"
          /\ \A n \in Msgs : phase'[n] \in {phase[n], "none"}
          /\ ready' = ready /\ rounds' = rounds
        BY DEF TurnEnds, Working
    <2>2. TaskInv'
        BY <2>1 DEF IInv, TaskInv
    <2>3. RoundInv'
        BY <2>1 DEF IInv, RoundInv
    <2>4. QED
        BY <2>2, <2>3
<1>4. LockInv'
    <2>1. ASSUME NEW t \in Sessions
          PROVE  /\ IsInjective(lockQ'[t])
                 /\ ToSet(lockQ'[t]) = {n \in Msgs : SessionOf[n] = t /\ phase'[n] \notin {"none", "created"}}
        <3>1. /\ IsInjective(lockQ[t])
              /\ ToSet(lockQ[t]) = {n \in Msgs : SessionOf[n] = t /\ phase[n] \notin {"none", "created"}}
            BY DEF IInv, LockInv
        <3>2. CASE t = s
            BY <3>1, <3>2 DEF TurnEnds
        <3>3. CASE t # s
            <4>1. \A n \in Msgs : SessionOf[n] = t => phase'[n] = phase[n]
                BY <3>3 DEF TurnEnds
            <4>2. lockQ'[t] = lockQ[t]
                BY <3>3 DEF TurnEnds
            <4>3. QED
                BY <3>1, <4>1, <4>2
        <3>4. QED
            BY <3>2, <3>3
    <2>2. ASSUME NEW n \in Msgs, phase'[n] \in {"gate"} \union Working
          PROVE  lockQ'[SessionOf[n]][1] = n
        <3>1. n # m /\ phase[n] \in {"gate"} \union Working /\ lockQ[SessionOf[n]][1] = n
            BY <2>2 DEF TurnEnds, IInv, LockInv, Working
        <3>2. SessionOf[n] \in Sessions \ {s}
            BY <1>2, <3>1, Ranges
        <3>3. QED
            BY <3>1, <3>2 DEF TurnEnds
    <2>3. QED
        BY <2>1, <2>2 DEF LockInv
<1>5. GateInv'
    BY Ranges DEF TurnEnds, IInv, GateInv
<1>6. OwnerInv'
    <2>1. ASSUME NEW t \in Sessions
          PROVE  /\ owner'[t] # NoMsg => /\ SessionOf[owner'[t]] = t /\ Bound(owner'[t])
                                         /\ phase'[owner'[t]] \in Working
                 /\ owner'[t] = NoMsg => pending'[t] = <<>>
        <3>1. CASE t = s
            BY <3>1 DEF TurnEnds
        <3>2. CASE t # s
            <4>1. owner'[t] = owner[t] /\ pending'[t] = pending[t] /\ owner[t] \in Msgs \union {NoMsg}
                BY <3>2, Ranges DEF TurnEnds
            <4>2. owner[t] # NoMsg => /\ SessionOf[owner[t]] = t /\ Bound(owner[t])
                                      /\ phase[owner[t]] \in Working /\ owner[t] # m
                BY <3>2 DEF IInv, OwnerInv
            <4>3. owner[t] # NoMsg => phase'[owner[t]] = phase[owner[t]]
                BY <4>1, <4>2 DEF TurnEnds
            <4>4. QED
                BY <4>1, <4>2, <4>3 DEF IInv, OwnerInv
        <3>3. QED
            BY <3>1, <3>2
    <2>2. ASSUME NEW n \in Msgs, phase'[n] \in Working, Bound(n)
          PROVE  owner'[SessionOf[n]] = n
        <3>1. n # m /\ phase[n] \in Working
            BY <2>2 DEF TurnEnds, Working
        <3>2. SessionOf[n] \in Sessions \ {s}
            BY <1>2, <3>1, Ranges
        <3>3. QED
            BY <2>2, <3>1, <3>2 DEF TurnEnds, IInv, OwnerInv
    <2>3. QED
        BY <2>1, <2>2 DEF OwnerInv
<1>7. QueuesInv'
    <2>1. ASSUME NEW t \in Sessions
          PROVE  /\ IsInjective(pending'[t]) /\ IsInjective(deferred'[t])
                 /\ \A n \in ToSet(pending'[t]) \union ToSet(deferred'[t]) : SessionOf[n] = t
        <3>1. /\ IsInjective(pending[t]) /\ IsInjective(deferred[t])
              /\ \A n \in ToSet(pending[t]) \union ToSet(deferred[t]) : SessionOf[n] = t
            BY DEF IInv, QueuesInv
        <3>2. CASE t = s
            BY <3>1, <3>2, EmptyQueue DEF TurnEnds, DeferredAfter
        <3>3. CASE t # s
            BY <3>1, <3>3 DEF TurnEnds, DeferredAfter
        <3>4. QED
            BY <3>2, <3>3
    <2>2. QED
        BY <2>1 DEF QueuesInv, TurnEnds
<1>8. ASSUME NEW n \in Msgs
      PROVE  HolderOK(n)' /\ AutoOK(n)'
    <2>1. SessionOf[n] \in Sessions /\ HolderOK(n) /\ AutoOK(n)
        BY Ranges DEF IInv, HolderInv, AutoInv
    <2>2. CASE SessionOf[n] # s
        <3>1. n # m /\ n \notin ToSet(pending[s]) /\ n \notin ToSet(NextDeferred(s))
            BY <1>1, <2>2 DEF TurnEnds, DeferredAfter, IInv, QueuesInv
        <3>2. /\ n \in ToSet(bus') <=> n \in ToSet(bus)
              /\ pending'[SessionOf[n]] = pending[SessionOf[n]]
              /\ deferred'[SessionOf[n]] = deferred[SessionOf[n]]
              /\ phase'[n] = phase[n] /\ status'[n] = status[n] /\ stopping' = stopping
            BY <2>1, <2>2, <3>1 DEF TurnEnds, DeferredAfter
        <3>3. QED
            BY <2>1, <3>2 DEF HolderOK, AutoOK
    <2>3. CASE SessionOf[n] = s
        <3>1. /\ n \in ToSet(bus') <=> \/ n \in ToSet(bus) \/ n \in ToSet(pending[s])
                                       \/ n \in ToSet(NextDeferred(s))
              /\ n \notin ToSet(pending'[s])
              /\ n \in ToSet(deferred'[s]) <=> n \in ToSet(deferred[s]) \ ToSet(NextDeferred(s))
              /\ n \in ToSet(NextDeferred(s)) => n \in ToSet(deferred[s])
              /\ stopping' = stopping
            BY EmptyQueue DEF TurnEnds, DeferredAfter
        <3>2. CASE n = m
            <4>1. /\ phase'[n] = "none" /\ phase[n] # "none"
                  /\ \/ status'[n] \notin {"open", "injected"} /\ phase[n] # "continuing"
                     \/ status'[n] = status[n] /\ phase[n] = "continuing"
                BY <3>2 DEF TurnEnds, Working
            <4>2. QED
                BY <2>1, <2>3, <3>1, <4>1 DEF HolderOK, AutoOK
        <3>3. CASE n # m
            <4>1. phase'[n] = phase[n] /\ status'[n] = status[n] /\ phase[n] # "continuing"
                BY <1>2, <2>3, <3>3 DEF TurnEnds, Working
            <4>2. QED
                BY <2>1, <2>3, <3>1, <4>1 DEF HolderOK, AutoOK
        <3>4. QED
            BY <3>2, <3>3
    <2>4. QED
        BY <2>2, <2>3
<1>9. QED
    BY <1>3, <1>4, <1>5, <1>6, <1>7, <1>8 DEF HolderInv, AutoInv

(* A turn that leaves is no longer a task, in any of the three ways.         *)
LEMMA EndTurnEnds ==
    ASSUME IInv, NEW m \in Msgs, NEW r \in {"answered", "failed"}, EndTurn(m, r)
    PROVE  TurnEnds(m) /\ m \notin cancelled /\ UNCHANGED cancelled
<1>1. /\ SessionOf[m] \in Sessions /\ Bound(m) /\ phase[m] \in Working
      /\ owner[SessionOf[m]] = m /\ lockQ[SessionOf[m]][1] = m
    BY Ranges DEF EndTurn, IInv, OwnerInv, LockInv, Working
<1>2. /\ phase' \in [Msgs -> Phases] /\ phase'[m] = "none"
      /\ \A n \in Msgs \ {m} : phase'[n] = phase[n]
    BY DEF EndTurn, IInv, TypeOK, Phases
<1>3. /\ status' \in [Msgs -> Statuses] /\ \A n \in Msgs \ {m} : status'[n] = status[n]
      /\ \/ status'[m] \notin {"open", "injected"} /\ phase[m] # "continuing"
         \/ status'[m] = status[m] /\ phase[m] = "continuing"
    BY DEF EndTurn, IInv, TypeOK, Statuses, Handled
<1>4. waiter' \in [Msgs -> Futures]
    BY DEF EndTurn, Complete, IInv, TypeOK, Futures
<1>5. /\ UNCHANGED <<ready, yielded, cycles, rounds, stopping, cancelled>>
      /\ LeaveLock(m) /\ LeaveGate(m) /\ ReleaseSession(SessionOf[m]) /\ m \notin cancelled
    BY DEF EndTurn
<1>6. QED
    BY <1>1, <1>2, <1>3, <1>4, <1>5, LeaveLockFacts, LeaveGateFacts, ReleaseFacts DEF TurnEnds

(* Likewise when it is cancelled.                                            *)
LEMMA UnwindTurnEnds ==
    ASSUME IInv, NEW m \in Msgs, UnwindTurn(m)
    PROVE  TurnEnds(m) /\ cancelled' = cancelled \ {m}
<1>1. /\ SessionOf[m] \in Sessions /\ Bound(m) /\ phase[m] \in Working
      /\ owner[SessionOf[m]] = m /\ lockQ[SessionOf[m]][1] = m
    BY Ranges DEF UnwindTurn, IInv, OwnerInv, LockInv, StopInv, Working
<1>2. /\ phase' \in [Msgs -> Phases] /\ phase'[m] = "none"
      /\ \A n \in Msgs \ {m} : phase'[n] = phase[n]
    BY DEF UnwindTurn, IInv, TypeOK, Phases
<1>3. /\ status' \in [Msgs -> Statuses] /\ \A n \in Msgs \ {m} : status'[n] = status[n]
      /\ \/ status'[m] \notin {"open", "injected"} /\ phase[m] # "continuing"
         \/ status'[m] = status[m] /\ phase[m] = "continuing"
    BY DEF UnwindTurn, IInv, TypeOK, Statuses, Handled
<1>4. waiter' \in [Msgs -> Futures]
    BY DEF UnwindTurn, Complete, IInv, TypeOK, Futures
<1>5. /\ UNCHANGED <<ready, yielded, cycles, rounds, stopping>> /\ cancelled' = cancelled \ {m}
      /\ LeaveLock(m) /\ LeaveGate(m) /\ ReleaseSession(SessionOf[m])
    BY DEF UnwindTurn
<1>6. QED
    BY <1>1, <1>2, <1>3, <1>4, <1>5, LeaveLockFacts, LeaveGateFacts, ReleaseFacts DEF TurnEnds

(* A task that queued at the lock leaves its session, by whatever exit.      *)
TaskLeaves(m) ==
    LET s == SessionOf[m] IN
    /\ phase[m] \notin {"none", "created"}
    /\ phase' \in [Msgs -> Phases] /\ phase'[m] = "none"
    /\ \A n \in Msgs \ {m} : phase'[n] = phase[n]
    /\ lockQ' \in [Sessions -> Seq(Msgs)]
    /\ \A t \in Sessions \ {s} : lockQ'[t] = lockQ[t]
    /\ IsInjective(lockQ'[s]) /\ ToSet(lockQ'[s]) = ToSet(lockQ[s]) \ {m}
    /\ lockQ[s][1] # m => lockQ'[s][1] = lockQ[s][1]

(* The lock stays with its holder, and no other task changes its phase.      *)
LEMMA LeavesFacts ==
    ASSUME IInv, NEW m \in Msgs, TaskLeaves(m), UNCHANGED <<ready, rounds>>
    PROVE  LockInv' /\ TaskInv' /\ RoundInv'
<1> DEFINE s == SessionOf[m]
<1>1. /\ \A n \in Msgs : phase'[n] = "created" <=> phase[n] = "created"
      /\ \A n \in Msgs : phase'[n] \in {phase[n], "none"}
    BY DEF TaskLeaves
<1>2. TaskInv'
    BY <1>1 DEF IInv, TaskInv
<1>3. RoundInv'
    BY <1>1 DEF IInv, RoundInv
<1>4. ASSUME NEW t \in Sessions
      PROVE  /\ IsInjective(lockQ'[t])
             /\ ToSet(lockQ'[t]) = {n \in Msgs : SessionOf[n] = t /\ phase'[n] \notin {"none", "created"}}
    <2>1. /\ IsInjective(lockQ[t])
          /\ ToSet(lockQ[t]) = {n \in Msgs : SessionOf[n] = t /\ phase[n] \notin {"none", "created"}}
        BY DEF IInv, LockInv
    <2>2. CASE t = s
        BY <2>1, <2>2 DEF TaskLeaves
    <2>3. CASE t # s
        <3>1. \A n \in Msgs : SessionOf[n] = t => phase'[n] = phase[n]
            BY <2>3 DEF TaskLeaves
        <3>2. lockQ'[t] = lockQ[t]
            BY <2>3 DEF TaskLeaves
        <3>3. QED
            BY <2>1, <3>1, <3>2
    <2>4. QED
        BY <2>2, <2>3
<1>5. ASSUME NEW n \in Msgs, phase'[n] \in {"gate"} \union Working
      PROVE  lockQ'[SessionOf[n]][1] = n
    <2>1. n # m /\ phase[n] \in {"gate"} \union Working /\ lockQ[SessionOf[n]][1] = n
        BY <1>5 DEF TaskLeaves, IInv, LockInv, Working
    <2>2. SessionOf[n] \in Sessions
        BY Ranges
    <2>3. QED
        BY <2>1, <2>2 DEF TaskLeaves
<1>6. QED
    BY <1>2, <1>3, <1>4, <1>5 DEF LockInv

(* Every step of a task.                                                     *)
LEMMA TasksIInv ==
    ASSUME IInv, NEW x \in Msgs, TaskStep(x)
    PROVE  IInv'
<1>1. ASSUME NEW m \in Msgs, StartTask(m) PROVE IInv'
    <2>1. /\ ready' \in Seq(Msgs) /\ IsInjective(ready')
          /\ ToSet(ready') = ToSet(ready) \ {m} /\ phase[m] = "created"
        BY <1>1, TailQueue DEF StartTask, IInv, TypeOK, TaskInv
    <2>2. SessionOf[m] \in Sessions /\ Bound(m) /\ m \notin ToSet(lockQ[SessionOf[m]])
        BY <2>1, DispatchAssumption DEF IInv, LockInv, TaskInv
    <2>3. /\ lockQ' \in [Sessions -> Seq(Msgs)]
          /\ IsInjective(lockQ'[SessionOf[m]])
          /\ ToSet(lockQ'[SessionOf[m]]) = ToSet(lockQ[SessionOf[m]]) \union {m}
          /\ lockQ[SessionOf[m]] # <<>> => lockQ'[SessionOf[m]][1] = lockQ[SessionOf[m]][1]
          /\ \A s \in Sessions \ {SessionOf[m]} : lockQ'[s] = lockQ[s]
        BY <1>1, <2>1, <2>2, AppendQueue DEF StartTask, IInv, TypeOK, LockInv
    <2>4. /\ phase'[m] = "lock"
          /\ \A n \in Msgs \ {m} : phase'[n] = phase[n]
          /\ phase' \in [Msgs -> Phases]
        BY <1>1 DEF StartTask, IInv, TypeOK, Phases, Working
    <2>5. \A n \in Msgs : phase[n] \notin {"none", "created"} => lockQ[SessionOf[n]] # <<>>
        BY EmptyQueue, DispatchAssumption DEF IInv, LockInv
    <2>6. TypeOK'
        BY <1>1, <2>1, <2>2, <2>3, <2>4, <2>5 DEF StartTask, IInv, TypeOK, Phases, Working,
            Futures, Handled, Statuses
    <2>7. StopInv'
        BY <1>1, <2>1, <2>2, <2>3, <2>4, <2>5 DEF StartTask, IInv, StopInv, Bound
    <2>8. TaskInv'
        BY <1>1, <2>1, <2>2, <2>3, <2>4, <2>5 DEF StartTask, IInv, TaskInv, Bound
    <2>9. LockInv'
        BY <1>1, <2>1, <2>2, <2>3, <2>4, <2>5 DEF StartTask, IInv, LockInv, Working
    <2>10. GateInv'
        BY <1>1, <2>1, <2>4 DEF StartTask, IInv, GateInv, Working
    <2>11. OwnerInv'
        BY <1>1, <2>1, <2>2, <2>4 DEF StartTask, IInv, OwnerInv, Bound, Working
    <2>12. RoundInv'
        BY <1>1, <2>4 DEF StartTask, IInv, RoundInv
    <2>13. HolderInv'
        <3> SUFFICES ASSUME NEW n \in Msgs PROVE HolderOK(n)'
            BY DEF HolderInv
        <3>0. HolderOK(n) /\ SessionOf[n] \in Sessions
            BY DispatchAssumption DEF IInv, HolderInv
        <3>1. CASE n = m
            BY <1>1, <2>1, <2>4, <3>0, <3>1 DEF StartTask, IInv, HolderOK, Bound
        <3>2. CASE n # m
            BY <1>1, <2>1, <2>4, <3>0, <3>2 DEF StartTask, IInv, HolderOK, Bound
        <3>3. QED
            BY <3>1, <3>2
    <2>14. AutoInv'
        BY <1>1, <2>1, <2>4 DEF StartTask, IInv, AutoInv, AutoOK
    <2>15. QueuesInv'
        BY <1>1 DEF StartTask, IInv, QueuesInv
    <2>16. QED
        BY <2>6, <2>7, <2>8, <2>9, <2>10, <2>11, <2>12, <2>13, <2>14, <2>15 DEF IInv
<1>2. ASSUME NEW m \in Msgs, QueueAtGate(m) PROVE IInv'
    <2>1. /\ SessionOf[m] \in Sessions /\ Bound(m)
          /\ phase[m] = "lock" /\ lockQ[SessionOf[m]][1] = m
        BY <1>2, DispatchAssumption DEF QueueAtGate, HoldsLock, Bound
    <2>2. m \notin ToSet(gateQ)
        BY <2>1 DEF IInv, GateInv, Working
    <2>3. /\ gateQ' \in Seq(Msgs) /\ IsInjective(gateQ')
          /\ ToSet(gateQ') = ToSet(gateQ) \union {m}
        BY <1>2, <2>2, AppendQueue DEF QueueAtGate, IInv, TypeOK, GateInv
    <2>4. /\ phase'[m] = "gate"
          /\ \A n \in Msgs \ {m} : phase'[n] = phase[n]
          /\ phase' \in [Msgs -> Phases]
        BY <1>2 DEF QueueAtGate, IInv, TypeOK, Phases, Working
    <2>5. TypeOK'
        BY <1>2, <2>1, <2>2, <2>3, <2>4 DEF QueueAtGate, IInv, TypeOK, Phases, Working,
            Futures, Handled, Statuses
    <2>6. StopInv'
        BY <1>2, <2>1, <2>4 DEF QueueAtGate, IInv, StopInv, Bound
    <2>7. TaskInv'
        BY <1>2, <2>1, <2>4 DEF QueueAtGate, IInv, TaskInv, Bound
    <2>8. LockInv'
        BY <1>2, <2>1, <2>4 DEF QueueAtGate, IInv, LockInv, Working
    <2>9. GateInv'
        BY <1>2, <2>1, <2>2, <2>3, <2>4 DEF QueueAtGate, IInv, GateInv, Working, TypeOK
    <2>10. OwnerInv'
        BY <1>2, <2>1, <2>4 DEF QueueAtGate, IInv, OwnerInv, Bound, Working
    <2>11. RoundInv'
        BY <1>2, <2>4 DEF QueueAtGate, IInv, RoundInv
    <2>12. HolderInv'
        <3> SUFFICES ASSUME NEW n \in Msgs PROVE HolderOK(n)'
            BY DEF HolderInv
        <3>0. HolderOK(n) /\ SessionOf[n] \in Sessions
            BY DispatchAssumption DEF IInv, HolderInv
        <3>1. CASE n = m
            BY <1>2, <2>1, <2>4, <3>0, <3>1 DEF QueueAtGate, IInv, HolderOK, Bound
        <3>2. CASE n # m
            BY <1>2, <2>1, <2>4, <3>0, <3>2 DEF QueueAtGate, IInv, HolderOK, Bound
        <3>3. QED
            BY <3>1, <3>2
    <2>13. AutoInv'
        BY <1>2, <2>1, <2>4 DEF QueueAtGate, IInv, AutoInv, AutoOK
    <2>14. QueuesInv'
        BY <1>2 DEF QueueAtGate, IInv, QueuesInv
    <2>15. QED
        BY <2>5, <2>6, <2>7, <2>8, <2>9, <2>10, <2>11, <2>12, <2>13, <2>14 DEF IInv
<1>3. ASSUME NEW m \in Msgs, BeginTurn(m) PROVE IInv'
    <2>1. /\ SessionOf[m] \in Sessions /\ Bound(m)
          /\ phase[m] \in {"lock", "gate"} /\ lockQ[SessionOf[m]][1] = m
        BY <1>3, DispatchAssumption DEF BeginTurn, HoldsLock, Bound, IInv, LockInv
    <2>2. \A n \in Msgs : SessionOf[n] = SessionOf[m] => phase[n] \notin Working
        BY <2>1 DEF IInv, LockInv, Working
    <2>3. owner[SessionOf[m]] = NoMsg /\ pending[SessionOf[m]] = <<>> /\ pending' = pending
        <3> DEFINE w == owner[SessionOf[m]]
        <3>1. w \in Msgs \union {NoMsg}
            BY <2>1 DEF IInv, TypeOK
        <3>2. w # NoMsg => SessionOf[w] = SessionOf[m] /\ phase[w] \in Working
            BY <2>1 DEF IInv, OwnerInv
        <3> HIDE DEF w
        <3>3. w = NoMsg
            BY <2>2, <3>1, <3>2
        <3>4. pending[SessionOf[m]] = <<>>
            BY <2>1, <3>3 DEF IInv, OwnerInv, w
        <3>5. pending' = pending
            BY <1>3, <3>4 DEF BeginTurn, IInv, TypeOK
        <3>6. QED
            BY <3>3, <3>4, <3>5 DEF w
    <2>4. /\ phase'[m] = "running"
          /\ \A n \in Msgs \ {m} : phase'[n] = phase[n]
          /\ phase' \in [Msgs -> Phases]
        BY <1>3 DEF BeginTurn, IInv, TypeOK, Phases, Working
    <2>5. /\ owner' \in [Sessions -> Msgs \union {NoMsg}] /\ owner'[SessionOf[m]] = m
          /\ \A s \in Sessions \ {SessionOf[m]} : owner'[s] = owner[s]
        BY <1>3, <2>1 DEF BeginTurn, IInv, TypeOK
    <2>6. cycles' \in [Sessions -> 0 .. MaxCycles]
        <3>1. 0 \in 0 .. MaxCycles
            BY DispatchAssumption
        <3>2. QED
            BY <1>3, <2>1, <3>1 DEF BeginTurn, IInv, TypeOK
    <2>7. TypeOK'
        BY <1>3, <2>1, <2>2, <2>3, <2>4, <2>5, <2>6 DEF BeginTurn, IInv, TypeOK, Phases,
            Working, Futures, Handled, Statuses
    <2>8. StopInv'
        BY <1>3, <2>1, <2>4 DEF BeginTurn, IInv, StopInv, Bound
    <2>9. TaskInv'
        BY <1>3, <2>1, <2>4 DEF BeginTurn, IInv, TaskInv, Bound
    <2>10. LockInv'
        BY <1>3, <2>1, <2>4 DEF BeginTurn, IInv, LockInv, Working
    <2>11. GateInv'
        BY <1>3, <2>4 DEF BeginTurn, IInv, GateInv, Working, TypeOK
    <2>12. OwnerInv'
        BY <1>3, <2>1, <2>2, <2>3, <2>4, <2>5, DispatchAssumption DEF BeginTurn, IInv,
            OwnerInv, Bound, Working
    <2>13. RoundInv'
        BY <1>3, <2>4 DEF BeginTurn, IInv, RoundInv
    <2>14. QueuesInv'
        BY <1>3, <2>3 DEF BeginTurn, IInv, QueuesInv
    <2>15. HolderInv'
        <3> SUFFICES ASSUME NEW n \in Msgs PROVE HolderOK(n)'
            BY DEF HolderInv
        <3>0. HolderOK(n) /\ SessionOf[n] \in Sessions
            BY DispatchAssumption DEF IInv, HolderInv
        <3>1. CASE n = m
            BY <1>3, <2>1, <2>3, <2>4, <3>0, <3>1 DEF BeginTurn, IInv, HolderOK, Bound
        <3>2. CASE n # m
            BY <1>3, <2>1, <2>3, <2>4, <3>0, <3>2 DEF BeginTurn, IInv, HolderOK, Bound
        <3>3. QED
            BY <3>1, <3>2
    <2>16. AutoInv'
        BY <1>3, <2>1, <2>3, <2>4 DEF BeginTurn, IInv, AutoInv, AutoOK
    <2>17. QED
        BY <2>7, <2>8, <2>9, <2>10, <2>11, <2>12, <2>13, <2>14, <2>15, <2>16 DEF IInv
<1>4. ASSUME NEW m \in Msgs, BeginDirect(m) PROVE IInv'
    <2>1. /\ SessionOf[m] \in Sessions /\ ~Bound(m)
          /\ phase[m] = "lock" /\ lockQ[SessionOf[m]][1] = m
        BY <1>4, DispatchAssumption DEF BeginDirect, HoldsLock, Bound
    <2>2. /\ phase'[m] = "running"
          /\ \A n \in Msgs \ {m} : phase'[n] = phase[n]
          /\ phase' \in [Msgs -> Phases]
        BY <1>4 DEF BeginDirect, IInv, TypeOK, Phases, Working
    <2>3. TypeOK'
        BY <1>4, <2>1, <2>2 DEF BeginDirect, IInv, TypeOK, Phases, Working, Futures,
            Handled, Statuses
    <2>4. StopInv'
        BY <1>4, <2>1, <2>2 DEF BeginDirect, IInv, StopInv, Bound
    <2>5. TaskInv'
        BY <1>4, <2>1, <2>2 DEF BeginDirect, IInv, TaskInv, Bound
    <2>6. LockInv'
        BY <1>4, <2>1, <2>2 DEF BeginDirect, IInv, LockInv, Working
    <2>7. GateInv'
        BY <1>4, <2>1, <2>2 DEF BeginDirect, IInv, GateInv, Working, TypeOK
    <2>8. OwnerInv'
        BY <1>4, <2>1, <2>2 DEF BeginDirect, IInv, OwnerInv, Bound, Working, TypeOK
    <2>9. RoundInv'
        BY <1>4, <2>1, <2>2 DEF BeginDirect, IInv, RoundInv
    <2>10. HolderInv'
        <3> SUFFICES ASSUME NEW n \in Msgs PROVE HolderOK(n)'
            BY DEF HolderInv
        <3>0. HolderOK(n) /\ SessionOf[n] \in Sessions
            BY DispatchAssumption DEF IInv, HolderInv
        <3>1. CASE n = m
            BY <1>4, <2>1, <2>2, <3>0, <3>1 DEF BeginDirect, IInv, HolderOK, Bound
        <3>2. CASE n # m
            BY <1>4, <2>1, <2>2, <3>0, <3>2 DEF BeginDirect, IInv, HolderOK, Bound
        <3>3. QED
            BY <3>1, <3>2
    <2>11. AutoInv'
        BY <1>4, <2>1, <2>2 DEF BeginDirect, IInv, AutoInv, AutoOK
    <2>12. QueuesInv'
        BY <1>4 DEF BeginDirect, IInv, QueuesInv
    <2>13. QED
        BY <2>3, <2>4, <2>5, <2>6, <2>7, <2>8, <2>9, <2>10, <2>11, <2>12 DEF IInv
<1>5. ASSUME NEW m \in Msgs, Drain(m) PROVE IInv'
    <2>1. SessionOf[m] \in Sessions
        BY DispatchAssumption
    <2>2. DrainEffect
        BY <1>5, <2>1, InjectFacts DEF Drain, InRunner
    <2>3. phase' = phase /\ UNCHANGED <<ready, bus, lockQ, gateQ, owner, deferred, rounds, stopping, cancelled>>
        BY <1>5 DEF Drain
    <2>4. TypeOK'
        BY <1>5, <2>2 DEF Drain, IInv, TypeOK, Phases, Working, Futures, Handled, Statuses,
            DrainEffect
    <2>5. OwnerInv'
        BY <1>5, <2>2, <2>3 DEF Drain, IInv, OwnerInv, Bound, Working, DrainEffect
    <2>6. QueuesInv'
        BY <1>5, <2>2, <2>3 DEF Drain, IInv, QueuesInv, DrainEffect
    <2>7. HolderInv'
        <3> SUFFICES ASSUME NEW n \in Msgs PROVE HolderOK(n)'
            BY DEF HolderInv
        <3>0. HolderOK(n) /\ SessionOf[n] \in Sessions
            BY DispatchAssumption DEF IInv, HolderInv
        <3>1. CASE n = m
            BY <2>2, <2>3, <3>0, <3>1 DEF IInv, HolderOK, Bound, DrainEffect, InjectedOrKept
        <3>2. CASE n # m
            BY <2>2, <2>3, <3>0, <3>2 DEF IInv, HolderOK, Bound, DrainEffect, InjectedOrKept
        <3>3. QED
            BY <3>1, <3>2
    <2>8. AutoInv'
        BY <1>5, <2>2, <2>3 DEF Drain, IInv, AutoInv, AutoOK, DrainEffect, InjectedOrKept
    <2>9. StopInv' /\ TaskInv' /\ LockInv' /\ GateInv' /\ RoundInv'
        BY <1>5 DEF Drain, IInv, StopInv, Bound, TaskInv, LockInv, Working, GateInv,
            RoundInv
    <2>10. QED
        BY <2>4, <2>5, <2>6, <2>7, <2>8, <2>9 DEF IInv
<1>6. ASSUME NEW m \in Msgs, ReachBudget(m) PROVE IInv'
    <2>1. /\ SessionOf[m] \in Sessions /\ Bound(m)
          /\ phase[m] = "running" /\ owner[SessionOf[m]] = m /\ rounds[SessionOf[m]] < MaxRounds
        BY <1>6, DispatchAssumption DEF ReachBudget, InRunner, IInv, OwnerInv
    <2>2. /\ phase'[m] = "boundary"
          /\ \A n \in Msgs \ {m} : phase'[n] = phase[n]
          /\ phase' \in [Msgs -> Phases]
        BY <1>6 DEF ReachBudget, IInv, TypeOK, Phases, Working
    <2>3. DrainEffect
        BY <1>6, <2>1, InjectFacts DEF ReachBudget
    <2>4. UNCHANGED <<ready, bus, lockQ, gateQ, owner, deferred, rounds, stopping, cancelled>>
        BY <1>6 DEF ReachBudget
    <2>5. TypeOK'
        BY <1>6, <2>2, <2>3 DEF ReachBudget, IInv, TypeOK, Phases, Working, Futures,
            Handled, Statuses, DrainEffect
    <2>6. StopInv'
        BY <1>6, <2>1, <2>2, <2>4 DEF ReachBudget, IInv, StopInv, Bound
    <2>7. TaskInv'
        BY <1>6, <2>1, <2>2, <2>4 DEF ReachBudget, IInv, TaskInv, Bound
    <2>8. LockInv'
        BY <1>6, <2>1, <2>2, <2>4 DEF ReachBudget, IInv, LockInv, Working
    <2>9. GateInv'
        BY <1>6, <2>2, <2>4 DEF ReachBudget, IInv, GateInv, Working, TypeOK
    <2>10. OwnerInv'
        BY <1>6, <2>1, <2>2, <2>3, <2>4 DEF ReachBudget, IInv, OwnerInv, Bound, Working,
            DrainEffect
    <2>11. RoundInv'
        BY <1>6, <2>1, <2>2, <2>4 DEF ReachBudget, IInv, RoundInv
    <2>12. QueuesInv'
        BY <1>6, <2>3, <2>4 DEF ReachBudget, IInv, QueuesInv, DrainEffect
    <2>13. HolderInv'
        <3> SUFFICES ASSUME NEW n \in Msgs PROVE HolderOK(n)'
            BY DEF HolderInv
        <3>0. HolderOK(n) /\ SessionOf[n] \in Sessions
            BY DispatchAssumption DEF IInv, HolderInv
        <3>1. CASE n = m
            BY <2>1, <2>2, <2>3, <2>4, <3>0, <3>1 DEF IInv, HolderOK, Bound, DrainEffect,
                InjectedOrKept
        <3>2. CASE n # m
            BY <2>1, <2>2, <2>3, <2>4, <3>0, <3>2 DEF IInv, HolderOK, Bound, DrainEffect,
                InjectedOrKept
        <3>3. QED
            BY <3>1, <3>2
    <2>14. AutoInv'
        BY <1>6, <2>1, <2>2, <2>3, <2>4 DEF ReachBudget, IInv, AutoInv, AutoOK, DrainEffect,
            InjectedOrKept
    <2>15. QED
        BY <2>5, <2>6, <2>7, <2>8, <2>9, <2>10, <2>11, <2>12, <2>13, <2>14 DEF IInv
<1>7. ASSUME NEW m \in Msgs, ContinueGoal(m) PROVE IInv'
    <2>1. /\ SessionOf[m] \in Sessions /\ Bound(m) /\ phase[m] = "boundary"
          /\ owner[SessionOf[m]] = m /\ owner[SessionOf[m]] # NoMsg
          /\ m \notin ToSet(pending[SessionOf[m]])
        BY <1>7, DispatchAssumption DEF ContinueGoal, IInv, OwnerInv, HolderInv, HolderOK
    <2>2. /\ phase' \in [Msgs -> Phases] /\ phase'[m] \in {"continuing", "wedged"}
          /\ \A n \in Msgs \ {m} : phase'[n] = phase[n]
        BY <1>7 DEF ContinueGoal, IInv, TypeOK, Phases, Working
    <2>3. rounds' \in [Sessions -> 0 .. MaxRounds]
        <3>1. /\ rounds[SessionOf[m]] \in 0 .. MaxRounds /\ MaxRounds \in Nat
              /\ rounds[SessionOf[m]] < MaxRounds
            BY <2>1, DispatchAssumption DEF IInv, TypeOK, RoundInv
        <3>2. rounds[SessionOf[m]] + 1 \in 0 .. MaxRounds
            BY <3>1
        <3>3. QED
            BY <1>7, <3>2 DEF ContinueGoal, IInv, TypeOK
    <2>4. /\ pending' \in [Sessions -> Seq(Msgs)] /\ IsInjective(pending'[SessionOf[m]])
          /\ \A s \in Sessions \ {SessionOf[m]} : pending'[s] = pending[s]
          /\ ToSet(pending'[SessionOf[m]]) = ToSet(pending[SessionOf[m]]) \union (IF phase'[m] = "continuing" THEN {m} ELSE {})
        <3>1. /\ pending[SessionOf[m]] \in Seq(Msgs) /\ IsInjective(pending[SessionOf[m]])
              /\ pending \in [Sessions -> Seq(Msgs)]
            BY <2>1 DEF IInv, TypeOK, QueuesInv
        <3>2. /\ Append(pending[SessionOf[m]], m) \in Seq(Msgs)
              /\ IsInjective(Append(pending[SessionOf[m]], m))
              /\ ToSet(Append(pending[SessionOf[m]], m)) = ToSet(pending[SessionOf[m]]) \union {m}
            BY <2>1, <3>1, AppendQueue
        <3>3. \/ pending' = [pending EXCEPT ![SessionOf[m]] = Append(pending[SessionOf[m]], m)] /\ phase'[m] = "continuing"
              \/ pending' = pending /\ phase'[m] = "wedged"
            BY <1>7 DEF ContinueGoal, IInv, TypeOK
        <3>4. QED
            BY <2>1, <3>1, <3>2, <3>3
    <2>5. UNCHANGED <<ready, bus, lockQ, gateQ, owner, deferred, stopping, cancelled, status>>
        BY <1>7 DEF ContinueGoal
    <2>6. UNCHANGED <<yielded, gateQ, cycles, waiter>>
        BY <1>7 DEF ContinueGoal
    <2>7. TypeOK'
        BY <2>2, <2>3, <2>4, <2>5, <2>6 DEF IInv, TypeOK, Phases, Working, Futures, Handled,
            Statuses
    <2>8. StopInv'
        BY Ranges, <2>1, <2>2, <2>5 DEF IInv, StopInv, Bound
    <2>9. TaskInv'
        BY Ranges, <2>1, <2>2, <2>5 DEF IInv, TaskInv, Bound
    <2>10. LockInv'
        BY Ranges, <2>1, <2>2, <2>5 DEF IInv, LockInv, Working
    <2>11. GateInv'
        BY Ranges, <2>2, <2>5 DEF IInv, GateInv, Working, TypeOK
    <2>12. OwnerInv'
        BY Ranges, <2>1, <2>2, <2>4, <2>5 DEF IInv, OwnerInv, Bound, Working
    <2>13. RoundInv'
        <3> SUFFICES ASSUME NEW n \in Msgs, phase'[n] = "boundary"
                     PROVE  rounds'[SessionOf[n]] < MaxRounds
            BY DEF RoundInv
        <3>1. n # m /\ phase[n] = "boundary"
            BY <2>2
        <3>2. SessionOf[n] # SessionOf[m]
            BY <2>1, <3>1 DEF IInv, LockInv, Working
        <3>3. rounds'[SessionOf[n]] = rounds[SessionOf[n]]
            BY <1>7, <3>2, Ranges DEF ContinueGoal, IInv, TypeOK
        <3>4. QED
            BY <3>1, <3>3 DEF IInv, RoundInv
    <2>14. QueuesInv'
        BY Ranges, <2>1, <2>4, <2>5 DEF IInv, QueuesInv
    <2>15. HolderInv'
        <3> SUFFICES ASSUME NEW n \in Msgs PROVE HolderOK(n)'
            BY DEF HolderInv
        <3>0. HolderOK(n) /\ SessionOf[n] \in Sessions
            BY DispatchAssumption DEF IInv, HolderInv
        <3>1. CASE n = m
            BY Ranges, <2>1, <2>2, <2>4, <2>5, <3>0, <3>1 DEF IInv, HolderOK, Bound,
                QueuesInv
        <3>2. CASE n # m
            BY Ranges, <2>1, <2>2, <2>4, <2>5, <3>0, <3>2 DEF IInv, HolderOK, Bound,
                QueuesInv
        <3>3. QED
            BY <3>1, <3>2
    <2>16. AutoInv'
        <3> SUFFICES ASSUME NEW n \in Msgs PROVE AutoOK(n)'
            BY DEF AutoInv
        <3>1. SessionOf[n] \in Sessions /\ AutoOK(n) /\ status'[n] = status[n]
            BY Ranges, <2>5 DEF IInv, AutoInv
        <3>2. CASE n = m
            BY <2>1, <2>2, <2>4, <3>1, <3>2 DEF AutoOK
        <3>3. CASE n # m
            BY <2>1, <2>2, <2>4, <3>1, <3>3 DEF AutoOK
        <3>4. QED
            BY <3>2, <3>3
    <2>17. QED
        BY <2>7, <2>8, <2>9, <2>10, <2>11, <2>12, <2>13, <2>14, <2>15, <2>16 DEF IInv
<1>8. ASSUME NEW m \in Msgs, NEW r \in {"answered", "failed"}, EndTurn(m, r) PROVE IInv'
    <2>1. TurnEnds(m) /\ m \notin cancelled /\ UNCHANGED cancelled
        BY <1>8, EndTurnEnds
    <2>2. TypeOK'
        BY <2>1 DEF TurnEnds, DeferredAfter, IInv, TypeOK
    <2>3. StopInv'
        <3>1. \A n \in Msgs : phase'[n] # "none" => n # m /\ phase'[n] = phase[n]
            BY <2>1 DEF TurnEnds
        <3>2. \A n \in cancelled' : n # m /\ n \in Msgs /\ phase'[n] = phase[n]
            BY <2>1, Ranges DEF TurnEnds
        <3>3. stopping' = stopping /\ cancelled' = cancelled \ {m}
            BY <2>1 DEF TurnEnds
        <3>4. QED
            BY <3>1, <3>2, <3>3 DEF IInv, StopInv
    <2>4. QED
        BY <2>1, <2>2, <2>3, TurnEndsFacts DEF IInv
<1>9. ASSUME NEW m \in Msgs, UnwindTurn(m) PROVE IInv'
    <2>1. TurnEnds(m) /\ cancelled' = cancelled \ {m}
        BY <1>9, UnwindTurnEnds
    <2>2. TypeOK'
        BY <2>1 DEF TurnEnds, DeferredAfter, IInv, TypeOK
    <2>3. StopInv'
        <3>1. \A n \in Msgs : phase'[n] # "none" => n # m /\ phase'[n] = phase[n]
            BY <2>1 DEF TurnEnds
        <3>2. \A n \in cancelled' : n # m /\ n \in Msgs /\ phase'[n] = phase[n]
            BY <2>1, Ranges DEF TurnEnds
        <3>3. stopping' = stopping /\ cancelled' = cancelled \ {m}
            BY <2>1 DEF TurnEnds
        <3>4. QED
            BY <3>1, <3>2, <3>3 DEF IInv, StopInv
    <2>4. QED
        BY <2>1, <2>2, <2>3, TurnEndsFacts DEF IInv
<1>10. ASSUME NEW m \in Msgs, EndDirect(m) PROVE IInv'
    <2>1. ~Bound(m) /\ phase[m] = "running" /\ SessionOf[m] \in Sessions /\ TaskLeaves(m)
        BY <1>10, Ranges, LeaveLockFacts DEF EndDirect, TaskLeaves, Bound, IInv, TypeOK, Phases
    <2>2. /\ status'[m] = "answered" /\ \A n \in Msgs \ {m} : status'[n] = status[n]
          /\ status' \in [Msgs -> Statuses]
          /\ UNCHANGED <<ready, yielded, bus, gateQ, owner, pending, deferred, cycles, rounds,
                         stopping, cancelled, waiter>>
        BY <1>10 DEF EndDirect, IInv, TypeOK, Statuses, Handled
    <2>3. TypeOK'
        BY <2>1, <2>2 DEF TaskLeaves, IInv, TypeOK
    <2>4. StopInv'
        <3>1. /\ \A n \in Msgs : phase'[n] # "none" => n # m /\ phase'[n] = phase[n]
              /\ \A n \in cancelled : n # m /\ n \in Msgs /\ phase'[n] = phase[n]
            BY <2>1, Ranges DEF TaskLeaves, IInv, StopInv
        <3>2. QED
            BY <2>2, <3>1 DEF IInv, StopInv
    <2>5. LockInv' /\ TaskInv' /\ RoundInv'
        BY <2>1, <2>2, LeavesFacts
    <2>6. GateInv'
        <3>1. m \notin ToSet(gateQ)
            BY <2>1 DEF IInv, GateInv
        <3>2. QED
            BY <2>1, <2>2, <3>1, Ranges DEF TaskLeaves, IInv, GateInv
    <2>7. OwnerInv' /\ QueuesInv'
        <3>1. \A n \in Msgs : Bound(n) => phase'[n] = phase[n]
            BY <2>1 DEF TaskLeaves
        <3>2. OwnerInv'
            BY <2>2, <3>1, Ranges DEF IInv, OwnerInv
        <3>3. QED
            BY <2>2, <3>2 DEF IInv, QueuesInv
    <2>8. ASSUME NEW n \in Msgs PROVE HolderOK(n)' /\ AutoOK(n)'
        BY <2>1, <2>2 DEF TaskLeaves, IInv, HolderInv, HolderOK, AutoInv, AutoOK
    <2>9. QED
        BY <2>3, <2>4, <2>5, <2>6, <2>7, <2>8 DEF IInv, HolderInv, AutoInv
<1>11. ASSUME NEW m \in Msgs, UnwindWaiting(m) PROVE IInv'
    <2> DEFINE s == SessionOf[m]
    <2>1. /\ phase[m] \in {"lock", "gate"} /\ s \in Sessions /\ TaskLeaves(m)
          /\ m \in cancelled /\ Bound(m)
        BY <1>11, Ranges, LeaveLockFacts
           DEF UnwindWaiting, TaskLeaves, IInv, StopInv, TypeOK, Phases
    <2>2. /\ status'[m] = "cancelled" /\ \A n \in Msgs \ {m} : status'[n] = status[n]
          /\ status' \in [Msgs -> Statuses] /\ cancelled' = cancelled \ {m}
          /\ UNCHANGED <<ready, yielded, owner, pending, cycles, rounds, stopping, waiter>>
        BY <1>11 DEF UnwindWaiting, PublishNextDeferred, IInv, TypeOK, Statuses, Handled
    <2>3. /\ bus' \in Seq(Msgs) /\ IsInjective(bus')
          /\ ToSet(bus') = ToSet(bus) \union ToSet(NextDeferred(s))
          /\ DeferredAfter(s)
        BY <1>11, <2>1, PublishFacts DEF UnwindWaiting
    <2>4. gateQ' \in Seq(Msgs) /\ IsInjective(gateQ') /\ ToSet(gateQ') = ToSet(gateQ) \ {m}
        BY <1>11, LeaveGateFacts DEF UnwindWaiting
    <2>5. TypeOK'
        BY <2>1, <2>2, <2>3, <2>4 DEF TaskLeaves, DeferredAfter, IInv, TypeOK
    <2>6. StopInv'
        <3>1. \A n \in Msgs : phase'[n] # "none" => n # m /\ phase'[n] = phase[n]
            BY <2>1 DEF TaskLeaves
        <3>2. \A n \in cancelled' : n # m /\ n \in Msgs /\ phase'[n] = phase[n]
            BY <2>1, <2>2, Ranges DEF TaskLeaves
        <3>3. QED
            BY <2>2, <3>1, <3>2 DEF IInv, StopInv
    <2>7. LockInv' /\ TaskInv' /\ RoundInv'
        BY <2>1, <2>2, LeavesFacts
    <2>8. GateInv'
        BY <2>1, <2>4, Ranges DEF TaskLeaves, IInv, GateInv
    <2>9. OwnerInv'
        <3>1. \A n \in Msgs : phase'[n] \in Working <=> phase[n] \in Working
            BY <2>1 DEF TaskLeaves, Working
        <3>2. QED
            BY <2>2, <3>1, Ranges DEF IInv, OwnerInv
    <2>10. QueuesInv'
        <3>1. ASSUME NEW t \in Sessions
              PROVE  IsInjective(deferred'[t]) /\ ToSet(deferred'[t]) \subseteq ToSet(deferred[t])
            BY <2>3 DEF DeferredAfter, IInv, QueuesInv
        <3>2. QED
            BY <2>2, <2>3, <3>1 DEF IInv, QueuesInv
    <2>11. ASSUME NEW n \in Msgs PROVE HolderOK(n)' /\ AutoOK(n)'
        <3>1. SessionOf[n] \in Sessions /\ HolderOK(n) /\ AutoOK(n)
            BY Ranges DEF IInv, HolderInv, AutoInv
        <3>2. CASE SessionOf[n] # s
            <4>1. n # m /\ n \notin ToSet(NextDeferred(s))
                BY <2>1, <2>3, <3>2 DEF DeferredAfter, IInv, QueuesInv
            <4>2. /\ n \in ToSet(bus') <=> n \in ToSet(bus)
                  /\ deferred'[SessionOf[n]] = deferred[SessionOf[n]]
                  /\ phase'[n] = phase[n] /\ status'[n] = status[n]
                BY <2>1, <2>2, <2>3, <3>1, <3>2, <4>1 DEF TaskLeaves, DeferredAfter
            <4>3. QED
                BY <2>2, <3>1, <4>2 DEF HolderOK, AutoOK
        <3>3. CASE SessionOf[n] = s
            <4>1. /\ n \in ToSet(bus') <=> n \in ToSet(bus) \/ n \in ToSet(NextDeferred(s))
                  /\ n \in ToSet(deferred'[s]) <=> n \in ToSet(deferred[s]) \ ToSet(NextDeferred(s))
                  /\ n \in ToSet(NextDeferred(s)) => n \in ToSet(deferred[s])
                BY <2>3 DEF DeferredAfter
            <4>2. IF n = m
                  THEN phase'[n] = "none" /\ status'[n] = "cancelled"
                  ELSE phase'[n] = phase[n] /\ status'[n] = status[n]
                BY <2>1, <2>2 DEF TaskLeaves
            <4>3. QED
                BY <2>1, <2>2, <3>1, <3>3, <4>1, <4>2 DEF HolderOK, AutoOK
        <3>4. QED
            BY <3>2, <3>3
    <2>12. QED
        BY <2>5, <2>6, <2>7, <2>8, <2>9, <2>10, <2>11 DEF IInv, HolderInv, AutoInv
<1>12. ASSUME NEW m \in Msgs, UnwindCreated(m) PROVE IInv'
    <2>1. /\ ready \in Seq(Msgs) /\ IsInjective(ready) /\ ready # <<>> /\ Head(ready) = m
          /\ m \in cancelled
        BY <1>12 DEF UnwindCreated, IInv, TypeOK, TaskInv
    <2>2. /\ ready' = Tail(ready) /\ Tail(ready) \in Seq(Msgs) /\ IsInjective(Tail(ready))
          /\ ToSet(Tail(ready)) = ToSet(ready) \ {m} /\ m \in ToSet(ready)
        BY <1>12, <2>1, TailQueue DEF UnwindCreated
    <2>3. phase[m] = "created" /\ Bound(m)
        BY <2>1, <2>2 DEF IInv, TaskInv, StopInv
    <2>4. /\ phase' \in [Msgs -> Phases] /\ phase'[m] = "none"
          /\ \A n \in Msgs \ {m} : phase'[n] = phase[n]
          /\ status'[m] = "cancelled" /\ \A n \in Msgs \ {m} : status'[n] = status[n]
          /\ status' \in [Msgs -> Statuses] /\ cancelled' = cancelled \ {m}
          /\ UNCHANGED <<yielded, bus, lockQ, gateQ, owner, pending, deferred, cycles, rounds,
                         stopping, waiter>>
        BY <1>12 DEF UnwindCreated, IInv, TypeOK, Phases, Statuses, Handled
    <2>5. TypeOK'
        BY <2>2, <2>4 DEF IInv, TypeOK
    <2>6. StopInv'
        BY <2>4, Ranges DEF IInv, StopInv
    <2>7. TaskInv' /\ RoundInv'
        BY <2>2, <2>4 DEF IInv, TaskInv, RoundInv
    <2>8. \A n \in Msgs : /\ phase'[n] \in {"gate"} \union Working <=> phase[n] \in {"gate"} \union Working
                          /\ phase'[n] \in Working <=> phase[n] \in Working
                          /\ phase'[n] \in {"none", "created"} <=> phase[n] \in {"none", "created"}
        BY <2>3, <2>4 DEF Working
    <2>9. LockInv' /\ GateInv' /\ OwnerInv' /\ QueuesInv'
        BY <2>4, <2>8, Ranges DEF IInv, LockInv, GateInv, OwnerInv, QueuesInv
    <2>10. ASSUME NEW n \in Msgs PROVE HolderOK(n)' /\ AutoOK(n)'
        BY <2>3, <2>4 DEF IInv, HolderInv, HolderOK, AutoInv, AutoOK
    <2>11. QED
        BY <2>5, <2>6, <2>7, <2>9, <2>10 DEF IInv, HolderInv, AutoInv
<1>13. QED
    BY <1>1, <1>2, <1>3, <1>4, <1>5, <1>6, <1>7, <1>8, <1>9, <1>10, <1>11, <1>12 DEF TaskStep

(* One inductive step: whatever the dispatcher does, the invariant stays.    *)
LEMMA NextIInv == IInv /\ [Next]_vars => IInv'
<1> SUFFICES ASSUME IInv, [Next]_vars PROVE IInv'
    OBVIOUS
<1>1. CASE RunLoop
    BY <1>1, RunLoopIInv
<1>2. ASSUME NEW m \in Msgs, Send(m) PROVE IInv'
    BY <1>2, SendersIInv
<1>3. ASSUME NEW m \in Msgs, TaskStep(m) PROVE IInv'
    BY <1>3, TasksIInv
<1>4. CASE UNCHANGED vars
    BY <1>4 DEF vars, IInv, TypeOK, StopInv, TaskInv, LockInv, GateInv, OwnerInv, RoundInv,
        QueuesInv, HolderInv, HolderOK, AutoInv, AutoOK
<1>5. QED
    BY <1>1, <1>2, <1>3, <1>4 DEF Next

-----------------------------------------------------------------------------
(* Theorems                                                                  *)

(* The inductive invariant holds throughout.                                 *)
THEOREM Invariance == Spec => []IInv
<1>1. QED
    BY InitIInv, NextIInv, PTL DEF Spec

(* Every variable stays in its type; the injection and goal counters of      *)
(* runner and turn_continuation never pass their limits.                     *)
THEOREM TypeCorrect == Spec => []TypeOK
<1>1. IInv => TypeOK
    BY DEF IInv
<1>2. QED
    BY <1>1, Invariance, PTL

(* The session lock of _dispatch and process_direct keeps turns of a session *)
(* apart, and the pending queue belongs to the turn in progress.              *)
THEOREM OneTurnPerSession == Spec => []TurnsExclusive
<1>1. IInv => TurnsExclusive
    <2> SUFFICES ASSUME IInv, NEW s \in Sessions
                 PROVE  /\ \A m, n \in {x \in Msgs : SessionOf[x] = s /\ phase[x] \in Working} : m = n
                        /\ owner[s] # NoMsg => SessionOf[owner[s]] = s /\ phase[owner[s]] \in Working
                        /\ owner[s] = NoMsg => pending[s] = <<>>
        BY DEF TurnsExclusive
    <2>1. \A m, n \in {x \in Msgs : SessionOf[x] = s /\ phase[x] \in Working} : m = n
        BY DEF IInv, LockInv
    <2>2. QED
        BY <2>1 DEF IInv, OwnerInv
<1>2. QED
    BY <1>1, Invariance, PTL

(* defer_if_active keeps automation turns out of pending queues, and a       *)
(* continuing one leaves it again before anything is drained.                *)
THEOREM AutomationKeptApart == Spec => []AutomationNeverInjected
<1>1. IInv => AutomationNeverInjected
    BY DEF IInv, AutoInv, AutoOK, AutomationNeverInjected
<1>2. QED
    BY <1>1, Invariance, PTL

(* The hand-overs between bus, pending queue, deferred list and task lose no *)
(* message and duplicate none.                                               *)
THEOREM NoMessageLost == Spec => []OneHolderPerMessage
<1>1. ASSUME IInv, NEW m \in Msgs
      PROVE  Cardinality(Holders(m)) = IF status[m] = "open" THEN 1 ELSE 0
    <2> DEFINE s == SessionOf[m]
    <2>1. HolderOK(m)
        BY <1>1 DEF IInv, HolderInv
    <2>2. CASE status[m] = "open"
        <3>1. \/ Holders(m) = {"bus"} \/ Holders(m) = {"pending"} \/ Holders(m) = {"deferred"}
              \/ Holders(m) = {"task"} \/ Holders(m) = {"run"}
            BY <2>1, <2>2 DEF HolderOK, Holders
        <3>2. QED
            BY <2>2, <3>1, FS_Singleton
    <2>3. CASE status[m] # "open"
        <3>1. Holders(m) = {}
            BY <2>1, <2>3 DEF HolderOK, Holders
        <3>2. QED
            BY <2>3, <3>1, FS_EmptySet
    <2>4. QED
        BY <2>2, <2>3
<1>2. IInv => OneHolderPerMessage
    BY <1>1 DEF IInv, QueuesInv, OneHolderPerMessage
<1>3. QED
    BY <1>2, Invariance, PTL

(* run()'s /stop unwinds tasks of its own session only.                      *)
THEOREM StopIsLocal == Spec => StopStaysInSession
<1> DEFINE Local == \A m \in Msgs : status'[m] = "cancelled" /\ status[m] # "cancelled" =>
                        stopping # NoMsg /\ SessionOf[m] = SessionOf[stopping]
<1>1. ASSUME IInv, RunLoop PROVE Local
    <2>1. CASE FinishStop
        <3>1. stopping \in Msgs /\ SessionOf[stopping] \in Sessions
            BY <1>1, <2>1, Ranges DEF FinishStop, IInv, TypeOK
        <3>2. \A m \in Msgs : status'[m] \in {"command", status[m]} \/ m \in ToSet(pending[SessionOf[stopping]])
            BY <2>1 DEF FinishStop
        <3>3. QED
            BY <1>1, <2>1, <3>1, <3>2 DEF FinishStop, IInv, QueuesInv
    <2>2. CASE ~FinishStop
        BY <1>1, <2>2 DEF RunLoop, DropOrphan, BeginStop, AnswerInline, Defer, RouteToPending,
            SpawnTask, IInv, TypeOK
    <2>3. QED
        BY <2>1, <2>2
<1>2. ASSUME IInv, NEW x \in Msgs, Send(x) PROVE Local
    BY <1>2 DEF Send, Publish, Submit, CallDirect, IInv, TypeOK
<1>3. ASSUME IInv, NEW x \in Msgs, TaskStep(x) PROVE Local
    <2>1. \A m \in cancelled : stopping # NoMsg /\ SessionOf[m] = SessionOf[stopping]
        BY <1>3 DEF IInv, StopInv
    <2>2. CASE UnwindTurn(x) \/ UnwindWaiting(x) \/ UnwindCreated(x)
        BY <1>3, <2>1, <2>2 DEF UnwindTurn, UnwindWaiting, UnwindCreated, IInv, TypeOK
    <2>3. CASE Drain(x) \/ ReachBudget(x)
        BY <2>3 DEF Drain, ReachBudget, InjectBatch
    <2>4. CASE EndDirect(x) \/ \E r \in {"answered", "failed"} : EndTurn(x, r)
        BY <1>3, <2>4 DEF EndDirect, EndTurn, IInv, TypeOK
    <2>5. CASE StartTask(x) \/ QueueAtGate(x) \/ BeginTurn(x) \/ BeginDirect(x) \/ ContinueGoal(x)
        BY <2>5 DEF StartTask, QueueAtGate, BeginTurn, BeginDirect, ContinueGoal
    <2>6. QED
        BY <1>3, <2>2, <2>3, <2>4, <2>5 DEF TaskStep
<1>4. IInv /\ [Next]_vars => [Local]_vars
    BY <1>1, <1>2, <1>3 DEF Next
<1>5. QED
    BY <1>4, Invariance, PTL DEF Spec, StopStaysInSession

-----------------------------------------------------------------------------
(* Deferred turns have a publisher                                           *)

(* Automations send what cron and local triggers build: a prompt, neither a  *)
(* priority command nor a turn of a temporary chat.                          *)
PlainAutomations ==
    \A m \in Msgs : KindOf[m] = "auto" => m \notin Temporary /\ TextOf[m] \notin {"stop", "status"}

(* An automation turn of session s that publishes the next one when it ends. *)
Publishes(m, s) ==
    SessionOf[m] = s /\ KindOf[m] = "auto" /\ (m \in ToSet(bus) \/ phase[m] # "none")

HasPublisher(s) == deferred[s] # <<>> => owner[s] # NoMsg \/ \E m \in Msgs : Publishes(m, s)

(* Where wait_for suspends, run() never consumes a /stop while a task waits  *)
(* for its first step, so no task is cancelled before it.                    *)
PublisherInv ==
    /\ yielded
    /\ stopping # NoMsg => ready = <<>>
    /\ \A s \in Sessions : \A m \in ToSet(deferred[s]) : KindOf[m] = "auto"
    /\ \A s \in Sessions : HasPublisher(s)

(* Who publishes goes on to, as long as it is on the bus or a task.          *)
LEMMA StillPublished ==
    ASSUME IInv, PublisherInv, NEW s \in Sessions,
           deferred'[s] = deferred[s], owner[s] # NoMsg => owner'[s] # NoMsg,
           \A m \in Msgs : Publishes(m, s) => Publishes(m, s)'
    PROVE  HasPublisher(s)'
BY DEF PublisherInv, HasPublisher

(* A session whose owner or waiter leaves has its next turn on the bus.      *)
LEMMA NextPublished ==
    ASSUME IInv, PublisherInv, NEW s \in Sessions, DeferredAfter(s),
           deferred' = [deferred EXCEPT ![s] = SubSeq(@, Len(NextDeferred(s)) + 1, Len(@))],
           ToSet(NextDeferred(s)) \subseteq ToSet(bus')
    PROVE  HasPublisher(s)' /\ \A m \in ToSet(deferred'[s]) : KindOf[m] = "auto"
<1> DEFINE q == deferred[s]
<1>1. q \in Seq(Msgs) /\ \A m \in ToSet(q) : SessionOf[m] = s /\ KindOf[m] = "auto"
    BY DEF IInv, TypeOK, QueuesInv, PublisherInv
<1>2. ToSet(deferred'[s]) \subseteq ToSet(q)
    BY DEF DeferredAfter
<1>3. HasPublisher(s)'
    <2>1. CASE q = <<>>
        <3>1. deferred'[s] \in Seq(Msgs) /\ ToSet(deferred'[s]) = {}
            BY <1>2, <2>1, EmptyQueue DEF DeferredAfter
        <3>2. deferred'[s] = <<>>
            BY <3>1, EmptyToSet
        <3>3. QED
            BY <3>2 DEF HasPublisher
    <2>2. CASE q # <<>>
        <3>1. PICK n \in Msgs : n \in ToSet(q) /\ NextDeferred(s) = <<n>>
            BY <1>1, <2>2, EmptyToSet DEF NextDeferred
        <3>2. n \in ToSet(bus')
            BY <3>1 DEF ToSet
        <3>3. Publishes(n, s)'
            BY <1>1, <3>1, <3>2 DEF Publishes
        <3>4. QED
            BY <3>3 DEF HasPublisher
    <2>3. QED
        BY <2>1, <2>2
<1>4. QED
    BY <1>1, <1>2, <1>3

(* Senders only add to the bus and to the tasks.                             *)
LEMMA SendersPublish ==
    ASSUME IInv, PublisherInv, NEW x \in Msgs, Send(x)
    PROVE  PublisherInv'
<1>1. UNCHANGED <<deferred, owner, yielded, stopping, ready>>
    BY DEF Send, Publish, Submit, CallDirect
<1>2. \A m \in Msgs : m \in ToSet(bus) => m \in ToSet(bus')
    <2>1. CASE bus' = Append(bus, x)
        <3>1. bus \in Seq(Msgs) /\ IsInjective(bus) /\ x \notin ToSet(bus)
            BY DEF Send, Publish, Submit, CallDirect, IInv, TypeOK, QueuesInv, HolderInv, HolderOK
        <3>2. QED
            BY <2>1, <3>1, AppendQueue
    <2>2. QED
        BY <2>1 DEF Send, Publish, Submit, CallDirect
<1>3. \A m \in Msgs : phase[m] # "none" => phase'[m] # "none"
    BY DEF Send, Publish, Submit, CallDirect, IInv, TypeOK
<1>4. ASSUME NEW s \in Sessions PROVE HasPublisher(s)'
    BY <1>1, <1>2, <1>3, StillPublished DEF Publishes
<1>5. QED
    BY <1>1, <1>4 DEF PublisherInv

(* run() takes a message off the bus; an automation turn it takes becomes a  *)
(* task or is deferred to the turn in progress.                              *)
LEMMA RunLoopPublishes ==
    ASSUME IInv, PublisherInv, WaitForSuspends, PlainAutomations, RunLoop
    PROVE  PublisherInv'
<1>1. CASE FinishStop
    <2>1. /\ stopping \in Msgs /\ SessionOf[stopping] \in Sessions
          /\ \A m \in Msgs : SessionOf[m] = SessionOf[stopping] /\ Bound(m) => phase[m] = "none"
        BY <1>1, DispatchAssumption DEF FinishStop, IInv, TypeOK, StopInv
    <2>2. owner[SessionOf[stopping]] = NoMsg
        <3> DEFINE w == owner[SessionOf[stopping]]
        <3>1. w \in Msgs \union {NoMsg}
            BY <2>1 DEF IInv, TypeOK
        <3>2. w # NoMsg => SessionOf[w] = SessionOf[stopping] /\ Bound(w) /\ phase[w] \in Working
            BY <2>1 DEF IInv, OwnerInv
        <3> HIDE DEF w
        <3>3. QED
            BY <2>1, <3>1, <3>2 DEF Working, w
    <2>3. /\ owner' = owner /\ stopping' = NoMsg
          /\ UNCHANGED <<yielded, bus, phase, deferred>>
        BY <1>1, <2>1, <2>2 DEF FinishStop, IInv, TypeOK
    <2>4. QED
        BY <2>3, StillPublished DEF PublisherInv, Publishes
<1>2. ASSUME NEW x \in Msgs,
             \/ DropOrphan(x) \/ BeginStop(x) \/ AnswerInline(x)
             \/ Defer(x) \/ RouteToPending(x) \/ SpawnTask(x)
      PROVE  PublisherInv'
    <2>1. Consume(x)
        BY <1>2 DEF DropOrphan, BeginStop, AnswerInline, Defer, RouteToPending, SpawnTask
    <2>2. /\ ToSet(bus') = ToSet(bus) \ {x} /\ yielded' /\ ready = <<>> /\ stopping = NoMsg
          /\ owner' = owner /\ SessionOf[x] \in Sessions /\ phase[x] = "none"
        BY <1>2, <2>1, ConsumeFacts, Ranges DEF Consume, PublisherInv, DropOrphan, BeginStop,
            AnswerInline, Defer, RouteToPending, SpawnTask
    <2>3. stopping' # NoMsg => ready' = <<>>
        BY <1>2, <2>2 DEF DropOrphan, BeginStop, AnswerInline, Defer, RouteToPending, SpawnTask
    <2>4. CASE Defer(x)
        <3> DEFINE s == SessionOf[x]
        <3>1. /\ KindOf[x] = "auto" /\ owner[s] # NoMsg /\ phase' = phase
              /\ deferred' = [deferred EXCEPT ![s] = Append(@, x)]
            BY <2>4 DEF Defer, DefersTurn
        <3>2. /\ deferred[s] \in Seq(Msgs) /\ IsInjective(deferred[s]) /\ x \notin ToSet(deferred[s])
              /\ deferred \in [Sessions -> Seq(Msgs)]
            BY <2>1, <2>2, ConsumeFacts DEF IInv, TypeOK, QueuesInv
        <3>3. ToSet(deferred'[s]) = ToSet(deferred[s]) \union {x}
            BY <2>2, <3>1, <3>2, AppendQueue
        <3>4. \A t \in Sessions \ {s} : deferred'[t] = deferred[t]
            BY <3>1, <3>2
        <3>5. \A t \in Sessions \ {s} : HasPublisher(t)'
            BY <2>2, <3>1, <3>4, StillPublished DEF Publishes
        <3>6. HasPublisher(s)'
            BY <2>2, <3>1 DEF HasPublisher
        <3>7. QED
            BY <2>2, <2>3, <3>1, <3>3, <3>4, <3>5, <3>6 DEF PublisherInv
    <2>5. CASE ~Defer(x)
        <3>1. deferred' = deferred
            BY <1>2, <2>5 DEF DropOrphan, BeginStop, AnswerInline, RouteToPending, SpawnTask
        <3>2. \A m \in Msgs : phase[m] # "none" => phase'[m] # "none"
            BY <1>2, <2>2, <2>5 DEF DropOrphan, BeginStop, AnswerInline, RouteToPending, SpawnTask,
                IInv, TypeOK
        <3>3. CASE KindOf[x] = "auto"
            <4>1. SpawnTask(x)
                BY <1>2, <2>5, <3>3 DEF PlainAutomations, DropOrphan, BeginStop, AnswerInline,
                    RouteToPending, IsPriority, IsCommand, DefersTurn
            <4>2. phase'[x] # "none"
                BY <4>1 DEF SpawnTask, IInv, TypeOK
            <4>3. ASSUME NEW s \in Sessions PROVE HasPublisher(s)'
                BY <2>2, <3>1, <3>2, <4>2, StillPublished DEF Publishes
            <4>4. QED
                BY <2>2, <2>3, <3>1, <4>3 DEF PublisherInv
        <3>4. CASE KindOf[x] # "auto"
            <4>1. ASSUME NEW s \in Sessions PROVE HasPublisher(s)'
                BY <2>2, <3>1, <3>2, <3>4, StillPublished DEF Publishes
            <4>2. QED
                BY <2>2, <2>3, <3>1, <4>1 DEF PublisherInv
        <3>5. QED
            BY <3>3, <3>4
    <2>6. QED
        BY <2>4, <2>5
<1>3. QED
    BY <1>1, <1>2 DEF RunLoop

(* A bus-driven task that ends in its session after its first step publishes *)
(* the next deferred turn.                                                   *)
LEMMA LeavingPublishes ==
    ASSUME IInv, PublisherInv, NEW x \in Msgs, NEW r \in {"answered", "failed"},
           EndTurn(x, r) \/ UnwindTurn(x) \/ UnwindWaiting(x)
    PROVE  PublisherInv'
<1> DEFINE s == SessionOf[x]
<1>1. s \in Sessions
    BY Ranges
<1>2. /\ DeferredAfter(s)
      /\ deferred' = [deferred EXCEPT ![s] = SubSeq(@, Len(NextDeferred(s)) + 1, Len(@))]
      /\ ToSet(NextDeferred(s)) \subseteq ToSet(bus') /\ ToSet(bus) \subseteq ToSet(bus')
      /\ \A t \in Sessions \ {s} : owner'[t] = owner[t]
    <2>1. CASE ReleaseSession(s)
        BY <1>1, <2>1, ReleaseFacts DEF ReleaseSession
    <2>2. CASE PublishNextDeferred(s)
        BY <1>1, <2>2, PublishFacts DEF PublishNextDeferred
    <2>3. QED
        BY <2>1, <2>2 DEF EndTurn, UnwindTurn, UnwindWaiting
<1>3. /\ \A m \in Msgs \ {x} : phase'[m] = phase[m]
      /\ UNCHANGED <<yielded, stopping, ready>>
    BY DEF EndTurn, UnwindTurn, UnwindWaiting, IInv, TypeOK
<1>4. HasPublisher(s)' /\ \A m \in ToSet(deferred'[s]) : KindOf[m] = "auto"
    BY <1>1, <1>2, NextPublished
<1>5. ASSUME NEW t \in Sessions \ {s}
      PROVE  HasPublisher(t)' /\ deferred'[t] = deferred[t]
    <2>1. deferred'[t] = deferred[t] /\ owner'[t] = owner[t]
        BY <1>2 DEF DeferredAfter
    <2>2. \A m \in Msgs : Publishes(m, t) => Publishes(m, t)'
        BY <1>2, <1>3 DEF Publishes
    <2>3. QED
        BY <2>1, <2>2, StillPublished
<1>6. QED
    BY <1>3, <1>4, <1>5 DEF PublisherInv

(* Whatever else a task does, it goes on or was never cancelled too early.   *)
LEMMA TasksPublish ==
    ASSUME IInv, PublisherInv, NEW x \in Msgs, TaskStep(x)
    PROVE  PublisherInv'
<1>1. CASE \/ StartTask(x) \/ QueueAtGate(x) \/ BeginTurn(x) \/ BeginDirect(x)
           \/ Drain(x) \/ ReachBudget(x) \/ ContinueGoal(x) \/ EndDirect(x)
    <2>1. UNCHANGED <<yielded, stopping, bus, deferred>> /\ (ready = <<>> => ready' = <<>>)
        BY <1>1 DEF StartTask, QueueAtGate, BeginTurn, BeginDirect, Drain, ReachBudget,
            ContinueGoal, EndDirect
    <2>2. \A m \in Msgs : phase[m] # "none" => phase'[m] # "none" \/ KindOf[m] # "auto"
        BY <1>1 DEF StartTask, QueueAtGate, BeginTurn, BeginDirect, Drain, ReachBudget,
            ContinueGoal, EndDirect, IInv, TypeOK
    <2>3. \A s \in Sessions : owner[s] # NoMsg => owner'[s] # NoMsg
        BY <1>1, DispatchAssumption DEF StartTask, QueueAtGate, BeginTurn, BeginDirect, Drain,
            ReachBudget, ContinueGoal, EndDirect, IInv, TypeOK
    <2>4. ASSUME NEW s \in Sessions PROVE HasPublisher(s)'
        BY <2>1, <2>2, <2>3, StillPublished DEF Publishes
    <2>5. QED
        BY <2>1, <2>4 DEF PublisherInv
<1>2. CASE UnwindTurn(x) \/ UnwindWaiting(x) \/ \E r \in {"answered", "failed"} : EndTurn(x, r)
    BY <1>2, LeavingPublishes
<1>3. ~UnwindCreated(x)
    BY DEF UnwindCreated, PublisherInv, IInv, StopInv
<1>4. QED
    BY <1>1, <1>2, <1>3 DEF TaskStep

(* Where asyncio.wait_for suspends run() at each message (Python 3.11) and   *)
(* automations send prompts, no deferred automation turn is left in an idle   *)
(* session, whatever is stopped (publish_next_deferred_turn).                 *)
THEOREM DeferredArePublished ==
    ASSUME WaitForSuspends, PlainAutomations
    PROVE  Spec => []DeferredHasPublisher
<1>1. Init => PublisherInv
    <2> SUFFICES ASSUME Init PROVE PublisherInv
        OBVIOUS
    <2>1. \A s \in Sessions : deferred[s] = <<>>
        BY DEF Init
    <2>2. QED
        BY <2>1, EmptyQueue DEF Init, PublisherInv, HasPublisher
<1>2. IInv /\ PublisherInv /\ [Next]_vars => PublisherInv'
    <2> SUFFICES ASSUME IInv, PublisherInv, [Next]_vars PROVE PublisherInv'
        OBVIOUS
    <2>1. CASE UNCHANGED vars
        BY <2>1 DEF vars, PublisherInv, HasPublisher, Publishes
    <2>2. QED
        BY <2>1, RunLoopPublishes, SendersPublish, TasksPublish DEF Next
<1>3. PublisherInv => DeferredHasPublisher
    BY DEF PublisherInv, HasPublisher, Publishes, DeferredHasPublisher
<1>4. QED
    BY <1>1, <1>2, <1>3, Invariance, PTL DEF Spec

----------------------------------------------------------------------------
(* The dispatcher implements the session mailbox                           *)

Absorbables == {m \in Msgs : KindOf[m] \in {"user", "system"}}

(* The message a session works on, given the phases of all messages.         *)
ServingIn(ph) == [s \in Sessions |->
    IF \E m \in Msgs : SessionOf[m] = s /\ ph[m] \in Working
    THEN CHOOSE m \in Msgs : SessionOf[m] = s /\ ph[m] \in Working
    ELSE NoMsg]

(* With at most one turn per session, the choice is that turn.               *)
LEMMA ServingFacts ==
    ASSUME NEW ph, NEW s \in Sessions,
           \A m, n \in Msgs : SessionOf[m] = s /\ SessionOf[n] = s
                                /\ ph[m] \in Working /\ ph[n] \in Working => m = n
    PROVE  /\ \A m \in Msgs : SessionOf[m] = s => (ph[m] \in Working <=> ServingIn(ph)[s] = m)
           /\ ServingIn(ph)[s] \in Msgs \union {NoMsg}
           /\ ServingIn(ph)[s] # NoMsg => SessionOf[ServingIn(ph)[s]] = s
<1> DEFINE P(m) == SessionOf[m] = s /\ ph[m] \in Working
<1>1. CASE \E m \in Msgs : P(m)
    <2>1. ServingIn(ph)[s] = CHOOSE m \in Msgs : P(m)
        BY <1>1 DEF ServingIn
    <2>2. ServingIn(ph)[s] \in Msgs /\ P(ServingIn(ph)[s])
        BY <1>1, <2>1
    <2>3. QED
        BY <2>2, DispatchAssumption
<1>2. CASE ~\E m \in Msgs : P(m)
    <2>1. ServingIn(ph)[s] = NoMsg
        BY <1>2 DEF ServingIn
    <2>2. QED
        BY <1>2, <2>1, DispatchAssumption
<1>3. QED
    BY <1>1, <1>2

(* Tasks change phase without a turn beginning or ending: nobody else is     *)
(* served.                                                                   *)
LEMMA SameServing ==
    ASSUME NEW p, NEW q, \A m \in Msgs : p[m] \in Working <=> q[m] \in Working
    PROVE  ServingIn(p) = ServingIn(q)
<1>1. ASSUME NEW s \in Sessions PROVE ServingIn(p)[s] = ServingIn(q)[s]
    <2>1. {m \in Msgs : SessionOf[m] = s /\ p[m] \in Working}
              = {m \in Msgs : SessionOf[m] = s /\ q[m] \in Working}
        OBVIOUS
    <2>2. QED
        BY <2>1 DEF ServingIn
<1>2. QED
    BY <1>1 DEF ServingIn

OneTurnIn(ph) ==
    \A m, n \in Msgs : /\ ph[m] \in Working /\ ph[n] \in Working
                       /\ SessionOf[m] = SessionOf[n]
                       => m = n

(* Between p and q the turn of m alone begins (or, from q to p, ends).       *)
LEMMA TurnChanges ==
    ASSUME NEW p, NEW q, OneTurnIn(p), OneTurnIn(q), NEW m \in Msgs,
           p[m] \notin Working, q[m] \in Working,
           \A n \in Msgs \ {m} : p[n] \in Working <=> q[n] \in Working
    PROVE  /\ ServingIn(p)[SessionOf[m]] = NoMsg /\ ServingIn(q)[SessionOf[m]] = m
           /\ ServingIn(q) = [ServingIn(p) EXCEPT ![SessionOf[m]] = m]
           /\ ServingIn(p) = [ServingIn(q) EXCEPT ![SessionOf[m]] = NoMsg]
<1> DEFINE s == SessionOf[m]
<1>1. s \in Sessions
    BY DispatchAssumption
<1>2. ServingIn(q)[s] = m
    BY <1>1, ServingFacts DEF OneTurnIn
<1>3. \A n \in Msgs : SessionOf[n] = s => p[n] \notin Working
    BY DEF OneTurnIn
<1>4. ServingIn(p)[s] = NoMsg
    BY <1>1, <1>3 DEF ServingIn
<1>5. ASSUME NEW t \in Sessions, t # s PROVE ServingIn(p)[t] = ServingIn(q)[t]
    <2>1. {n \in Msgs : SessionOf[n] = t /\ p[n] \in Working}
              = {n \in Msgs : SessionOf[n] = t /\ q[n] \in Working}
        BY <1>5
    <2>2. QED
        BY <2>1 DEF ServingIn
<1>6. /\ ServingIn(p) = [t \in Sessions |-> ServingIn(p)[t]]
      /\ ServingIn(q) = [t \in Sessions |-> ServingIn(q)[t]]
    BY DEF ServingIn
<1>7. QED
    BY <1>1, <1>2, <1>4, <1>5, <1>6

(* In a reachable state the served message of a session is its working one.  *)
LEMMA ServingNow ==
    ASSUME IInv
    PROVE  /\ OneTurnIn(phase) /\ Serving = ServingIn(phase)
           /\ \A m \in Msgs : phase[m] \in Working <=> Serving[SessionOf[m]] = m
<1>1. OneTurnIn(phase)
    BY DEF IInv, LockInv, OneTurnIn
<1>2. Serving = ServingIn(phase)
    BY DEF Serving, ServingIn
<1>3. \A m \in Msgs : SessionOf[m] \in Sessions
    BY DispatchAssumption
<1>4. QED
    BY <1>1, <1>2, <1>3, ServingFacts DEF OneTurnIn

-----------------------------------------------------------------------------
(* The steps of the mailbox that the dispatcher's actions are                *)

(* A message given up or answered in place was open and not being served.    *)
LEMMA RetireStep ==
    ASSUME IInv, NEW m \in Msgs, status[m] = "open", phase[m] \notin Working,
           NEW r \in {"cancelled", "command", "dropped"},
           status' = [status EXCEPT ![m] = r], Serving' = Serving
    PROVE  Mailbox!Next
<1>1. Serving[SessionOf[m]] # m
    BY ServingNow
<1>2. Mailbox!Retire(m)
    BY <1>1 DEF Mailbox!Retire
<1>3. QED
    BY <1>2 DEF Mailbox!Next

(* A task that enters its turn is served, and nobody was before.             *)
LEMMA ServeStep ==
    ASSUME IInv, OneTurnIn(phase'), NEW m \in Msgs, phase[m] \notin Working \union {"none"},
           phase'[m] \in Working, \A n \in Msgs \ {m} : phase'[n] = phase[n],
           status' = status
    PROVE  Mailbox!Next
<1>1. status[m] = "open"
    BY DEF IInv, HolderInv, HolderOK
<1>2. Serving' = ServingIn(phase')
    BY DEF Serving, ServingIn
<1>3. /\ Serving[SessionOf[m]] = NoMsg
      /\ Serving' = [Serving EXCEPT ![SessionOf[m]] = m]
    BY <1>2, ServingNow, TurnChanges
<1>4. Mailbox!Serve(m)
    BY <1>1, <1>3 DEF Mailbox!Serve
<1>5. QED
    BY <1>4 DEF Mailbox!Next

(* A turn that leaves is finished, for good or to be continued.              *)
LEMMA FinishStep ==
    ASSUME IInv, OneTurnIn(phase'), NEW m \in Msgs, phase[m] \in Working,
           phase'[m] = "none", \A n \in Msgs \ {m} : phase'[n] = phase[n],
           \/ \E r \in {"answered", "failed", "cancelled"} : status' = [status EXCEPT ![m] = r]
           \/ UNCHANGED status
    PROVE  Mailbox!Next
<1>1. Serving' = ServingIn(phase')
    BY DEF Serving, ServingIn
<1>2. "none" \notin Working
    BY DEF Working
<1>3. /\ Serving[SessionOf[m]] = m
      /\ Serving' = [Serving EXCEPT ![SessionOf[m]] = NoMsg]
    BY <1>1, <1>2, ServingNow, TurnChanges
<1>4. Mailbox!Finish(m)
    BY <1>3 DEF Mailbox!Finish
<1>5. QED
    BY <1>4 DEF Mailbox!Next

(* An injected batch joins the turn in progress of its own session.          *)
LEMMA AbsorbStep ==
    ASSUME IInv, NEW m \in Msgs, InRunner(m), InjectBatch(SessionOf[m]), Serving' = Serving
    PROVE  Mailbox!Next
<1> DEFINE s == SessionOf[m]
           A == Drained(s)
<1>1. s \in Sessions /\ m # NoMsg /\ phase[m] = "running" /\ Serving[s] = m
    BY DispatchAssumption, ServingNow DEF InRunner, Working
<1>2. A \subseteq ToSet(pending[s]) /\ ToSet(pending[s]) \subseteq Msgs
    BY <1>1, Ranges DEF Drained, ToSet
<1>3. ASSUME NEW n \in A
      PROVE  n \in Absorbables /\ n # m /\ status[n] = "open" /\ SessionOf[n] = s
    <2>1. n \in Msgs /\ SessionOf[n] = s /\ n \in ToSet(pending[s])
        BY <1>1, <1>2, <1>3 DEF IInv, QueuesInv
    <2>2. phase[n] \in {"none", "continuing"} /\ Bound(n) /\ status[n] = "open"
        BY <2>1 DEF IInv, HolderInv, HolderOK
    <2>3. phase[n] = "none" /\ n # m
        BY <1>1, <2>1, <2>2 DEF IInv, LockInv, Working
    <2>4. KindOf[n] \notin {"auto", "direct"} /\ KindOf[n] \in Kinds
        BY <2>1, <2>2, <2>3, DispatchAssumption DEF IInv, AutoInv, AutoOK, Bound
    <2>5. QED
        BY <2>1, <2>2, <2>3, <2>4 DEF Absorbables, Kinds
<1>4. status' = [x \in Msgs |-> IF x \in A THEN "injected" ELSE status[x]]
    BY DEF InjectBatch
<1>5. A \in SUBSET Absorbables
    BY <1>3
<1>6. Mailbox!Absorb(s, A)
    BY <1>1, <1>3, <1>4, <1>5 DEF Mailbox!Absorb
<1>7. QED
    BY <1>1, <1>5, <1>6 DEF Mailbox!Next, Absorbables

-----------------------------------------------------------------------------
(* Nothing is served and nothing was sent.                                   *)
LEMMA InitRefines == Init => Mailbox!Init
<1>1. Init => Serving = [s \in Sessions |-> NoMsg]
    BY DEF Init, Serving, Working
<1>2. QED
    BY <1>1 DEF Init, Mailbox!Init

(* Every step of the dispatcher is one of the mailbox, or none.              *)
LEMMA StepRefines ==
    ASSUME IInv, OneTurnIn(phase'), [Next]_vars
    PROVE  [Mailbox!Next]_(Mailbox!vars)
<1> DEFINE SameTurns == \A m \in Msgs : phase'[m] \in Working <=> phase[m] \in Working
<1>1. SameTurns => Serving' = Serving
    BY SameServing DEF Serving, ServingIn
<1>2. ASSUME status' = status, SameTurns PROVE UNCHANGED Mailbox!vars
    BY <1>1, <1>2 DEF Mailbox!vars
<1>3. CASE UNCHANGED vars
    BY <1>2, <1>3 DEF vars
<1>4. ASSUME NEW m \in Msgs, Send(m) PROVE Mailbox!Next
    <2>1. SameTurns /\ status[m] = "unsent" /\ status' = [status EXCEPT ![m] = "open"]
        BY <1>4 DEF Send, Publish, Submit, CallDirect, IInv, TypeOK, Working, HolderInv, HolderOK
    <2>2. Mailbox!Accept(m)
        BY <1>1, <2>1 DEF Mailbox!Accept
    <2>3. QED
        BY <2>2 DEF Mailbox!Next
<1>5. CASE FinishStop
    <2>1. /\ stopping \in Msgs /\ stopping # NoMsg /\ cancelled = {}
          /\ phase[stopping] = "none" /\ status[stopping] = "open" /\ SessionOf[stopping] \in Sessions
        BY <1>5, Ranges DEF FinishStop, IInv, TypeOK, HolderInv, HolderOK
    <2>2. owner[SessionOf[stopping]] = NoMsg
        <3> DEFINE w == owner[SessionOf[stopping]]
        <3>1. w \in Msgs \union {NoMsg}
            BY <2>1, Ranges
        <3>2. w # NoMsg => SessionOf[w] = SessionOf[stopping] /\ Bound(w) /\ phase[w] # "none"
            BY <2>1 DEF IInv, OwnerInv, Working
        <3> HIDE DEF w
        <3>3. w = NoMsg
            BY <2>1, <3>1, <3>2 DEF IInv, StopInv
        <3>4. QED
            BY <3>3 DEF w
    <2>3. ToSet(pending[SessionOf[stopping]]) = {}
        BY <2>1, <2>2, EmptyQueue DEF IInv, OwnerInv
    <2>4. status' = [status EXCEPT ![stopping] = "command"]
        BY <1>5, <2>1, <2>3 DEF FinishStop, IInv, TypeOK
    <2>5. phase' = phase
        BY <1>5 DEF FinishStop
    <2>6. QED
        BY <1>1, <2>1, <2>4, <2>5, RetireStep DEF Working
<1>6. ASSUME NEW m \in Msgs, DropOrphan(m) \/ AnswerInline(m) PROVE Mailbox!Next
    <2>1. Consume(m) /\ phase' = phase
        BY <1>6 DEF DropOrphan, AnswerInline
    <2>2. phase[m] \notin Working /\ status[m] = "open"
        BY <2>1, ConsumeFacts DEF Working
    <2>3. \E r \in {"command", "dropped"} : status' = [status EXCEPT ![m] = r]
        BY <1>6 DEF DropOrphan, AnswerInline
    <2>4. QED
        BY <1>1, <2>1, <2>2, <2>3, RetireStep
<1>7. ASSUME NEW m \in Msgs, BeginStop(m) \/ Defer(m) \/ RouteToPending(m) \/ SpawnTask(m)
      PROVE  UNCHANGED Mailbox!vars
    <2>1. phase[m] = "none" /\ status' = status
        BY <1>7, ConsumeFacts DEF BeginStop, Defer, RouteToPending, SpawnTask
    <2>2. SameTurns
        BY <1>7, <2>1 DEF BeginStop, Defer, RouteToPending, SpawnTask, IInv, TypeOK, Working
    <2>3. QED
        BY <1>2, <2>1, <2>2
<1>8. ASSUME NEW m \in Msgs, StartTask(m) \/ QueueAtGate(m) \/ ContinueGoal(m)
      PROVE  UNCHANGED Mailbox!vars
    <2>1. status' = status
        BY <1>8 DEF StartTask, QueueAtGate, ContinueGoal
    <2>2. CASE StartTask(m)
        <3>1. phase[m] = "created"
            <4>1. ready \in Seq(Msgs) /\ ready # <<>> /\ Head(ready) = m
                BY <2>2 DEF StartTask, IInv, TypeOK
            <4>2. m \in ToSet(ready)
                BY <4>1, TailQueue DEF IInv, TaskInv
            <4>3. QED
                BY <4>2 DEF IInv, TaskInv
        <3>2. SameTurns
            BY <2>2, <3>1 DEF StartTask, IInv, TypeOK, Working
        <3>3. QED
            BY <1>2, <2>1, <3>2
    <2>3. CASE QueueAtGate(m) \/ ContinueGoal(m)
        <3>1. SameTurns
            BY <2>3 DEF QueueAtGate, HoldsLock, ContinueGoal, IInv, TypeOK, Working
        <3>2. QED
            BY <1>2, <2>1, <3>1
    <2>4. QED
        BY <1>8, <2>2, <2>3
<1>9. ASSUME NEW m \in Msgs, BeginTurn(m) \/ BeginDirect(m) PROVE Mailbox!Next
    <2>1. phase[m] \in {"lock", "gate"}
        BY <1>9 DEF BeginTurn, BeginDirect, HoldsLock
    <2>2. /\ phase'[m] = "running" /\ \A n \in Msgs \ {m} : phase'[n] = phase[n]
          /\ status' = status
        BY <1>9 DEF BeginTurn, BeginDirect, IInv, TypeOK
    <2>3. QED
        BY <2>1, <2>2, ServeStep DEF Working
<1>10. ASSUME NEW m \in Msgs, Drain(m) \/ ReachBudget(m) PROVE [Mailbox!Next]_(Mailbox!vars)
    <2>1. InRunner(m)
        BY <1>10 DEF Drain, ReachBudget
    <2>2. SameTurns
        BY <1>10, <2>1 DEF Drain, ReachBudget, InRunner, IInv, TypeOK, Working
    <2>3. InjectBatch(SessionOf[m]) \/ status' = status
        BY <1>10 DEF Drain, ReachBudget
    <2>4. QED
        BY <1>1, <1>2, <2>1, <2>2, <2>3, AbsorbStep
<1>11. ASSUME NEW m \in Msgs,
              UnwindTurn(m) \/ EndDirect(m) \/ \E r \in {"answered", "failed"} : EndTurn(m, r)
       PROVE  Mailbox!Next
    <2>1. /\ phase[m] \in Working /\ phase'[m] = "none"
          /\ \A n \in Msgs \ {m} : phase'[n] = phase[n]
        BY <1>11 DEF UnwindTurn, EndDirect, EndTurn, IInv, TypeOK, Working
    <2>2. \/ \E r \in {"answered", "failed", "cancelled"} : status' = [status EXCEPT ![m] = r]
          \/ UNCHANGED status
        BY <1>11 DEF UnwindTurn, EndDirect, EndTurn, IInv, TypeOK
    <2>3. QED
        BY <2>1, <2>2, FinishStep
<1>12. ASSUME NEW m \in Msgs, UnwindWaiting(m) \/ UnwindCreated(m) PROVE Mailbox!Next
    <2>1. m \in cancelled /\ phase[m] # "none" /\ phase[m] \notin Working
        <3>1. CASE UnwindWaiting(m)
            BY <3>1 DEF UnwindWaiting, Working
        <3>2. CASE UnwindCreated(m)
            <4>1. ready \in Seq(Msgs) /\ ready # <<>> /\ Head(ready) = m
                BY <3>2 DEF UnwindCreated, IInv, TypeOK
            <4>2. m \in ToSet(ready)
                BY <4>1, TailQueue DEF IInv, TaskInv
            <4>3. QED
                BY <3>2, <4>2 DEF UnwindCreated, IInv, TaskInv, Working
        <3>3. QED
            BY <1>12, <3>1, <3>2
    <2>2. status[m] = "open"
        BY <2>1 DEF IInv, HolderInv, HolderOK
    <2>3. SameTurns
        BY <1>12, <2>1 DEF UnwindWaiting, UnwindCreated, IInv, TypeOK, Working
    <2>4. status' = [status EXCEPT ![m] = "cancelled"]
        BY <1>12 DEF UnwindWaiting, UnwindCreated
    <2>5. QED
        BY <1>1, <2>1, <2>2, <2>3, <2>4, RetireStep
<1>13. QED
    BY <1>3, <1>4, <1>5, <1>6, <1>7, <1>8, <1>9, <1>10, <1>11, <1>12
       DEF Next, RunLoop, TaskStep

(* AgentLoop implements the mailbox: its tasks, locks, queues and            *)
(* cancellations are invisible to whoever sends it messages.                  *)
THEOREM Refinement == Spec => ImplementsMailbox
<1>1. IInv /\ IInv' /\ [Next]_vars => [Mailbox!Next]_(Mailbox!vars)
    <2>1. IInv' => OneTurnIn(phase')
        BY DEF IInv, LockInv, OneTurnIn
    <2>2. QED
        BY <2>1, StepRefines
<1>2. QED
    BY <1>1, InitRefines, Invariance, PTL DEF Spec, ImplementsMailbox, Mailbox!Spec
==============================================================================

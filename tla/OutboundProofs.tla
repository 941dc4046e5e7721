--------------------------- MODULE OutboundProofs ---------------------------
(***************************************************************************)
(* For any number of chats, channels, messages, slots and permits: types    *)
(* are kept; no slot or permit leaks; what is joined into one message are    *)
(* parts of one stream that follow each other; and until a send fails or a   *)
(* channel stops nothing is dropped but progress, repeated replies and what  *)
(* is for a disabled channel. While feature actions come one after the       *)
(* other: one message of a chat is sent at a time, on a running instance of  *)
(* its channel, and each chat is served in the order of publication.         *)
(***************************************************************************)
EXTENDS OutboundDispatch, QueueLemmas, FiniteSetTheorems, WellFoundedInduction

\* x is a message on the bus, to one of the chats.
IsPacket(x) == x = [chat |-> x.chat, msg |-> x.msg, parts |-> x.parts] /\ x.chat \in Chats

\* t is a task that sends to one of the chats.
IsTask(t) ==
  /\ t = [id |-> t.id, chat |-> t.chat, msg |-> t.msg, parts |-> t.parts, inst |-> t.inst,
          prev |-> t.prev, at |-> t.at, tries |-> t.tries, cancelled |-> t.cancelled]
  /\ t.chat \in Chats

\* What waits to become a task belongs to a chat.
InputInv ==
  /\ IsSeq(bus) /\ IsSeq(held)
  /\ \A x \in ToSet(bus) \cup ToSet(held) : IsPacket(x)
  /\ hand # None => hand.chat \in Chats /\ hand.inst # 0

\* A task is known by its number.
TaskInv ==
  /\ IsFiniteSet(tasks) /\ last \in Nat
  /\ \A t \in tasks : IsTask(t) /\ t.id \in 1 .. last
  /\ \A t, u \in tasks : t.id = u.id => t = u

Sending == {t \in tasks : t.at # "waiting"}

CountInv == slots \in Nat /\ sends \in Nat /\ SlotsConserved

IInv == InputInv /\ TaskInv /\ CountInv

----------------------------------------------------------------------------
(* The set of tasks                                                        *)

\* The steps a task set takes: t changes to u, t ends, u is added, the tasks
\* of ts are cancelled.
Changes(t, u) ==
  /\ t \in tasks /\ tasks' = (tasks \ {t}) \cup {u} /\ last' = last
  /\ IsTask(u) /\ u.id = t.id /\ u.chat = t.chat /\ u.prev = t.prev
  /\ u.inst = t.inst /\ u.cancelled = t.cancelled /\ u.msg = t.msg /\ u.parts = t.parts
Ends(t) == t \in tasks /\ tasks' = tasks \ {t} /\ last' = last
Adds(u) == tasks' = tasks \cup {u} /\ IsTask(u) /\ u.id = last + 1 /\ last' = last + 1
Cancels(ts) == ts \subseteq tasks /\ Cancel(ts) /\ last' = last

LEMMA SendingFinite ==
  ASSUME TaskInv
  PROVE  /\ IsFiniteSet(Sending)
         /\ Cardinality(tasks) \in Nat /\ Cardinality(Sending) \in Nat
BY FS_Subset, FS_CardinalityType DEF TaskInv, Sending

LEMMA ChangeStep ==
  ASSUME TaskInv, NEW t, NEW u, Changes(t, u)
  PROVE  /\ TaskInv' /\ Cardinality(tasks') = Cardinality(tasks)
         /\ (t.at = "waiting") = (u.at = "waiting")
               => Cardinality(Sending') = Cardinality(Sending)
         /\ t.at = "waiting" /\ u.at # "waiting"
               => Cardinality(Sending') = Cardinality(Sending) + 1
<1>1. u \notin tasks \ {t} /\ u.id \in 1 .. last
  BY DEF TaskInv, Changes
<1>2. IsFiniteSet(tasks \ {t}) /\ Cardinality(tasks \ {t}) = Cardinality(tasks) - 1
  BY FS_RemoveElement DEF TaskInv, Changes
<1>3. IsFiniteSet(tasks') /\ Cardinality(tasks') = Cardinality(tasks) - 1 + 1
  BY <1>1, <1>2, FS_AddElement DEF Changes
<1>4. TaskInv'
  BY <1>1, <1>3 DEF TaskInv, Changes
<1>5. Cardinality(tasks) \in Nat /\ IsFiniteSet(Sending) /\ Cardinality(Sending) \in Nat
  BY SendingFinite
<1>6. CASE t.at = "waiting" /\ u.at = "waiting"
  <2>1. Sending' = Sending
    BY <1>6 DEF Sending, Changes
  <2> QED BY <1>3, <1>4, <1>5, <1>6, <2>1
<1>7. CASE t.at = "waiting" /\ u.at # "waiting"
  <2>1. Sending' = Sending \cup {u} /\ u \notin Sending
    BY <1>1, <1>7 DEF Sending, Changes
  <2>2. Cardinality(Sending') = Cardinality(Sending) + 1
    BY <1>5, <2>1, FS_AddElement
  <2> QED BY <1>3, <1>4, <1>5, <1>7, <2>2
<1>8. CASE t.at # "waiting" /\ u.at # "waiting"
  <2>1. Sending' = (Sending \ {t}) \cup {u} /\ u \notin Sending \ {t} /\ t \in Sending
    BY <1>1, <1>8 DEF Sending, Changes
  <2>2. IsFiniteSet(Sending \ {t}) /\ Cardinality(Sending \ {t}) = Cardinality(Sending) - 1
    BY <1>5, <2>1, FS_RemoveElement
  <2>3. Cardinality(Sending') = Cardinality(Sending) - 1 + 1
    BY <2>1, <2>2, FS_AddElement
  <2> QED BY <1>3, <1>4, <1>5, <1>8, <2>3
<1>9. CASE t.at # "waiting" /\ u.at = "waiting"
  BY <1>3, <1>4, <1>5, <1>9
<1> QED BY <1>6, <1>7, <1>8, <1>9

LEMMA EndStep ==
  ASSUME TaskInv, NEW t, Ends(t)
  PROVE  /\ TaskInv' /\ Cardinality(tasks') = Cardinality(tasks) - 1
         /\ Cardinality(Sending') =
              IF t.at = "waiting" THEN Cardinality(Sending) ELSE Cardinality(Sending) - 1
<1>1. IsFiniteSet(tasks') /\ Cardinality(tasks') = Cardinality(tasks) - 1
  BY FS_RemoveElement DEF TaskInv, Ends
<1>2. TaskInv'
  BY <1>1 DEF TaskInv, Ends
<1>3. Sending' = Sending \ {t} /\ (t \in Sending <=> t.at # "waiting")
  BY DEF Sending, Ends
<1> QED BY <1>1, <1>2, <1>3, SendingFinite, FS_RemoveElement

LEMMA AddStep ==
  ASSUME TaskInv, NEW u, Adds(u), u.at = "waiting"
  PROVE  /\ TaskInv' /\ Cardinality(tasks') = Cardinality(tasks) + 1
         /\ Sending' = Sending
<1>1. u \notin tasks
  BY DEF TaskInv, Adds
<1>2. IsFiniteSet(tasks') /\ Cardinality(tasks') = Cardinality(tasks) + 1
  BY <1>1, FS_AddElement DEF TaskInv, Adds
<1>3. TaskInv'
  BY <1>2 DEF TaskInv, Adds
<1> QED BY <1>2, <1>3 DEF Sending, Adds

Cancelled(t) == [t EXCEPT !.cancelled = TRUE]

LEMMA CancelledTask ==
  ASSUME NEW t, IsTask(t)
  PROVE  /\ IsTask(Cancelled(t)) /\ Cancelled(t).cancelled = TRUE
         /\ Cancelled(t).id = t.id /\ Cancelled(t).chat = t.chat
         /\ Cancelled(t).prev = t.prev /\ Cancelled(t).inst = t.inst
         /\ Cancelled(t).at = t.at /\ Cancelled(t).tries = t.tries
         /\ Cancelled(t).msg = t.msg /\ Cancelled(t).parts = t.parts
<1>0. PICK i, c, m, p, n, r, a, k, b :
        t = [id |-> i, chat |-> c, msg |-> m, parts |-> p, inst |-> n,
             prev |-> r, at |-> a, tries |-> k, cancelled |-> b]
  BY DEF IsTask
<1>1. Cancelled(t) =
        [id |-> i, chat |-> c, msg |-> m, parts |-> p, inst |-> n,
         prev |-> r, at |-> a, tries |-> k, cancelled |-> TRUE]
  <2> DEFINE yes == TRUE
  <2>1. Cancelled(t) = [t EXCEPT !.cancelled = yes]
    BY DEF Cancelled
  <2> HIDE DEF yes
  <2>2. Cancelled(t) =
          [id |-> i, chat |-> c, msg |-> m, parts |-> p, inst |-> n,
           prev |-> r, at |-> a, tries |-> k, cancelled |-> yes]
    BY <1>0, <2>1
  <2> QED BY <2>2 DEF yes
<1> QED BY <1>0, <1>1 DEF IsTask

\* A set and its image under an injective function.
LEMMA ImageBijection ==
  ASSUME NEW S, NEW T, NEW f \in [S -> T], T = {f[x] : x \in S},
         \A x, y \in S : f[x] = f[y] => x = y
  PROVE  ExistsBijection(S, T)
<1>1. f \in Injection(S, T)
  BY DEF Injection, IsInjective
<1>2. f \in Surjection(S, T)
  BY DEF Surjection
<1> QED BY <1>1, <1>2 DEF Bijection, ExistsBijection

\* A cancelled task stays in its place.
LEMMA CancelStep ==
  ASSUME TaskInv, NEW ts, Cancels(ts)
  PROVE  /\ TaskInv' /\ Cardinality(tasks') = Cardinality(tasks)
         /\ Cardinality(Sending') = Cardinality(Sending)
<1> DEFINE F(t) == IF t \in ts THEN Cancelled(t) ELSE t
           G == [t \in tasks |-> F(t)]
           H == [t \in Sending |-> F(t)]
<1>1. tasks' = {F(t) : t \in tasks}
  BY DEF Cancels, Cancel, Cancelled
<1>2. \A t \in tasks : IsTask(F(t)) /\ F(t).id = t.id /\ F(t).at = t.at
  BY CancelledTask DEF TaskInv
<1> HIDE DEF F
<1>3. \A t, u \in tasks : F(t) = F(u) => t = u
  BY <1>2 DEF TaskInv
<1>4. Sending' = {F(t) : t \in Sending}
  BY <1>1, <1>2 DEF Sending
<1>5. ExistsBijection(tasks, tasks')
  <2>1. G \in [tasks -> tasks'] /\ tasks' = {G[t] : t \in tasks}
        /\ \A t, u \in tasks : G[t] = G[u] => t = u
    BY <1>1, <1>3
  <2> HIDE DEF G
  <2> QED BY <2>1, ImageBijection
<1>6. ExistsBijection(Sending, Sending')
  <2>1. H \in [Sending -> Sending'] /\ Sending' = {H[t] : t \in Sending}
        /\ \A t, u \in Sending : H[t] = H[u] => t = u
    BY <1>3, <1>4 DEF Sending
  <2> HIDE DEF H
  <2> QED BY <2>1, ImageBijection
<1>7. /\ IsFiniteSet(tasks') /\ Cardinality(tasks') = Cardinality(tasks)
      /\ Cardinality(Sending') = Cardinality(Sending)
  BY <1>5, <1>6, SendingFinite, FS_Bijection DEF TaskInv
<1>8. TaskInv'
  BY <1>1, <1>2, <1>7 DEF TaskInv, Cancels
<1> QED BY <1>7, <1>8

----------------------------------------------------------------------------
(* What is joined is a part of the bus                                     *)

\* A set of numbers up to n has a largest one: the smallest of the sets of
\* numbers above its members belongs to it.
LEMMA LargestMember ==
  ASSUME NEW n \in Nat, NEW S \in SUBSET (0 .. n), S # {}
  PROVE  \E x \in S : \A y \in S : x >= y
<1> DEFINE Above(x) == {i \in 0 .. n : i > x}
           T == {Above(x) : x \in S}
           R == StrictSubsetOrdering(0 .. n)
<1>1. IsFiniteSet(0 .. n)
  BY FS_Interval
<1>2. T \subseteq FiniteSubsetsOf(0 .. n) /\ T # {}
  <2>1. \A x \in S : Above(x) \subseteq 0 .. n /\ IsFiniteSet(Above(x))
    BY <1>1, FS_Subset
  <2> QED BY <2>1 DEF FiniteSubsetsOf
<1>3. IsWellFoundedOn(R, FiniteSubsetsOf(0 .. n))
  BY FS_StrictSubsetOrderingWellFounded
<1>4. PICK A \in T : \A B \in T : ~ (<<B, A>> \in R)
  <2> HIDE DEF T, R
  <2> QED BY <1>2, <1>3, WFMin
<1>5. PICK x \in S : A = Above(x)
  BY <1>4
<1>6. ASSUME NEW y \in S PROVE x >= y
  <2>1. SUFFICES ASSUME y > x PROVE FALSE
    BY <1>6
  <2>2. Above(y) \subseteq Above(x) /\ y \in Above(x) /\ y \notin Above(y)
    BY <1>6, <2>1
  <2>3. <<Above(y), Above(x)>> \in R
    BY <2>2 DEF StrictSubsetOrdering
  <2> QED BY <1>4, <1>5, <1>6, <2>3
<1> QED BY <1>6

LEMMA JoinedBound ==
  ASSUME NEW x, NEW b, IsSeq(b)
  PROVE  Joined(x, b) \in 0 .. Len(b) /\ Joined(x, b) + Boundary(x, b) \in 0 .. Len(b)
<1> DEFINE P(k) == \A i \in 1 .. k :
                     /\ SameStream(x, b[i]) /\ b[i].msg.kind # "bare"
                     /\ i < k => b[i].msg.kind = "delta"
           S == {k \in 0 .. Len(b) : P(k)}
<1>1. Len(b) \in Nat
  BY DEF IsSeq
<1>2. 0 \in S
  BY <1>1
<1>3. Joined(x, b) = Max(S)
  BY DEF Joined
<1>4. S \subseteq 0 .. Len(b)
  OBVIOUS
<1> HIDE DEF S
<1>5. Max(S) \in S
  BY <1>1, <1>2, <1>4, LargestMember DEF Max
<1>6. Joined(x, b) \in 0 .. Len(b)
  BY <1>3, <1>4, <1>5
<1> QED BY <1>1, <1>6 DEF Boundary

----------------------------------------------------------------------------
(* The dispatcher                                                          *)

\* Accepting a message takes a slot for a new task, refusing it neither.
LEMMA EnqueueStep ==
  ASSUME TaskInv, CountInv, NEW x, x.chat \in Chats, slots > 0, Enqueue(x), sends' = sends
  PROVE  TaskInv' /\ CountInv'
<1>1. CASE Accepts(x)
  <2> DEFINE u == [id |-> last', chat |-> x.chat, msg |-> x.msg, parts |-> x.parts,
                   inst |-> x.inst, prev |-> Previous(x.chat), at |-> "waiting",
                   tries |-> 0, cancelled |-> FALSE]
  <2>1. tasks' = tasks \cup {u} /\ last' = last + 1 /\ slots' = slots - 1
    BY <1>1 DEF Enqueue, UseSlot
  <2>2. Adds(u) /\ u.at = "waiting"
    BY <2>1 DEF Adds, IsTask
  <2> HIDE DEF u
  <2>3. /\ TaskInv' /\ Cardinality(tasks') = Cardinality(tasks) + 1
        /\ Sending' = Sending
    BY <2>2, AddStep
  <2>4. Cardinality(tasks) \in Nat
    BY SendingFinite
  <2>5. /\ slots \in Nat /\ slots + Cardinality(tasks) = PendingLimit
        /\ sends \in Nat /\ sends + Cardinality(Sending) = Concurrency
    BY DEF CountInv, SlotsConserved, Sending
  <2>6. slots' \in Nat /\ slots' + Cardinality(tasks') = PendingLimit
    BY <2>1, <2>3, <2>4, <2>5
  <2> QED BY <2>3, <2>5, <2>6 DEF CountInv, SlotsConserved, Sending
<1>2. CASE ~Accepts(x)
  BY <1>2 DEF Enqueue, UseSlot, TaskInv, CountInv, SlotsConserved
<1> QED BY <1>1, <1>2

LEMMA Untouched ==
  ASSUME TaskInv, CountInv, UNCHANGED <<tasks, last, slots, sends>>
  PROVE  TaskInv' /\ CountInv'
BY DEF TaskInv, CountInv, SlotsConserved

LEMMA PublishStep == IInv /\ (\E c \in Chats : Publish(c)) => IInv'
<1> SUFFICES ASSUME IInv, NEW c \in Chats, Publish(c) PROVE IInv'
  OBVIOUS
<1> DEFINE x == [chat |-> c, msg |-> Script[c][pc'[c]], parts |-> <<pc'[c]>>]
<1>1. bus' = Append(bus, x) /\ UNCHANGED <<held, hand, tasks, last, slots, sends>>
  BY DEF Publish
<1>2. IsPacket(x)
  BY DEF IsPacket
<1> HIDE DEF x
<1>3. InputInv'
  BY <1>1, <1>2, AppendIsSeq DEF IInv, InputInv
<1> QED BY <1>1, <1>3, Untouched DEF IInv

LEMMA TakeStep == IInv /\ Take => IInv'
<1> SUFFICES ASSUME IInv, Take PROVE IInv'
  OBVIOUS
<1> DEFINE q == held \o bus
           x == Head(q)
           b == Tail(q)
           delta == x.msg.kind = "delta"
           y == IF delta THEN Coalesced(x, b) ELSE x
           n == IF delta THEN Joined(x, b) ELSE 0
           m == IF delta THEN n + Boundary(x, b) ELSE 0
           z == [chat |-> x.chat, msg |-> y.msg, parts |-> y.parts,
                 inst |-> chan[ChannelOf[x.chat]]]
<1>1. /\ hand = None /\ q # <<>> /\ sends' = sends
      /\ held' = SubSeq(b, n + 1, m) /\ bus' = SubSeq(b, m + 1, Len(b))
      /\ \/ UNCHANGED <<hand, tasks, tails, slots, last>>
         \/ slots = 0 /\ z.inst # 0 /\ hand' = z /\ UNCHANGED <<tasks, tails, slots, last>>
         \/ slots # 0 /\ z.inst # 0 /\ Enqueue(z) /\ UNCHANGED hand
  BY DEF Take
<1>2. IsSeq(q) /\ \A e \in ToSet(q) : IsPacket(e)
  BY ConcatIsSeq DEF IInv, InputInv
<1>3. IsSeq(b) /\ ToSet(b) \subseteq ToSet(q) /\ IsPacket(x)
  BY <1>1, <1>2, TailIsSeq
<1>4. z.chat = x.chat /\ z.chat \in Chats
  BY <1>3 DEF IsPacket
<1>5. n \in 0 .. Len(b) /\ m \in 0 .. Len(b) /\ Len(b) \in Nat
  <2>1. Len(b) \in Nat
    BY <1>3 DEF IsSeq
  <2>2. Joined(x, b) \in 0 .. Len(b) /\ Joined(x, b) + Boundary(x, b) \in 0 .. Len(b)
    BY <1>3, JoinedBound
  <2> HIDE DEF b, x, q
  <2> QED BY <2>1, <2>2
<1> HIDE DEF q, x, b, n, m, z, y
<1>6. /\ IsSeq(held') /\ ToSet(held') \subseteq ToSet(b)
      /\ IsSeq(bus') /\ ToSet(bus') \subseteq ToSet(b)
  BY <1>1, <1>3, <1>5, SubSeqIsSeq
<1>7. InputInv'
  <2>1. hand' # None => hand'.chat \in Chats /\ hand'.inst # 0
    BY <1>1, <1>4
  <2> QED BY <1>2, <1>3, <1>6, <2>1 DEF InputInv
<1>8. TaskInv' /\ CountInv'
  BY <1>1, <1>4, Untouched, EnqueueStep DEF IInv, CountInv
<1> QED BY <1>7, <1>8 DEF IInv

LEMMA GrantStep == IInv /\ Grant => IInv'
<1> SUFFICES ASSUME IInv, Grant PROVE IInv'
  OBVIOUS
<1>1. hand.chat \in Chats /\ slots > 0 /\ Enqueue(hand) /\ sends' = sends
      /\ hand' = None /\ UNCHANGED <<bus, held>>
  BY DEF Grant, IInv, InputInv, input
<1>2. InputInv'
  BY <1>1 DEF IInv, InputInv
<1> QED BY <1>1, <1>2, EnqueueStep DEF IInv

----------------------------------------------------------------------------
(* The tasks                                                               *)

\* u is t at another stage or another try of its sending.
Stage(t, u) ==
  /\ IsTask(u) /\ u.id = t.id /\ u.chat = t.chat /\ u.prev = t.prev
  /\ u.inst = t.inst /\ u.cancelled = t.cancelled /\ u.msg = t.msg /\ u.parts = t.parts

LEMMA TaskAt ==
  ASSUME NEW t, IsTask(t), NEW a
  PROVE  /\ Stage(t, [t EXCEPT !.at = a]) /\ [t EXCEPT !.at = a].at = a
         /\ [t EXCEPT !.at = a].tries = t.tries
<1>0. PICK i, c, m, p, n, r, b, k, x :
        t = [id |-> i, chat |-> c, msg |-> m, parts |-> p, inst |-> n,
             prev |-> r, at |-> b, tries |-> k, cancelled |-> x]
  BY DEF IsTask
<1>1. [t EXCEPT !.at = a] =
        [id |-> i, chat |-> c, msg |-> m, parts |-> p, inst |-> n,
         prev |-> r, at |-> a, tries |-> k, cancelled |-> x]
  BY <1>0
<1> QED BY <1>0, <1>1 DEF IsTask, Stage

LEMMA TaskTry ==
  ASSUME NEW t, IsTask(t), NEW k
  PROVE  /\ Stage(t, [t EXCEPT !.tries = k]) /\ [t EXCEPT !.tries = k].at = t.at
         /\ [t EXCEPT !.tries = k].tries = k
<1>0. PICK i, c, m, p, n, r, b, j, x :
        t = [id |-> i, chat |-> c, msg |-> m, parts |-> p, inst |-> n,
             prev |-> r, at |-> b, tries |-> j, cancelled |-> x]
  BY DEF IsTask
<1>1. [t EXCEPT !.tries = k] =
        [id |-> i, chat |-> c, msg |-> m, parts |-> p, inst |-> n,
         prev |-> r, at |-> b, tries |-> k, cancelled |-> x]
  BY <1>0
<1> QED BY <1>0, <1>1 DEF IsTask, Stage

LEMMA TaskAtTry ==
  ASSUME NEW t, IsTask(t), NEW k
  PROVE  \E u : /\ u = [t EXCEPT !.at = "sending", !.tries = k]
               /\ Stage(t, u) /\ u.at = "sending" /\ u.tries = k
<1> DEFINE w == [t EXCEPT !.at = "sending"]
           u == [w EXCEPT !.tries = k]
<1>1. Stage(t, w) /\ w.at = "sending"
  BY TaskAt
<1>2. u = [t EXCEPT !.at = "sending", !.tries = k]
  BY DEF IsTask
<1> HIDE DEF w
<1>3. Stage(w, u) /\ u.at = "sending" /\ u.tries = k
  BY <1>1, TaskTry DEF Stage
<1> QED BY <1>1, <1>2, <1>3 DEF Stage

\* What each step of a task does to the task set and to the permits.
Advances(t, u) == Changes(t, u) /\ slots' = slots /\ UNCHANGED <<bus, held, hand>>
Starts(t, u) ==
  /\ Advances(t, u) /\ t.at = "waiting" /\ ~t.cancelled /\ t.prev \notin Ids
  /\ u.at = "sending" /\ u.tries = 1
  /\ sends > 0 /\ sends' = sends - 1 /\ tails' = tails
Stays(t, u) ==
  /\ Advances(t, u) /\ UNCHANGED <<sends, tails>>
  /\ \/ t.at = "sending" /\ u.at = "delay" /\ u.tries = t.tries /\ t.tries < MaxTries
     \/ t.at = "delay" /\ u.at = "sending" /\ u.tries = t.tries + 1
Leaves(t) ==
  /\ Ends(t) /\ Finish(t) /\ UNCHANGED <<bus, held, hand>>
  /\ t.cancelled \/ t.at = "sending"

LEMMA BeginEffect ==
  ASSUME TaskInv, NEW t \in tasks, Begin(t)
  PROVE  \E u : Starts(t, u)
<1> DEFINE k == 1
<1>1. /\ tasks' = (tasks \ {t}) \cup {[t EXCEPT !.at = "sending", !.tries = k]}
      /\ t.at = "waiting" /\ ~t.cancelled /\ t.prev \notin Ids
      /\ sends > 0 /\ sends' = sends - 1
      /\ UNCHANGED <<last, tails, slots, bus, held, hand>>
  BY DEF Begin, input
<1> HIDE DEF k
<1>2. PICK u : /\ u = [t EXCEPT !.at = "sending", !.tries = k]
               /\ Stage(t, u) /\ u.at = "sending" /\ u.tries = k
  <2>1. IsTask(t)
    BY DEF TaskInv
  <2> QED BY <2>1, TaskAtTry
<1> QED BY <1>1, <1>2 DEF Starts, Advances, Changes, Stage, k

LEMMA RetryEffect ==
  ASSUME TaskInv, NEW t \in tasks, Retry(t)
  PROVE  \E u : Stays(t, u)
<1> DEFINE k == t.tries + 1
<1>1. /\ tasks' = (tasks \ {t}) \cup {[t EXCEPT !.at = "sending", !.tries = k]}
      /\ t.at = "delay" /\ UNCHANGED <<last, tails, slots, sends, bus, held, hand>>
  BY DEF Retry, input
<1> HIDE DEF k
<1>2. PICK u : /\ u = [t EXCEPT !.at = "sending", !.tries = k]
               /\ Stage(t, u) /\ u.at = "sending" /\ u.tries = k
  <2>1. IsTask(t)
    BY DEF TaskInv
  <2> QED BY <2>1, TaskAtTry
<1> QED BY <1>1, <1>2 DEF Stays, Advances, Changes, Stage, k

LEMMA SendFailsEffect ==
  ASSUME TaskInv, NEW t \in tasks, SendFails(t)
  PROVE  (\E u : Stays(t, u)) \/ Leaves(t)
<1>1. IsTask(t) /\ t.at = "sending" /\ UNCHANGED <<bus, held, hand>>
  BY DEF TaskInv, SendFails, input
<1>2. CASE t.tries < MaxTries /\ Backoff(t) /\ UNCHANGED slots
  <2> DEFINE u == [t EXCEPT !.at = "delay"]
  <2>1. Stage(t, u) /\ u.at = "delay" /\ u.tries = t.tries
    BY <1>1, TaskAt
  <2>3. /\ tasks' = (tasks \ {t}) \cup {u} /\ UNCHANGED <<last, tails, sends, slots>>
    BY <1>2 DEF Backoff
  <2> HIDE DEF u
  <2> QED BY <1>1, <1>2, <2>1, <2>3 DEF Stays, Advances, Changes, Stage
<1>3. CASE Finish(t) /\ UNCHANGED last
  BY <1>1, <1>3 DEF Leaves, Ends, Finish
<1> QED BY <1>2, <1>3 DEF SendFails

LEMMA LeaveEffect ==
  ASSUME NEW t \in tasks, SendOk(t) \/ Unwind(t)
  PROVE  Leaves(t)
BY DEF SendOk, Unwind, Leaves, Ends, Finish, input

\* Every step of a task begins its sending, keeps it in its place or ends it.
LEMMA TaskEffect ==
  ASSUME TaskInv, TaskStep
  PROVE  \E t \in tasks : \/ \E u : Starts(t, u) \/ Stays(t, u)
                          \/ Leaves(t)
BY BeginEffect, RetryEffect, SendFailsEffect, LeaveEffect DEF TaskStep

LEMMA TaskStepOK == IInv /\ TaskStep => IInv'
<1> SUFFICES ASSUME IInv, TaskStep PROVE IInv'
  OBVIOUS
<1>0. TaskInv /\ CountInv /\ InputInv
  BY DEF IInv
<1>1. PICK t \in tasks : (\E u : Starts(t, u) \/ Stays(t, u)) \/ Leaves(t)
  BY <1>0, TaskEffect
<1>2. /\ Cardinality(tasks) \in Nat /\ Cardinality(Sending) \in Nat
      /\ slots \in Nat /\ sends \in Nat
      /\ slots + Cardinality(tasks) = PendingLimit
      /\ sends + Cardinality(Sending) = Concurrency
  BY <1>0, SendingFinite DEF CountInv, SlotsConserved, Sending
<1>3. UNCHANGED <<bus, held, hand>>
  BY <1>1 DEF Starts, Stays, Advances, Leaves
<1>4. InputInv'
  BY <1>0, <1>3 DEF InputInv
<1>5. CASE \E u : Starts(t, u)
  <2>1. PICK u : Starts(t, u)
    BY <1>5
  <2>2. TaskInv' /\ Cardinality(tasks') = Cardinality(tasks)
        /\ Cardinality(Sending') = Cardinality(Sending) + 1
    BY <1>0, <2>1, ChangeStep DEF Starts, Advances
  <2> QED BY <1>2, <1>4, <2>1, <2>2 DEF IInv, CountInv, SlotsConserved, Sending, Starts, Advances
<1>6. CASE \E u : Stays(t, u)
  <2>1. PICK u : Stays(t, u)
    BY <1>6
  <2>2. TaskInv' /\ Cardinality(tasks') = Cardinality(tasks)
        /\ Cardinality(Sending') = Cardinality(Sending)
    BY <1>0, <2>1, ChangeStep DEF Stays, Advances
  <2> QED BY <1>2, <1>4, <2>1, <2>2 DEF IInv, CountInv, SlotsConserved, Sending, Stays, Advances
<1>7. CASE Leaves(t)
  <2>1. TaskInv' /\ Cardinality(tasks') = Cardinality(tasks) - 1
        /\ Cardinality(Sending') =
             IF t.at = "waiting" THEN Cardinality(Sending) ELSE Cardinality(Sending) - 1
    BY <1>0, <1>7, EndStep DEF Leaves
  <2>2. slots' = slots + 1 /\ sends' = IF t.at = "waiting" THEN sends ELSE sends + 1
    BY <1>7 DEF Leaves, Finish
  <2> QED BY <1>2, <1>4, <2>1, <2>2 DEF IInv, CountInv, SlotsConserved, Sending
<1> QED BY <1>1, <1>5, <1>6, <1>7

----------------------------------------------------------------------------
(* Channels                                                                *)

LEMMA CancelOK ==
  ASSUME IInv, NEW ts, Cancels(ts), UNCHANGED <<slots, sends, bus, held>>, hand' \in {hand, None}
  PROVE  IInv'
<1>1. /\ TaskInv' /\ Cardinality(tasks') = Cardinality(tasks)
      /\ Cardinality(Sending') = Cardinality(Sending)
  BY CancelStep DEF IInv
<1>2. InputInv'
  BY DEF IInv, InputInv
<1> QED BY <1>1, <1>2 DEF IInv, CountInv, SlotsConserved, Sending

LEMMA QuietOK ==
  ASSUME IInv, UNCHANGED <<tasks, last, slots, sends, bus, held, hand>>
  PROVE  IInv'
BY Untouched DEF IInv, InputInv

LEMMA FeatureActionOK ==
  ASSUME IInv, NEW c, NEW action, FeatureAction(c, action)
  PROVE  IInv'
<1>1. UNCHANGED <<last, slots, sends, bus, held, hand>>
  BY DEF FeatureAction, input
<1>2. CASE UNCHANGED tasks
  BY <1>1, <1>2, QuietOK
<1>3. CASE Cancel(Of(c))
  <2>1. Cancels(Of(c))
    BY <1>1, <1>3 DEF Cancels, Of
  <2> QED BY <1>1, <2>1, CancelOK
<1> QED BY <1>2, <1>3 DEF FeatureAction

LEMMA StopDispatcherOK == IInv /\ StopDispatcher => IInv'
<1> SUFFICES ASSUME IInv, StopDispatcher PROVE IInv'
  OBVIOUS
<1>1. UNCHANGED <<last, slots, sends, bus, held>> /\ hand' = None /\ Cancels(tasks)
  BY DEF StopDispatcher, input, Cancels
<1> QED BY <1>1, CancelOK

LEMMA ChannelStepOK ==
  ASSUME IInv, StopChannels \/ ActionStep
  PROVE  IInv'
<1>1. UNCHANGED <<tasks, last, slots, sends, bus, held, hand>>
  BY DEF StopChannels, ActionStep, StopRuntime, FinishAction, input
<1> QED BY <1>1, QuietOK

LEMMA InitOK == Init => IInv
<1> SUFFICES ASSUME Init PROVE IInv
  OBVIOUS
<1>1. InputInv
  BY EmptyIsSeq DEF Init, InputInv
<1>2. TaskInv
  BY FS_EmptySet DEF Init, TaskInv
<1>3. Sending = {} /\ Cardinality({}) = 0
  BY FS_EmptySet DEF Init, Sending
<1>4. CountInv
  BY <1>3, OutboundAssumption DEF Init, CountInv, SlotsConserved, Sending
<1> QED BY <1>1, <1>2, <1>4 DEF IInv

LEMMA NextOK == IInv /\ [Next]_vars => IInv'
<1> SUFFICES ASSUME IInv, [Next]_vars PROVE IInv'
  OBVIOUS
<1>1. CASE UNCHANGED vars
  BY <1>1, QuietOK DEF vars
<1> QED
  BY <1>1, PublishStep, TakeStep, GrantStep, TaskStepOK, FeatureActionOK, StopDispatcherOK,
     ChannelStepOK DEF Next

LEMMA IInvAlways == Spec => []IInv
BY InitOK, NextOK, PTL DEF Spec

\* Every task holds a slot and every send a permit, on each way a message is
\* refused, sent, retried, given up or cancelled (_queue_outbound, finished).
THEOREM NoSlotLeaks == Spec => []SlotsConserved
<1>1. IInv => SlotsConserved
  BY DEF IInv, CountInv
<1> QED BY <1>1, IInvAlways, PTL

----------------------------------------------------------------------------
(* One send at a time                                                      *)

IdsOf(c) == {t.id : t \in {u \in tasks : u.chat = c}}

\* A task that has an earlier one of its chat waits, and unless it is cancelled
\* it waits for the latest of them; the tasks of a chat are cancelled together.
OrderInv ==
  /\ tails \in [Chats -> Nat]
  /\ \A t \in tasks : t.prev \in Nat /\ t.cancelled \in BOOLEAN
  /\ \A t, u \in tasks : t.chat = u.chat => t.cancelled = u.cancelled
  /\ \A t, u \in tasks : t.chat = u.chat /\ u.id < t.id =>
       /\ t.at = "waiting"
       /\ t.cancelled \/ (u.id <= t.prev /\ t.prev \in IdsOf(t.chat))
  /\ \A t \in tasks : ~t.cancelled => t.id <= tails[t.chat] /\ tails[t.chat] \in IdsOf(t.chat)

IsOp(o) ==
  o = [n |-> o.n, chan |-> o.chan, action |-> o.action, at |-> o.at, wait |-> o.wait,
       inst |-> o.inst]

\* A channel with cancelled tasks takes no new ones; one action at a time waits
\* for them before it stops the instance.
ChannelInv ==
  /\ chan = [c \in Channels |-> chan[c]]
  /\ \A t \in tasks : t.cancelled => ~on \/ ChannelOf[t.chat] \in stopping
  /\ ~on => hand = None
  /\ \A o, p \in ops : o = p
  /\ \A o \in ops :
       /\ IsOp(o) /\ o.chan \in stopping /\ o.chan \in Channels /\ o.at \in {"cancel", "stop"}
       /\ o.at = "cancel" => \A t \in Of(o.chan) : t.id \in o.wait
       /\ o.at = "stop" => Of(o.chan) = {} /\ o.inst = chan[o.chan]
  /\ \A t \in tasks : t.inst = chan[ChannelOf[t.chat]] /\ t.inst # 0
  /\ \A c \in Channels : chan[c] # 0 /\ (on \/ Of(c) # {}) => <<c, chan[c]>> \in live

FullInv == IInv /\ OrderInv /\ ChannelInv

\* A changed task has the number, the chat and the predecessor it had.
LEMMA Origin ==
  ASSUME TaskInv, NEW t, NEW u, Changes(t, u), NEW v \in tasks'
  PROVE  \E w \in tasks : /\ w.id = v.id /\ w.chat = v.chat /\ w.prev = v.prev
                          /\ w.inst = v.inst /\ w.cancelled = v.cancelled
                          /\ w.msg = v.msg /\ w.parts = v.parts
                          /\ v = w \/ (v = u /\ w = t)
BY DEF Changes

LEMMA ChangeIds ==
  ASSUME NEW t, NEW u, Changes(t, u)
  PROVE  \A c : IdsOf(c)' = IdsOf(c)
BY DEF Changes, IdsOf

LEMMA OrderChange ==
  ASSUME TaskInv, OrderInv, NEW t, NEW u, Changes(t, u), tails' = tails,
         t.at # "waiting" \/ ~ \E w \in tasks : w.chat = t.chat /\ w.id < t.id
  PROVE  OrderInv'
<1>0. \A c : IdsOf(c)' = IdsOf(c)
  BY ChangeIds
<1>1. ~ \E w \in tasks : w.chat = t.chat /\ w.id < t.id
  BY DEF OrderInv, Changes
<1>2. \A v \in tasks' : v.prev \in Nat /\ v.cancelled \in BOOLEAN
  BY DEF OrderInv, Changes
<1>3. \A v, w \in tasks' : v.chat = w.chat => v.cancelled = w.cancelled
  <2> SUFFICES ASSUME NEW v \in tasks', NEW w \in tasks', v.chat = w.chat
               PROVE  v.cancelled = w.cancelled
    OBVIOUS
  <2> QED BY Origin DEF OrderInv
<1>4. ASSUME NEW v \in tasks', NEW w \in tasks', v.chat = w.chat, w.id < v.id
      PROVE  v.at = "waiting" /\ (v.cancelled \/ (w.id <= v.prev /\ v.prev \in IdsOf(v.chat)))
  <2>1. PICK v0 \in tasks : /\ v0.id = v.id /\ v0.chat = v.chat /\ v0.prev = v.prev
                            /\ v0.cancelled = v.cancelled /\ (v = v0 \/ (v = u /\ v0 = t))
    BY <1>4, Origin
  <2>2. PICK w0 \in tasks : w0.id = w.id /\ w0.chat = w.chat
    BY <1>4, Origin
  <2>3. v = v0
    BY <1>1, <1>4, <2>1, <2>2
  <2> QED BY <1>4, <2>1, <2>2, <2>3 DEF OrderInv
<1>5. \A v \in tasks' : ~v.cancelled => v.id <= tails[v.chat] /\ tails[v.chat] \in IdsOf(v.chat)
  <2> SUFFICES ASSUME NEW v \in tasks', ~v.cancelled
               PROVE  v.id <= tails[v.chat] /\ tails[v.chat] \in IdsOf(v.chat)
    OBVIOUS
  <2> QED BY Origin DEF OrderInv
<1> QED BY <1>0, <1>2, <1>3, <1>4, <1>5 DEF OrderInv

\* A task that ends was sending, and then it was the first of its chat, or is
\* cancelled, and then all of its chat are.
LEMMA OrderEnd ==
  ASSUME TaskInv, OrderInv, NEW t, Ends(t), t.cancelled \/ t.at = "sending",
         tails' = [tails EXCEPT ![t.chat] = IF @ = t.id THEN 0 ELSE @]
  PROVE  OrderInv'
<1>1. /\ t \in tasks /\ tasks' = tasks \ {t} /\ t.chat \in Chats
      /\ \A v \in tasks : v.id \in Nat /\ v.chat \in Chats
      /\ \A v, w \in tasks : v.id = w.id => v = w
  BY DEF Ends, TaskInv, IsTask
<1>2. tails' \in [Chats -> Nat]
  BY <1>1 DEF OrderInv
<1>3. \A c : IdsOf(c)' = IdsOf(c) \ {t.id}
  BY <1>1 DEF IdsOf
<1>4. \A v \in tasks' : ~v.cancelled /\ v.chat = t.chat => t.id < v.id
  <2> SUFFICES ASSUME NEW v \in tasks', ~v.cancelled, v.chat = t.chat PROVE t.id < v.id
    OBVIOUS
  <2>1. v.id # t.id /\ v \in tasks
    BY <1>1
  <2>2. t.at = "sending"
    BY <1>1, <2>1 DEF OrderInv
  <2> QED BY <1>1, <2>1, <2>2 DEF OrderInv
<1>5. ASSUME NEW v \in tasks', NEW w \in tasks', v.chat = w.chat, w.id < v.id
      PROVE  v.at = "waiting" /\ (v.cancelled \/ (w.id <= v.prev /\ v.prev \in IdsOf(v.chat)'))
  <2>1. v \in tasks /\ w \in tasks /\ v.at = "waiting"
    BY <1>1, <1>5 DEF OrderInv
  <2>2. SUFFICES ASSUME ~v.cancelled PROVE w.id <= v.prev /\ v.prev # t.id
    BY <1>3, <1>5, <2>1 DEF OrderInv
  <2>3. w.id <= v.prev /\ v.prev \in IdsOf(v.chat)
    BY <1>5, <2>1, <2>2 DEF OrderInv
  <2>4. ASSUME v.prev = t.id PROVE FALSE
    <3>1. v.chat = t.chat
      BY <1>1, <2>3, <2>4 DEF IdsOf
    <3>2. ~w.cancelled
      BY <1>5, <2>1, <2>2 DEF OrderInv
    <3>3. w.chat = t.chat
      BY <1>5, <3>1
    <3>4. t.id < w.id
      BY <1>4, <3>2, <3>3
    <3> QED BY <1>1, <2>1, <2>3, <2>4, <3>4
  <2> QED BY <2>3, <2>4
<1>6. ASSUME NEW v \in tasks', ~v.cancelled
      PROVE  v.id <= tails'[v.chat] /\ tails'[v.chat] \in IdsOf(v.chat)'
  <2>1. v \in tasks /\ v.id <= tails[v.chat] /\ tails[v.chat] \in IdsOf(v.chat)
    BY <1>1, <1>6 DEF OrderInv
  <2>2. CASE v.chat # t.chat
    <3>1. tails'[v.chat] = tails[v.chat]
      BY <1>1, <2>1, <2>2 DEF OrderInv
    <3>2. t.id \notin IdsOf(v.chat)
      BY <1>1, <2>2 DEF IdsOf
    <3> QED BY <1>3, <2>1, <3>1, <3>2
  <2>3. CASE v.chat = t.chat
    <3>1. tails[v.chat] # t.id
      BY <1>1, <1>4, <1>6, <2>1, <2>3 DEF OrderInv
    <3>2. tails'[v.chat] = tails[v.chat]
      BY <1>1, <2>3, <3>1 DEF OrderInv
    <3> QED BY <1>3, <2>1, <3>1, <3>2
  <2> QED BY <2>2, <2>3
<1> QED BY <1>1, <1>2, <1>5, <1>6 DEF OrderInv

\* A new task comes behind all of its chat, none of which is cancelled.
LEMMA OrderAdd ==
  ASSUME TaskInv, OrderInv, NEW u, Adds(u), u.at = "waiting", u.cancelled = FALSE,
         u.prev = tails[u.chat], tails' = [tails EXCEPT ![u.chat] = last + 1],
         \A t \in tasks : t.chat = u.chat => ~t.cancelled
  PROVE  OrderInv'
<1>1. /\ tasks' = tasks \cup {u} /\ u.id = last + 1 /\ u.chat \in Chats /\ last \in Nat
      /\ \A v \in tasks : v.id \in 1 .. last /\ v.chat \in Chats
      /\ tails \in [Chats -> Nat]
  BY DEF Adds, TaskInv, IsTask, OrderInv
<1>2. \A c : IdsOf(c) \subseteq IdsOf(c)'
  BY <1>1 DEF IdsOf
<1>3. u.id \in IdsOf(u.chat)'
  BY <1>1 DEF IdsOf
<1>4. tails' \in [Chats -> Nat] /\ tails'[u.chat] = u.id
      /\ \A c \in Chats \ {u.chat} : tails'[c] = tails[c]
  BY <1>1
<1>5. \A v \in tasks' : v.prev \in Nat /\ v.cancelled \in BOOLEAN
  BY <1>1 DEF OrderInv
<1>6. \A v, w \in tasks' : v.chat = w.chat => v.cancelled = w.cancelled
  BY <1>1 DEF OrderInv
<1>7. ASSUME NEW v \in tasks', NEW w \in tasks', v.chat = w.chat, w.id < v.id
      PROVE  v.at = "waiting" /\ (v.cancelled \/ (w.id <= v.prev /\ v.prev \in IdsOf(v.chat)'))
  <2>1. w \in tasks
    BY <1>1, <1>7
  <2>2. CASE v = u
    BY <1>1, <1>2, <1>7, <2>1, <2>2 DEF OrderInv
  <2>3. CASE v \in tasks
    BY <1>2, <1>7, <2>1, <2>3 DEF OrderInv
  <2> QED BY <1>1, <2>2, <2>3
<1>8. ASSUME NEW v \in tasks', ~v.cancelled
      PROVE  v.id <= tails'[v.chat] /\ tails'[v.chat] \in IdsOf(v.chat)'
  <2>1. CASE v.chat = u.chat
    BY <1>1, <1>3, <1>4, <2>1
  <2>2. CASE v.chat # u.chat
    BY <1>1, <1>2, <1>4, <1>8, <2>2 DEF OrderInv
  <2> QED BY <2>1, <2>2
<1> QED BY <1>4, <1>5, <1>6, <1>7, <1>8 DEF OrderInv

\* A cancelled task is in the place of the one it was.
LEMMA CancelOrigin ==
  ASSUME TaskInv, NEW ts, Cancels(ts)
  PROVE  /\ \A v \in tasks' : \E t \in tasks :
              /\ v.id = t.id /\ v.at = t.at /\ v.chat = t.chat /\ v.prev = t.prev
              /\ v.inst = t.inst /\ v.tries = t.tries /\ v.msg = t.msg /\ v.parts = t.parts
              /\ t \in ts => v.cancelled = TRUE
              /\ t \notin ts => v.cancelled = t.cancelled
         /\ \A t \in tasks : \E v \in tasks' :
              v.id = t.id /\ v.chat = t.chat /\ v.parts = t.parts
<1>1. /\ tasks' = (tasks \ ts) \cup {Cancelled(t) : t \in ts} /\ ts \subseteq tasks
      /\ \A t \in tasks : IsTask(t)
  BY DEF Cancels, Cancel, Cancelled, TaskInv
<1>2. ASSUME NEW v \in tasks'
      PROVE  \E t \in tasks :
               /\ v.id = t.id /\ v.at = t.at /\ v.chat = t.chat /\ v.prev = t.prev
               /\ v.inst = t.inst /\ v.tries = t.tries /\ v.msg = t.msg /\ v.parts = t.parts
               /\ t \in ts => v.cancelled = TRUE
               /\ t \notin ts => v.cancelled = t.cancelled
  <2>1. CASE v \in tasks \ ts
    BY <2>1
  <2>2. CASE \E t \in ts : v = Cancelled(t)
    <3>1. PICK t \in ts : v = Cancelled(t)
      BY <2>2
    <3>2. t \in tasks /\ v.id = t.id /\ v.at = t.at /\ v.chat = t.chat /\ v.prev = t.prev
          /\ v.inst = t.inst /\ v.tries = t.tries /\ v.msg = t.msg /\ v.parts = t.parts
          /\ v.cancelled = TRUE
      BY <1>1, <3>1, CancelledTask
    <3> QED BY <3>1, <3>2
  <2> QED BY <1>1, <1>2, <2>1, <2>2
<1>3. \A t \in tasks : \E v \in tasks' :
        v.id = t.id /\ v.chat = t.chat /\ v.parts = t.parts
  BY <1>1, CancelledTask
<1> QED BY <1>2, <1>3

\* Cancelling the tasks of whole chats keeps the order.
LEMMA OrderCancel ==
  ASSUME TaskInv, OrderInv, NEW ts, Cancels(ts), tails' = tails,
         \A t, u \in tasks : t.chat = u.chat /\ t \in ts => u \in ts
  PROVE  OrderInv'
<1>2. \A v \in tasks' : \E t \in tasks :
        /\ v.id = t.id /\ v.at = t.at /\ v.chat = t.chat /\ v.prev = t.prev
        /\ v.inst = t.inst /\ v.tries = t.tries /\ v.msg = t.msg /\ v.parts = t.parts
        /\ t \in ts => v.cancelled = TRUE
        /\ t \notin ts => v.cancelled = t.cancelled
  BY CancelOrigin
<1>3. \A t \in tasks : \E v \in tasks' : v.id = t.id /\ v.chat = t.chat
  BY CancelOrigin
<1>4. \A c : IdsOf(c)' = IdsOf(c)
  <2> SUFFICES ASSUME NEW c PROVE IdsOf(c)' = IdsOf(c)
    OBVIOUS
  <2>1. \A i : i \in IdsOf(c) <=> \E t \in tasks : t.id = i /\ t.chat = c
    BY DEF IdsOf
  <2>2. \A i : i \in IdsOf(c)' <=> \E v \in tasks' : v.id = i /\ v.chat = c
    BY DEF IdsOf
  <2>3. \A i : i \in IdsOf(c)' <=> i \in IdsOf(c)
    BY <1>2, <1>3, <2>1, <2>2
  <2> QED BY <2>3
<1>5. ASSUME NEW v \in tasks'
      PROVE  /\ v.prev \in Nat /\ v.cancelled \in BOOLEAN
             /\ ~v.cancelled => v.id <= tails[v.chat] /\ tails[v.chat] \in IdsOf(v.chat)
  <2>1. PICK t \in tasks :
          /\ v.id = t.id /\ v.chat = t.chat /\ v.prev = t.prev
          /\ t \in ts => v.cancelled = TRUE
          /\ t \notin ts => v.cancelled = t.cancelled
    BY <1>2
  <2>2. v.cancelled \in BOOLEAN /\ (~v.cancelled => ~t.cancelled)
    BY <2>1 DEF OrderInv
  <2> QED BY <2>1, <2>2 DEF OrderInv
<1>6. ASSUME NEW v \in tasks', NEW w \in tasks', v.chat = w.chat
      PROVE  /\ v.cancelled = w.cancelled
             /\ w.id < v.id =>
                  /\ v.at = "waiting"
                  /\ v.cancelled \/ (w.id <= v.prev /\ v.prev \in IdsOf(v.chat))
  <2>1. PICK t \in tasks :
          /\ v.id = t.id /\ v.at = t.at /\ v.chat = t.chat /\ v.prev = t.prev
          /\ t \in ts => v.cancelled = TRUE
          /\ t \notin ts => v.cancelled = t.cancelled
    BY <1>2
  <2>2. PICK u \in tasks :
          /\ w.id = u.id /\ w.chat = u.chat
          /\ u \in ts => w.cancelled = TRUE
          /\ u \notin ts => w.cancelled = u.cancelled
    BY <1>2
  <2>3. t \in ts <=> u \in ts
    BY <1>6, <2>1, <2>2
  <2> QED BY <1>6, <2>1, <2>2, <2>3 DEF OrderInv
<1> QED BY <1>4, <1>5, <1>6 DEF OrderInv

----------------------------------------------------------------------------
(* Channels and their tasks                                                *)

\* Every task is one that was there, in another stage at most.
Older ==
  \A v \in tasks' : \E w \in tasks :
    w.id = v.id /\ w.chat = v.chat /\ w.inst = v.inst /\ w.cancelled = v.cancelled

LEMMA ChannelSame ==
  ASSUME ChannelInv, Older, UNCHANGED <<chan, live, stopping, ops, on>>,
         on \/ hand' = None
  PROVE  ChannelInv'
<1>1. \A c : \A v \in Of(c)' : \E w \in Of(c) : w.id = v.id
  BY DEF Older, Of
<1>2. \A v \in tasks' : v.cancelled => ~on \/ ChannelOf[v.chat] \in stopping
  BY DEF ChannelInv, Older
<1>3. \A v \in tasks' : v.inst = chan[ChannelOf[v.chat]] /\ v.inst # 0
  BY DEF ChannelInv, Older
<1>4. \A o \in ops :
        /\ o.at = "cancel" => \A v \in Of(o.chan)' : v.id \in o.wait
        /\ o.at = "stop" => Of(o.chan)' = {}
  BY <1>1 DEF ChannelInv
<1>5. \A c : Of(c)' # {} => Of(c) # {}
  BY <1>1
<1> QED BY <1>2, <1>3, <1>4, <1>5 DEF ChannelInv

LEMMA EnqueueOrder ==
  ASSUME FullInv, NEW x, x.chat \in Chats, x.inst # 0, Enqueue(x), on,
         UNCHANGED <<chan, live, stopping, ops, on>>
  PROVE  OrderInv' /\ ChannelInv'
<1>0. TaskInv /\ OrderInv /\ ChannelInv
  BY DEF FullInv, IInv
<1>1. CASE ~Accepts(x)
  <2>1. UNCHANGED <<tasks, tails>>
    BY <1>1 DEF Enqueue
  <2>2. OrderInv'
    BY <1>0, <2>1 DEF OrderInv, IdsOf
  <2> QED BY <1>0, <2>1, <2>2, ChannelSame DEF Older
<1>2. CASE Accepts(x)
  <2> DEFINE c == ChannelOf[x.chat]
             u == [id |-> last', chat |-> x.chat, msg |-> x.msg, parts |-> x.parts,
                   inst |-> x.inst, prev |-> Previous(x.chat), at |-> "waiting",
                   tries |-> 0, cancelled |-> FALSE]
  <2>1. /\ tasks' = tasks \cup {u} /\ last' = last + 1
        /\ tails' = [tails EXCEPT ![x.chat] = last + 1]
        /\ c \notin stopping /\ chan[c] = x.inst
    BY <1>2 DEF Enqueue, Accepts
  <2>2. Adds(u) /\ u.at = "waiting" /\ u.cancelled = FALSE /\ u.prev = tails[u.chat]
        /\ u.chat = x.chat /\ u.inst = x.inst
    BY <2>1 DEF Adds, IsTask, Previous
  <2> HIDE DEF u
  <2>3. \A t \in tasks : t.chat = u.chat => ~t.cancelled
    BY <1>0, <2>1, <2>2 DEF ChannelInv
  <2>4. OrderInv'
    BY <1>0, <2>1, <2>2, <2>3, OrderAdd
  <2>5. \A d : d # c => Of(d)' = Of(d)
    BY <2>1, <2>2 DEF Of
  <2>6. \A o \in ops : o.chan # c
    BY <1>0, <2>1 DEF ChannelInv
  <2>7. \A t \in tasks' : /\ t.cancelled => ~on \/ ChannelOf[t.chat] \in stopping
                          /\ t.inst = chan[ChannelOf[t.chat]] /\ t.inst # 0
    BY <1>0, <2>1, <2>2 DEF ChannelInv
  <2>8. ChannelInv'
    BY <1>0, <2>5, <2>6, <2>7 DEF ChannelInv
  <2> QED BY <2>4, <2>8
<1> QED BY <1>1, <1>2

LEMMA SameFull ==
  ASSUME FullInv, UNCHANGED <<tasks, tails, chan, live, stopping, ops, on>>, on \/ hand' = None
  PROVE  OrderInv' /\ ChannelInv'
<1>1. OrderInv'
  BY DEF FullInv, OrderInv, IdsOf
<1> QED BY <1>1, ChannelSame DEF FullInv, Older

LEMMA TaskOrder == FullInv /\ TaskStep => OrderInv' /\ ChannelInv'
<1> SUFFICES ASSUME FullInv, TaskStep PROVE OrderInv' /\ ChannelInv'
  OBVIOUS
<1>0. TaskInv /\ OrderInv /\ ChannelInv
  BY DEF FullInv, IInv
<1>1. PICK t \in tasks : (\E u : Starts(t, u) \/ Stays(t, u)) \/ Leaves(t)
  BY <1>0, TaskEffect
<1>2. UNCHANGED <<chan, live, stopping, ops, on>>
  BY DEF TaskStep, Begin, SendOk, SendFails, Retry, Unwind, channels
<1>3. hand' = hand /\ (on \/ hand' = None)
  BY <1>0, <1>1 DEF Starts, Stays, Leaves, Advances, ChannelInv
<1>4. CASE \E u : Starts(t, u)
  <2>1. PICK u : Starts(t, u)
    BY <1>4
  <2>2. Changes(t, u) /\ tails' = tails
    BY <2>1 DEF Starts, Advances
  <2>3. ~ \E w \in tasks : w.chat = t.chat /\ w.id < t.id
    BY <1>0, <2>1 DEF Starts, OrderInv, IdsOf, Ids
  <2>4. Older
    BY <1>0, <2>2, Origin DEF Older
  <2> QED BY <1>0, <1>2, <1>3, <2>2, <2>3, <2>4, OrderChange, ChannelSame
<1>5. CASE \E u : Stays(t, u)
  <2>1. PICK u : Stays(t, u)
    BY <1>5
  <2>2. Changes(t, u) /\ tails' = tails /\ t.at # "waiting"
    BY <2>1 DEF Stays, Advances
  <2>3. Older
    BY <1>0, <2>2, Origin DEF Older
  <2> QED BY <1>0, <1>2, <1>3, <2>2, <2>3, OrderChange, ChannelSame
<1>6. CASE Leaves(t)
  <2>1. Ends(t) /\ (t.cancelled \/ t.at = "sending")
        /\ tails' = [tails EXCEPT ![t.chat] = IF @ = t.id THEN 0 ELSE @]
    BY <1>6 DEF Leaves, Finish
  <2>2. Older
    BY <2>1 DEF Older, Ends
  <2> QED BY <1>0, <1>2, <1>3, <2>1, <2>2, OrderEnd, ChannelSame
<1> QED BY <1>1, <1>4, <1>5, <1>6

LEMMA DispatchOrder ==
  ASSUME FullInv, (\E c \in Chats : Publish(c)) \/ Take \/ Grant
  PROVE  OrderInv' /\ ChannelInv'
<1>0. UNCHANGED <<chan, live, stopping, ops, on>>
  BY DEF Publish, Take, Grant, channels
<1>1. CASE \E c \in Chats : Publish(c)
  <2>1. UNCHANGED <<tasks, tails, hand>>
    BY <1>1 DEF Publish
  <2> QED BY <1>0, <2>1, SameFull DEF FullInv, ChannelInv
<1>2. CASE Take
  <2> DEFINE q == held \o bus
             x == Head(q)
             b == Tail(q)
             y == IF x.msg.kind = "delta" THEN Coalesced(x, b) ELSE x
             z == [chat |-> x.chat, msg |-> y.msg, parts |-> y.parts,
                   inst |-> chan[ChannelOf[x.chat]]]
  <2>1. /\ on /\ q # <<>>
        /\ \/ UNCHANGED <<tasks, tails>>
           \/ z.inst # 0 /\ Enqueue(z)
    BY <1>2 DEF Take
  <2>2. IsPacket(x)
    <3>1. IsSeq(q) /\ \A e \in ToSet(q) : IsPacket(e)
      BY ConcatIsSeq DEF FullInv, IInv, InputInv
    <3> QED BY <2>1, <3>1, TailIsSeq
  <2>3. z.chat \in Chats
    BY <2>2 DEF IsPacket
  <2> HIDE DEF z
  <2> QED BY <1>0, <2>1, <2>3, SameFull, EnqueueOrder
<1>3. CASE Grant
  <2>1. hand # None /\ Enqueue(hand) /\ hand.chat \in Chats /\ hand.inst # 0 /\ on
    BY <1>3 DEF Grant, FullInv, IInv, InputInv, ChannelInv
  <2> QED BY <1>0, <2>1, EnqueueOrder
<1> QED BY <1>1, <1>2, <1>3

\* An action starts a channel at once or cancels the sends of the one it stops.
LEMMA FeatureActionOrder ==
  ASSUME FullInv, ~Overlap, NEW c \in Channels, NEW action, FeatureAction(c, action)
  PROVE  OrderInv' /\ ChannelInv'
<1>0. TaskInv /\ OrderInv /\ ChannelInv
  BY DEF FullInv, IInv
<1>1. /\ on /\ on' = on /\ hand' = hand /\ tails' = tails /\ ops = {} /\ last' = last
  BY DEF FeatureAction
<1>2. CASE chan[c] = 0
  <2>1. /\ chan' = [chan EXCEPT ![c] = born'[c]]
        /\ live' = live \cup {<<c, born'[c]>>} /\ UNCHANGED <<tasks, stopping, ops>>
    BY <1>2 DEF FeatureAction
  <2>2. \A t \in tasks : ChannelOf[t.chat] # c
    BY <1>0, <1>2 DEF ChannelInv
  <2>3. OrderInv'
    BY <1>0, <1>1, <2>1 DEF OrderInv, IdsOf
  <2>4. /\ chan' = [d \in Channels |-> chan'[d]]
        /\ chan'[c] = born'[c] /\ \A d \in Channels \ {c} : chan'[d] = chan[d]
    BY <1>0, <2>1 DEF ChannelInv
  <2>5. \A t \in tasks : t.inst = chan'[ChannelOf[t.chat]]
    <3> SUFFICES ASSUME NEW t \in tasks PROVE t.inst = chan'[ChannelOf[t.chat]]
      OBVIOUS
    <3>1. ChannelOf[t.chat] \in Channels \ {c}
      BY <1>0, <2>2, OutboundAssumption DEF TaskInv, IsTask
    <3> QED BY <1>0, <2>4, <3>1 DEF ChannelInv
  <2>6. \A d \in Channels : chan'[d] # 0 => <<d, chan'[d]>> \in live'
    BY <1>0, <1>1, <2>1, <2>4 DEF ChannelInv
  <2>7. ChannelInv'
    BY <1>0, <1>1, <2>1, <2>4, <2>5, <2>6 DEF ChannelInv
  <2> QED BY <2>3, <2>7
<1>3. CASE chan[c] # 0
  <2> DEFINE o == [n |-> acts', chan |-> c, action |-> action, at |-> "cancel",
                   wait |-> {t.id : t \in Of(c)}, inst |-> 0]
  <2>1. /\ stopping' = stopping \cup {c} /\ Cancel(Of(c)) /\ ops' = {o}
        /\ UNCHANGED <<chan, live>>
    BY <1>1, <1>3 DEF FeatureAction
  <2>2. IsOp(o) /\ o.chan = c /\ o.at = "cancel" /\ o.wait = {t.id : t \in Of(c)}
    BY DEF IsOp
  <2> HIDE DEF o
  <2>3. Cancels(Of(c))
    BY <1>1, <2>1 DEF Cancels, Of
  <2>4. OrderInv'
    <3>1. \A t, u \in tasks : t.chat = u.chat /\ t \in Of(c) => u \in Of(c)
      BY DEF Of
    <3> QED BY <1>0, <1>1, <2>3, <3>1, OrderCancel
  <2>5. \A v \in tasks' : \E t \in tasks :
          /\ v.id = t.id /\ v.chat = t.chat /\ v.inst = t.inst
          /\ t \notin Of(c) => v.cancelled = t.cancelled
    BY <1>0, <2>3, CancelOrigin
  <2>6. \A v \in tasks' : v.cancelled => ChannelOf[v.chat] \in stopping'
    BY <1>0, <1>1, <2>1, <2>5 DEF ChannelInv, Of
  <2>7. \A v \in tasks' : v.inst = chan[ChannelOf[v.chat]] /\ v.inst # 0
    BY <1>0, <2>5 DEF ChannelInv
  <2>8. \A v \in Of(c)' : v.id \in o.wait
    BY <2>2, <2>5 DEF Of
  <2>9. ChannelInv'
    BY <1>0, <1>1, <2>1, <2>2, <2>6, <2>7, <2>8 DEF ChannelInv
  <2> QED BY <2>4, <2>9
<1> QED BY <1>2, <1>3

\* An action that goes on to stop its instance.
LEMMA StoppedOp ==
  ASSUME NEW o, IsOp(o), NEW i
  PROVE  LET p == [o EXCEPT !.at = "stop", !.inst = i] IN
         IsOp(p) /\ p.chan = o.chan /\ p.at = "stop" /\ p.inst = i
<1>1. PICK n, c, a, t, w, j :
        o = [n |-> n, chan |-> c, action |-> a, at |-> t, wait |-> w, inst |-> j]
  BY DEF IsOp
<1>2. [o EXCEPT !.at = "stop", !.inst = i] =
        [n |-> n, chan |-> c, action |-> a, at |-> "stop", wait |-> w, inst |-> i]
  <2> DEFINE s == "stop"
             p == [o EXCEPT !.at = s]
  <2>1. p = [n |-> n, chan |-> c, action |-> a, at |-> s, wait |-> w, inst |-> j]
    <3> HIDE DEF s
    <3> QED BY <1>1
  <2>2. [o EXCEPT !.at = "stop", !.inst = i] = [p EXCEPT !.inst = i]
    BY <1>1
  <2> HIDE DEF p
  <2>3. [p EXCEPT !.inst = i] =
          [n |-> n, chan |-> c, action |-> a, at |-> s, wait |-> w, inst |-> i]
    BY <2>1
  <2> QED BY <2>2, <2>3
<1> QED BY <1>1, <1>2 DEF IsOp

\* The sends an action waited for are gone, and no new ones were taken.
LEMMA StopRuntimeOrder ==
  ASSUME FullInv, NEW o \in ops, StopRuntime(o)
  PROVE  OrderInv' /\ ChannelInv'
<1> DEFINE p == [o EXCEPT !.at = "stop", !.inst = chan[o.chan]]
<1>1. /\ ops = {o} /\ IsOp(o) /\ o.at = "cancel" /\ o.wait \cap Ids = {} /\ ops' = {p}
      /\ UNCHANGED <<tasks, tails, chan, live, stopping, on, hand>>
  <2>1. ops = {o} /\ IsOp(o)
    BY DEF FullInv, ChannelInv
  <2> QED BY <2>1 DEF StopRuntime, Quiet
<1>2. Of(o.chan) = {}
  <2>1. \A t \in Of(o.chan) : t.id \in o.wait
    BY <1>1 DEF FullInv, ChannelInv
  <2>2. \A t \in Of(o.chan) : t.id \in Ids
    BY DEF Of, Ids
  <2> QED BY <1>1, <2>1, <2>2
<1>3. IsOp(p) /\ p.chan = o.chan /\ p.at = "stop" /\ p.inst = chan[o.chan]
  BY <1>1, StoppedOp
<1> HIDE DEF p
<1>4. OrderInv'
  BY <1>1 DEF FullInv, OrderInv, IdsOf
<1>5. \A c : Of(c)' = Of(c)
  BY <1>1 DEF Of
<1> QED BY <1>1, <1>2, <1>3, <1>4, <1>5 DEF FullInv, ChannelInv

\* An instance is replaced when no task sends on it.
LEMMA FinishActionOrder ==
  ASSUME FullInv, NEW o \in ops, FinishAction(o)
  PROVE  OrderInv' /\ ChannelInv'
<1> DEFINE c == o.chan
<1>0. TaskInv /\ OrderInv /\ ChannelInv
  BY DEF FullInv, IInv
<1>1. /\ ops' = {} /\ c \in Channels /\ Of(c) = {} /\ o.inst = chan[c]
      /\ stopping' = stopping \ {c} /\ UNCHANGED <<tasks, tails, on, hand>>
  BY <1>0 DEF FinishAction, ChannelInv
<1>2. OrderInv'
  BY <1>0, <1>1 DEF OrderInv, IdsOf
<1>3. \A t \in tasks : ChannelOf[t.chat] # c
  BY <1>1 DEF Of
<1>4. /\ chan' = [d \in Channels |-> chan'[d]]
      /\ \A d \in Channels \ {c} : chan'[d] = chan[d]
      /\ \A d \in Channels \ {c} : <<d, chan[d]>> \in live => <<d, chan[d]>> \in live'
      /\ on /\ chan'[c] # 0 => <<c, chan'[c]>> \in live'
  BY <1>0, <1>1 DEF ChannelInv, FinishAction
<1>5. \A t \in tasks : t.inst = chan'[ChannelOf[t.chat]]
  <2> SUFFICES ASSUME NEW t \in tasks PROVE t.inst = chan'[ChannelOf[t.chat]]
    OBVIOUS
  <2>1. ChannelOf[t.chat] \in Channels \ {c}
    BY <1>0, <1>3, OutboundAssumption DEF TaskInv, IsTask
  <2> QED BY <1>0, <1>4, <2>1 DEF ChannelInv
<1>6. \A t \in tasks : t.cancelled => ~on \/ ChannelOf[t.chat] \in stopping'
  BY <1>0, <1>1, <1>3 DEF ChannelInv
<1>7. \A d \in Channels : chan'[d] # 0 /\ (on \/ Of(d) # {}) => <<d, chan'[d]>> \in live'
  BY <1>0, <1>1, <1>4 DEF ChannelInv
<1>8. \A d : Of(d)' = Of(d)
  BY <1>1 DEF Of
<1>9. ChannelInv'
  BY <1>0, <1>1, <1>4, <1>5, <1>6, <1>7, <1>8 DEF ChannelInv
<1> QED BY <1>2, <1>9

LEMMA StopOrder ==
  ASSUME FullInv, StopDispatcher \/ StopChannels
  PROVE  OrderInv' /\ ChannelInv'
<1>0. TaskInv /\ OrderInv /\ ChannelInv
  BY DEF FullInv, IInv
<1>1. CASE StopDispatcher
  <2>1. /\ ~on' /\ hand' = None /\ Cancels(tasks)
        /\ UNCHANGED <<tails, chan, live, stopping, ops>>
    BY <1>1 DEF StopDispatcher, Cancels
  <2>2. OrderInv'
    BY <1>0, <2>1, OrderCancel
  <2>3. \A v \in tasks' : \E t \in tasks :
          v.id = t.id /\ v.chat = t.chat /\ v.inst = t.inst
    BY <1>0, <2>1, CancelOrigin
  <2>4. \A c : \A v \in Of(c)' : \E w \in Of(c) : w.id = v.id
    BY <2>3 DEF Of
  <2>5. \A v \in tasks' : v.inst = chan[ChannelOf[v.chat]] /\ v.inst # 0
    BY <1>0, <2>3 DEF ChannelInv
  <2>6. \A o \in ops :
          /\ o.at = "cancel" => \A v \in Of(o.chan)' : v.id \in o.wait
          /\ o.at = "stop" => Of(o.chan)' = {}
    BY <1>0, <2>4 DEF ChannelInv
  <2>7. \A c : Of(c)' # {} => Of(c) # {}
    BY <2>4
  <2>8. ChannelInv'
    BY <1>0, <2>1, <2>5, <2>6, <2>7 DEF ChannelInv
  <2> QED BY <2>2, <2>8
<1>2. CASE StopChannels
  <2>1. ~on /\ tasks = {} /\ UNCHANGED <<tasks, tails, chan, stopping, ops, on, hand>>
    BY <1>2 DEF StopChannels
  <2>2. OrderInv'
    BY <1>0, <2>1 DEF OrderInv, IdsOf
  <2>3. \A c : Of(c)' = {} /\ Of(c) = {}
    BY <2>1 DEF Of
  <2> QED BY <1>0, <2>1, <2>2, <2>3 DEF ChannelInv
<1> QED BY <1>1, <1>2

----------------------------------------------------------------------------
(* The theorems about sends                                                *)

LEMMA InitFull == Init => FullInv
<1> SUFFICES ASSUME Init PROVE FullInv
  OBVIOUS
<1>1. OrderInv
  BY DEF Init, OrderInv
<1>2. /\ chan = [c \in Channels |-> IF c \in Disabled THEN 0 ELSE 1]
      /\ live = (Channels \ Disabled) \X {1} /\ tasks = {} /\ ops = {} /\ hand = None
  BY DEF Init
<1>3. \A c \in Channels : chan[c] # 0 => <<c, chan[c]>> \in live
  BY <1>2
<1>4. chan = [c \in Channels |-> chan[c]]
  BY <1>2
<1>5. ChannelInv
  BY <1>2, <1>3, <1>4 DEF ChannelInv
<1> QED BY <1>1, <1>5, InitOK DEF FullInv

LEMMA NextFull == ~Overlap /\ FullInv /\ [Next]_vars => FullInv'
<1> SUFFICES ASSUME ~Overlap, FullInv, [Next]_vars PROVE FullInv'
  OBVIOUS
<1>1. IInv'
  BY NextOK DEF FullInv
<1>2. CASE UNCHANGED vars
  <2>1. UNCHANGED <<tasks, tails, chan, live, stopping, ops, on, hand>>
    BY <1>2 DEF vars
  <2> QED BY <1>1, <2>1, SameFull DEF FullInv, ChannelInv
<1>3. CASE Next
  <2>1. OrderInv' /\ ChannelInv'
    BY <1>3, DispatchOrder, TaskOrder, FeatureActionOrder, StopRuntimeOrder,
       FinishActionOrder, StopOrder DEF Next, ActionStep
  <2> QED BY <1>1, <2>1 DEF FullInv
<1> QED BY <1>2, <1>3

\* While feature actions come one after the other, one message of a chat at
\* most is being sent or waits to be sent again (_outbound_tails).
THEOREM ChatInOrder == ASSUME ~Overlap PROVE Spec => []OneSendPerChat
<1>1. FullInv => OneSendPerChat
  <2> SUFFICES ASSUME FullInv, NEW t \in tasks, NEW u \in tasks,
                      t.chat = u.chat, t.at # "waiting", u.at # "waiting"
               PROVE  t = u
    BY DEF OneSendPerChat
  <2>1. t.id \in Nat /\ u.id \in Nat /\ (t.id = u.id => t = u)
    BY DEF FullInv, IInv, TaskInv
  <2>2. ~ (t.id < u.id) /\ ~ (u.id < t.id)
    BY DEF FullInv, OrderInv
  <2> QED BY <2>1, <2>2
<1>2. FullInv /\ [Next]_vars => FullInv'
  BY NextFull
<1> QED BY <1>1, <1>2, InitFull, PTL DEF Spec

\* While feature actions come one after the other, a send uses the instance of
\* its channel that is registered and runs (_stop_channel).
THEOREM LiveInstance == ASSUME ~Overlap PROVE Spec => []SendsOnLiveChannel
<1>1. FullInv => SendsOnLiveChannel
  <2> SUFFICES ASSUME FullInv, NEW t \in tasks
               PROVE  LET c == ChannelOf[t.chat] IN t.inst = chan[c] /\ <<c, t.inst>> \in live
    BY DEF SendsOnLiveChannel
  <2> DEFINE c == ChannelOf[t.chat]
  <2>1. c \in Channels
    BY OutboundAssumption DEF FullInv, IInv, TaskInv, IsTask
  <2>2. t \in Of(c)
    BY DEF Of
  <2> QED BY <2>1, <2>2 DEF FullInv, ChannelInv
<1>2. FullInv /\ [Next]_vars => FullInv'
  BY NextFull
<1> QED BY <1>1, <1>2, InitFull, PTL DEF Spec

----------------------------------------------------------------------------
(* What is on the bus                                                       *)

Packets == [chat : Chats, msg : Msg, parts : Seq(Nat)]
No(x)   == x.parts[1]

\* x was published, and nothing has been joined to it; n counts the messages
\* published for each chat.
Single(x, n) ==
  /\ x \in Packets /\ Len(x.parts) = 1
  /\ No(x) \in 1 .. n[x.chat] /\ x.msg = Script[x.chat][No(x)]

\* The messages of a chat are in order, with none missing behind any of them.
Rising(q) ==
  \A i, j \in DOMAIN q : i < j /\ q[i].chat = q[j].chat => No(q[i]) < No(q[j])
UpTo(q, n) ==
  \A i \in DOMAIN q : No(q[i]) < n[q[i].chat] =>
    \E j \in DOMAIN q : i < j /\ q[j].chat = q[i].chat /\ No(q[j]) = No(q[i]) + 1

Numbered(q, n) ==
  /\ q \in Seq(Packets) /\ (\A i \in DOMAIN q : Single(q[i], n))
  /\ Rising(q) /\ UpTo(q, n)

Counts(n) == n \in [Chats -> Nat] /\ \A c \in Chats : n[c] <= Len(Script[c])

\* Publishing appends the next message of a chat.
LEMMA AppendNumbered ==
  ASSUME NEW q, NEW n, Counts(n), Numbered(q, n), NEW c \in Chats, n[c] < Len(Script[c])
  PROVE  LET m == [n EXCEPT ![c] = @ + 1]
             x == [chat |-> c, msg |-> Script[c][m[c]], parts |-> <<m[c]>>] IN
         Counts(m) /\ Numbered(Append(q, x), m)
<1> DEFINE m == [n EXCEPT ![c] = @ + 1]
           x == [chat |-> c, msg |-> Script[c][m[c]], parts |-> <<m[c]>>]
           r == Append(q, x)
<1>1. /\ n \in [Chats -> Nat] /\ m \in [Chats -> Nat] /\ m[c] = n[c] + 1
      /\ \A d \in Chats \ {c} : m[d] = n[d]
  BY DEF Counts
<1>2. Counts(m)
  <2>1. Len(Script[c]) \in Nat
    BY OutboundAssumption
  <2> QED BY <1>1, <2>1 DEF Counts
<1>3. m[c] \in 1 .. Len(Script[c]) /\ Script[c] \in Seq(Msg)
  BY <1>1, OutboundAssumption
<1> HIDE DEF m
<1>4. /\ x.chat = c /\ x.msg = Script[c][m[c]] /\ x.parts = <<m[c]>> /\ No(x) = m[c]
      /\ Single(x, m)
  BY <1>1, <1>3 DEF Single, Packets, No
<1>5. /\ q \in Seq(Packets) /\ Len(q) \in Nat /\ DOMAIN q = 1 .. Len(q)
      /\ \A i \in DOMAIN q : Single(q[i], n)
  BY DEF Numbered
<1> HIDE DEF x
<1>6. /\ r \in Seq(Packets) /\ DOMAIN r = 1 .. Len(q) + 1 /\ r[Len(q) + 1] = x
      /\ \A i \in DOMAIN q : r[i] = q[i]
  BY <1>4, <1>5 DEF Single
<1> HIDE DEF r
<1>7. \A i \in DOMAIN q : q[i].chat \in Chats /\ No(q[i]) \in Nat /\ No(q[i]) <= n[q[i].chat]
  BY <1>1, <1>5 DEF Single, Packets
<1>8. \A i \in DOMAIN r : Single(r[i], m)
  <2>1. \A i \in DOMAIN q : Single(q[i], m)
    BY <1>1, <1>5, <1>7 DEF Single
  <2> QED BY <1>4, <1>5, <1>6, <2>1
<1>9. Rising(r)
  <2> SUFFICES ASSUME NEW i \in DOMAIN r, NEW j \in DOMAIN r, i < j, r[i].chat = r[j].chat
               PROVE  No(r[i]) < No(r[j])
    BY DEF Rising
  <2>1. i \in DOMAIN q /\ r[i] = q[i]
    BY <1>5, <1>6
  <2>2. CASE j \in DOMAIN q
    BY <1>6, <2>1, <2>2 DEF Numbered, Rising
  <2>3. CASE j = Len(q) + 1
    BY <1>1, <1>4, <1>6, <1>7, <2>1, <2>3
  <2> QED BY <1>5, <1>6, <2>2, <2>3
<1>10. UpTo(r, m)
  <2> SUFFICES ASSUME NEW i \in DOMAIN r, No(r[i]) < m[r[i].chat]
               PROVE  \E j \in DOMAIN r : i < j /\ r[j].chat = r[i].chat /\ No(r[j]) = No(r[i]) + 1
    BY DEF UpTo
  <2>1. i \in DOMAIN q /\ r[i] = q[i] /\ Len(q) + 1 \in DOMAIN r /\ i < Len(q) + 1
    BY <1>1, <1>4, <1>5, <1>6
  <2>2. CASE No(q[i]) < n[q[i].chat]
    <3>1. PICK j \in DOMAIN q : i < j /\ q[j].chat = q[i].chat /\ No(q[j]) = No(q[i]) + 1
      BY <2>1, <2>2 DEF Numbered, UpTo
    <3> QED BY <1>5, <1>6, <2>1, <3>1
  <2>3. CASE No(q[i]) = n[q[i].chat]
    <3>1. q[i].chat = c
      BY <1>1, <1>7, <2>1, <2>3
    <3> QED BY <1>1, <1>4, <1>6, <2>1, <2>3, <3>1
  <2>4. n[q[i].chat] \in Nat
    BY <1>1, <1>7, <2>1
  <2> QED BY <1>7, <2>1, <2>2, <2>3, <2>4
<1> QED BY <1>2, <1>6, <1>8, <1>9, <1>10 DEF Numbered, m, x, r

\* Taking messages from the front leaves the others numbered.
LEMMA RestNumbered ==
  ASSUME NEW q, NEW n, Numbered(q, n), NEW k \in 0 .. Len(q)
  PROVE  /\ Numbered(SubSeq(q, k + 1, Len(q)), n)
         /\ \A i \in DOMAIN SubSeq(q, k + 1, Len(q)) :
              i + k \in DOMAIN q /\ SubSeq(q, k + 1, Len(q))[i] = q[i + k]
<1> DEFINE r == SubSeq(q, k + 1, Len(q))
<1>1. q \in Seq(Packets) /\ Len(q) \in Nat /\ DOMAIN q = 1 .. Len(q) /\ k \in Nat
  BY DEF Numbered
<1>2. /\ r \in Seq(Packets) /\ DOMAIN r = 1 .. Len(q) - k
      /\ \A i \in DOMAIN r : i + k \in DOMAIN q /\ r[i] = q[i + k]
  BY <1>1
<1> HIDE DEF r
<1>3. \A i \in DOMAIN r : Single(r[i], n)
  BY <1>2 DEF Numbered
<1>4. Rising(r)
  BY <1>1, <1>2 DEF Numbered, Rising
<1>5. UpTo(r, n)
  <2> SUFFICES ASSUME NEW i \in DOMAIN r, No(r[i]) < n[r[i].chat]
               PROVE  \E j \in DOMAIN r : i < j /\ r[j].chat = r[i].chat /\ No(r[j]) = No(r[i]) + 1
    BY DEF UpTo
  <2>1. PICK j \in DOMAIN q : i + k < j /\ q[j].chat = r[i].chat /\ No(q[j]) = No(r[i]) + 1
    BY <1>2 DEF Numbered, UpTo
  <2>2. j - k \in DOMAIN r /\ r[j - k] = q[j] /\ i < j - k
    BY <1>1, <1>2, <2>1
  <2> QED BY <2>1, <2>2
<1> QED BY <1>2, <1>3, <1>4, <1>5 DEF Numbered, r

\* Messages of a chat next to each other on the bus were published so.
LEMMA NeighboursFollow ==
  ASSUME NEW q, NEW n, Counts(n), Numbered(q, n), NEW i \in DOMAIN q, i + 1 \in DOMAIN q,
         q[i].chat = q[i + 1].chat
  PROVE  No(q[i + 1]) = No(q[i]) + 1
<1>1. /\ i \in Nat /\ No(q[i]) \in Nat /\ No(q[i + 1]) \in Nat /\ n[q[i].chat] \in Nat
      /\ No(q[i + 1]) <= n[q[i].chat]
  BY DEF Numbered, Single, Packets, Counts
<1>2. No(q[i]) < No(q[i + 1])
  BY <1>1 DEF Numbered, Rising
<1>3. PICK j \in DOMAIN q : i < j /\ q[j].chat = q[i].chat /\ No(q[j]) = No(q[i]) + 1
  BY <1>1, <1>2 DEF Numbered, UpTo
<1>4. j \in Nat
  BY DEF Numbered
<1>5. ~ (i + 1 < j)
  <2> SUFFICES ASSUME i + 1 < j PROVE FALSE
    OBVIOUS
  <2>1. No(q[i + 1]) < No(q[j])
    BY <1>3 DEF Numbered, Rising
  <2> QED BY <1>1, <1>2, <1>3, <2>1
<1> QED BY <1>1, <1>3, <1>4, <1>5

----------------------------------------------------------------------------
(* What is joined                                                           *)

\* A sequence that goes up by one from place to place.
LEMMA Steady ==
  ASSUME NEW n \in Nat, NEW f, \A i \in 1 .. n : f[i] \in Nat,
         \A i \in 1 .. n : i < n => f[i + 1] = f[i] + 1
  PROVE  \A i \in 1 .. n : f[i] = f[1] + i - 1
<1> DEFINE S == {i \in 1 .. n : \A j \in 1 .. i : f[j] = f[1] + j - 1}
<1>1. CASE n = 0
  BY <1>1
<1>2. CASE n # 0
  <2>1. 1 \in S
    BY <1>2
  <2>2. S \subseteq 0 .. n /\ S # {}
    <3>1. S \subseteq 1 .. n /\ 1 .. n \subseteq 0 .. n
      OBVIOUS
    <3> HIDE DEF S
    <3> QED BY <2>1, <3>1
  <2>3. PICK m \in S : \A i \in S : m >= i
    <3> HIDE DEF S
    <3> QED BY <2>2, LargestMember
  <2>4. m = n
    <3> SUFFICES ASSUME m < n PROVE FALSE
      BY <2>2
    <3>1. m \in 1 .. n /\ m + 1 \in 1 .. n /\ f[m + 1] = f[m] + 1 /\ f[m] = f[1] + m - 1
      OBVIOUS
    <3>2. m + 1 \in S
      BY <3>1
    <3> QED BY <2>3, <3>1, <3>2
  <2> QED BY <2>4
<1> QED BY <1>1, <1>2

\* Parts published one after the other for one stream of chat c; n counts what
\* was published.
Piece(c, g, n) ==
  /\ g \in Seq(Nat) /\ Len(g) > 0
  /\ \A i \in 1 .. Len(g) : /\ g[i] = g[1] + i - 1 /\ g[i] \in 1 .. n[c]
                            /\ Script[c][g[i]].stream = Script[c][g[1]].stream

\* z stands for the first k messages of q, all of one stream.
Joins(z, q, k, n) ==
  /\ k \in 1 .. Len(q) /\ z.chat \in Chats /\ z.msg \in Msg /\ Piece(z.chat, z.parts, n)
  /\ ToSet(z.parts) = {No(q[i]) : i \in 1 .. k}
  /\ \A i \in 1 .. k : q[i].chat = z.chat
  /\ z.msg.kind \in {"text", "muted"} => z.msg = Script[z.chat][z.parts[1]] /\ z.parts = <<z.parts[1]>>

LEMMA JoinedRun ==
  ASSUME NEW x, NEW b, IsSeq(b)
  PROVE  /\ Joined(x, b) \in 0 .. Len(b)
         /\ \A i \in 1 .. Joined(x, b) : SameStream(x, b[i])
<1> DEFINE P(k) == \A i \in 1 .. k :
                     /\ SameStream(x, b[i]) /\ b[i].msg.kind # "bare"
                     /\ i < k => b[i].msg.kind = "delta"
           S == {k \in 0 .. Len(b) : P(k)}
<1>1. Len(b) \in Nat
  BY DEF IsSeq
<1>2. 0 \in S
  BY <1>1
<1>3. Joined(x, b) = Max(S)
  BY DEF Joined
<1>4. S \subseteq 0 .. Len(b)
  OBVIOUS
<1>5. Max(S) \in S
  <2> HIDE DEF S
  <2> QED BY <1>1, <1>2, <1>4, LargestMember DEF Max
<1> QED BY <1>3, <1>5

\* The fields of a joined message.
Numbers(b, k)      == [i \in 1 .. k |-> No(b[i])]
JoinedMsg(x, b, k) == [x.msg EXCEPT !.kind = IF k = 0 THEN @ ELSE b[k].msg.kind]

LEMMA CoalescedFields ==
  ASSUME NEW x \in Packets, NEW b, NEW k, k = Joined(x, b)
  PROVE  /\ Coalesced(x, b).chat = x.chat
         /\ Coalesced(x, b).parts = x.parts \o Numbers(b, k)
         /\ Coalesced(x, b).msg = JoinedMsg(x, b, k)
<1> DEFINE p == x.parts \o [i \in 1 .. k |-> b[i].parts[1]]
           m == [x.msg EXCEPT !.kind = IF k = 0 THEN @ ELSE b[k].msg.kind]
           y == [x EXCEPT !.parts = p]
<1>1. Coalesced(x, b) = [y EXCEPT !.msg = m]
  BY DEF Coalesced, Packets
<1> HIDE DEF p, m
<1>2. y.chat = x.chat /\ y.parts = p /\ y = [chat |-> x.chat, msg |-> x.msg, parts |-> p]
  BY DEF Packets
<1> HIDE DEF y
<1>3. [y EXCEPT !.msg = m].chat = x.chat /\ [y EXCEPT !.msg = m].parts = p
      /\ [y EXCEPT !.msg = m].msg = m
  BY <1>2
<1> QED BY <1>1, <1>3 DEF p, m, No, JoinedMsg, Numbers

\* A sequence behind a single element.
LEMMA BehindOne ==
  ASSUME NEW p \in Seq(Nat), Len(p) = 1, NEW r \in Seq(Nat)
  PROVE  /\ p \o r \in Seq(Nat) /\ Len(p \o r) = Len(r) + 1 /\ (p \o r)[1] = p[1]
         /\ \A i \in 1 .. Len(r) : (p \o r)[i + 1] = r[i]
<1> DEFINE s == p \o r
<1>0. /\ s \in Seq(Nat) /\ Len(s) = Len(p) + Len(r)
      /\ \A i \in 1 .. Len(p) + Len(r) : s[i] = IF i <= Len(p) THEN p[i] ELSE r[i - Len(p)]
  BY ConcatProperties, Zenon
<1> HIDE DEF s
<1>1. Len(r) \in Nat
  OBVIOUS
<1>2. s[1] = p[1]
  BY <1>0, <1>1
<1>3. ASSUME NEW i \in 1 .. Len(r) PROVE s[i + 1] = r[i]
  <2>1. i + 1 \in 1 .. Len(p) + Len(r) /\ ~(i + 1 <= Len(p)) /\ (i + 1) - Len(p) = i
    BY <1>1
  <2> QED BY <1>0, <2>1
<1>4. Len(s) = Len(r) + 1
  BY <1>0, <1>1
<1> QED BY <1>0, <1>2, <1>3, <1>4 DEF s

LEMMA HeadJoins ==
  ASSUME NEW q, NEW n, Counts(n), Numbered(q, n), q # <<>>
  PROVE  /\ Joins(Head(q), q, 1, n) /\ Head(q) \in Packets /\ Head(q) = q[1]
         /\ IsSeq(Tail(q)) /\ Len(Tail(q)) = Len(q) - 1
         /\ \A i \in 1 .. Len(q) - 1 : i + 1 \in DOMAIN q /\ Tail(q)[i] = q[i + 1]
<1>1. /\ q \in Seq(Packets) /\ Len(q) \in Nat \ {0} /\ DOMAIN q = 1 .. Len(q)
      /\ Head(q) = q[1] /\ Tail(q) \in Seq(Packets) /\ Len(Tail(q)) = Len(q) - 1
      /\ \A i \in 1 .. Len(q) - 1 : i + 1 \in DOMAIN q /\ Tail(q)[i] = q[i + 1]
  BY DEF Numbered
<1> DEFINE x == q[1]
<1>2. Single(x, n) /\ x \in Packets
  BY <1>1 DEF Numbered, Single
<1> HIDE DEF x
<1>3. /\ x.chat \in Chats /\ x.msg \in Msg /\ x.parts \in Seq(Nat) /\ Len(x.parts) = 1
      /\ x.parts[1] \in 1 .. n[x.chat] /\ x.msg = Script[x.chat][x.parts[1]]
  BY <1>2 DEF Single, Packets, No
<1>4. x.parts = <<x.parts[1]>> /\ ToSet(x.parts) = {x.parts[1]}
  BY <1>3 DEF ToSet
<1>5. Piece(x.chat, x.parts, n)
  BY <1>3 DEF Piece
<1>6. {No(q[i]) : i \in 1 .. 1} = {No(x)} /\ \A i \in 1 .. 1 : q[i].chat = x.chat
  <2>1. \A i \in 1 .. 1 : i = 1
    OBVIOUS
  <2> QED BY <2>1 DEF x
<1>7. 1 \in 1 .. Len(q)
  BY <1>1
<1>8. Joins(x, q, 1, n)
  BY <1>3, <1>4, <1>5, <1>6, <1>7 DEF Joins, No
<1> QED BY <1>1, <1>2, <1>8, OwnElements DEF x

\* The deltas that are joined are neighbours on the bus and of one stream.
LEMMA DeltaJoins ==
  ASSUME NEW q, NEW n, Counts(n), Numbered(q, n), q # <<>>, Head(q).msg.kind = "delta"
  PROVE  Joins(Coalesced(Head(q), Tail(q)), q, Joined(Head(q), Tail(q)) + 1, n)
<1> DEFINE x == Head(q)
           b == Tail(q)
           k == Joined(x, b)
           y == Coalesced(x, b)
<1>1. /\ x \in Packets /\ x = q[1] /\ IsSeq(b) /\ Len(b) = Len(q) - 1 /\ Len(q) \in Nat \ {0}
      /\ \A i \in 1 .. Len(q) - 1 : i + 1 \in DOMAIN q /\ b[i] = q[i + 1]
      /\ x.msg.kind = "delta" /\ DOMAIN q = 1 .. Len(q)
  BY HeadJoins DEF Numbered
<1>2. k \in 0 .. Len(b) /\ \A i \in 1 .. k : SameStream(x, b[i])
  BY <1>1, JoinedRun
<1>0. k = Joined(x, b) /\ y = Coalesced(x, b)
  OBVIOUS
<1> HIDE DEF x, b, k, y
<1>3. /\ y.chat = x.chat /\ y.parts = x.parts \o Numbers(b, k)
      /\ y.msg = JoinedMsg(x, b, k)
  <2>1. x \in Packets
    BY <1>1
  <2> QED BY <1>0, <2>1, CoalescedFields
<1>4. k + 1 \in 1 .. Len(q) /\ k \in Nat
  BY <1>1, <1>2
<1>5. \A i \in 1 .. k + 1 : /\ i \in DOMAIN q /\ q[i].chat = x.chat
                            /\ q[i].msg.stream = x.msg.stream
                            /\ i # 1 => q[i].msg.kind \in {"delta", "end", "bare"}
  <2> SUFFICES ASSUME NEW i \in 1 .. k + 1
               PROVE  /\ i \in DOMAIN q /\ q[i].chat = x.chat
                      /\ q[i].msg.stream = x.msg.stream
                      /\ i # 1 => q[i].msg.kind \in {"delta", "end", "bare"}
    OBVIOUS
  <2>1. CASE i = 1
    BY <1>1, <1>4, <2>1
  <2>2. CASE i # 1
    <3>1. i - 1 \in 1 .. k /\ i - 1 \in 1 .. Len(q) - 1 /\ (i - 1) + 1 = i
      BY <1>1, <1>2, <1>4, <2>2
    <3>2. b[i - 1] = q[i] /\ i \in DOMAIN q /\ SameStream(x, b[i - 1])
      BY <1>1, <1>2, <3>1
    <3> QED BY <3>2 DEF SameStream
  <2> QED BY <2>1, <2>2
<1>6. \A i \in 1 .. k + 1 : Single(q[i], n) /\ No(q[i]) \in Nat
  BY <1>5 DEF Numbered, Single
<1>7. \A i \in 1 .. k + 1 : No(q[i]) = No(q[1]) + i - 1
  <2> DEFINE f == [i \in 1 .. k + 1 |-> No(q[i])]
  <2>1. \A i \in 1 .. k + 1 : f[i] \in Nat
    BY <1>6
  <2>2. \A i \in 1 .. k + 1 : i < k + 1 => f[i + 1] = f[i] + 1
    <3> SUFFICES ASSUME NEW i \in 1 .. k + 1, i < k + 1 PROVE No(q[i + 1]) = No(q[i]) + 1
      BY <1>4
    <3>1. i + 1 \in 1 .. k + 1
      BY <1>4
    <3> QED BY <1>5, <3>1, NeighboursFollow
  <2>3. \A i \in 1 .. k + 1 : f[i] = f[1] + i - 1
    <3> HIDE DEF f
    <3>1. k + 1 \in Nat
      BY <1>4
    <3> QED BY <3>1, <2>1, <2>2, Steady
  <2> QED BY <1>4, <2>3
<1>8. /\ y.parts \in Seq(Nat) /\ Len(y.parts) = k + 1
      /\ \A i \in 1 .. k + 1 : y.parts[i] = No(q[i])
  <2> DEFINE r == [i \in 1 .. k |-> No(b[i])]
  <2>1. x.parts \in Seq(Nat) /\ Len(x.parts) = 1 /\ x.parts[1] = No(q[1])
    BY <1>1, <1>4, <1>6 DEF Single, Packets, No
  <2>2. \A i \in 1 .. k : b[i] = q[i + 1] /\ i + 1 \in 1 .. k + 1
    BY <1>1, <1>2, <1>4
  <2>3. r \in Seq(Nat) /\ Len(r) = k /\ \A i \in 1 .. k : r[i] = No(q[i + 1])
    BY <1>4, <1>6, <2>2
  <2> HIDE DEF r
  <2>4. y.parts = x.parts \o r
    BY <1>3 DEF r, Numbers
  <2>5. /\ Len(y.parts) = k + 1 /\ y.parts \in Seq(Nat) /\ y.parts[1] = No(q[1])
        /\ \A i \in 1 .. k : y.parts[i + 1] = r[i]
    <3>1. /\ x.parts \o r \in Seq(Nat) /\ Len(x.parts \o r) = Len(r) + 1
          /\ (x.parts \o r)[1] = x.parts[1]
          /\ \A i \in 1 .. Len(r) : (x.parts \o r)[i + 1] = r[i]
      BY <2>1, <2>3, BehindOne
    <3> QED BY <2>1, <2>3, <2>4, <3>1
  <2>6. ASSUME NEW i \in 1 .. k + 1, i # 1 PROVE y.parts[i] = No(q[i])
    <3>1. i - 1 \in 1 .. k /\ (i - 1) + 1 = i
      BY <1>4, <2>6
    <3> QED BY <2>3, <2>5, <3>1
  <2> QED BY <2>5, <2>6
<1>9. ToSet(y.parts) = {No(q[i]) : i \in 1 .. k + 1}
  BY <1>8 DEF ToSet
<1>10. Piece(y.chat, y.parts, n)
  <2>1. ASSUME NEW i \in 1 .. k + 1
        PROVE  /\ y.parts[i] \in 1 .. n[y.chat]
               /\ Script[y.chat][y.parts[i]].stream = x.msg.stream
    <3>1. /\ No(q[i]) \in 1 .. n[q[i].chat] /\ q[i].msg = Script[q[i].chat][No(q[i])]
          /\ q[i].chat = y.chat /\ q[i].msg.stream = x.msg.stream /\ y.parts[i] = No(q[i])
      BY <1>3, <1>5, <1>6, <1>8 DEF Single
    <3> QED BY <3>1
  <2>2. 1 \in 1 .. k + 1
    BY <1>4
  <2> QED BY <1>7, <1>8, <2>1, <2>2 DEF Piece
<1>11. y.msg \in Msg /\ y.msg.kind \notin {"text", "muted"}
  <2>1. x.msg \in Msg
    BY <1>1 DEF Packets
  <2>2. k # 0 => b[k] = q[k + 1] /\ q[k + 1].msg.kind \in {"delta", "end", "bare"}
    BY <1>1, <1>2, <1>4, <1>5
  <2>3. CASE k = 0
    <3>1. y.msg = [x.msg EXCEPT !.kind = @]
      BY <1>3, <2>3 DEF JoinedMsg
    <3>2. y.msg = x.msg
      BY <2>1, <3>1 DEF Msg
    <3> QED BY <1>1, <2>1, <3>2
  <2>4. CASE k # 0
    <3> DEFINE d == b[k].msg.kind
    <3>1. y.msg = [x.msg EXCEPT !.kind = d] /\ d \in {"delta", "end", "bare"}
      BY <1>3, <2>2, <2>4 DEF JoinedMsg
    <3> HIDE DEF d
    <3> QED BY <2>1, <3>1 DEF Msg, Kinds
  <2> QED BY <2>3, <2>4
<1>12. y.chat \in Chats
  BY <1>1, <1>3 DEF Packets
<1>13. \A i \in 1 .. k + 1 : q[i].chat = y.chat
  BY <1>3, <1>5
<1>14. Joins(y, q, k + 1, n)
  BY <1>4, <1>9, <1>10, <1>11, <1>12, <1>13 DEF Joins
<1> QED BY <1>14 DEF x, b, k, y

----------------------------------------------------------------------------
(* One turn of the dispatcher                                               *)

\* Taking the first n + 1 messages with some of the next ones set aside.
LEMMA SplitRest ==
  ASSUME NEW S, NEW q \in Seq(S), q # <<>>, NEW n \in 0 .. Len(Tail(q)), NEW m \in n .. Len(Tail(q))
  PROVE  LET b == Tail(q)
             h == SubSeq(b, n + 1, m)
             r == SubSeq(b, m + 1, Len(b)) IN
         /\ h \in Seq(S) /\ r \in Seq(S) /\ Len(h) = m - n
         /\ h \o r = SubSeq(q, n + 2, Len(q))
<1> DEFINE b == Tail(q)
           h == SubSeq(b, n + 1, m)
           r == SubSeq(b, m + 1, Len(b))
           w == SubSeq(q, n + 2, Len(q))
<1>1. /\ b \in Seq(S) /\ Len(q) \in Nat \ {0} /\ Len(b) = Len(q) - 1
      /\ \A i \in 1 .. Len(b) : b[i] = q[i + 1]
  OBVIOUS
<1> HIDE DEF b
<1>2. n \in Nat /\ m \in Nat /\ n <= m /\ m <= Len(b) /\ Len(b) \in Nat
  BY <1>1 DEF b
<1>3. /\ h \in Seq(S) /\ Len(h) = m - n
      /\ \A i \in 1 .. m - n : h[i] = b[n + i]
  BY <1>1, <1>2
<1>4. /\ r \in Seq(S) /\ Len(r) = Len(b) - m
      /\ \A i \in 1 .. Len(b) - m : r[i] = b[m + i]
  BY <1>1, <1>2
<1>5. /\ w \in Seq(S) /\ Len(w) = Len(b) - n
      /\ \A i \in 1 .. Len(b) - n : w[i] = q[n + 1 + i]
  BY <1>1, <1>2
<1> HIDE DEF h, r, w
<1>6. /\ h \o r \in Seq(S) /\ Len(h \o r) = Len(h) + Len(r)
      /\ \A i \in 1 .. Len(h) + Len(r) : (h \o r)[i] = IF i <= Len(h) THEN h[i] ELSE r[i - Len(h)]
  BY <1>3, <1>4, ConcatProperties, Zenon
<1>7. Len(h) + Len(r) = Len(b) - n
  BY <1>1, <1>2, <1>3, <1>4
<1>8. ASSUME NEW i \in 1 .. Len(b) - n PROVE (h \o r)[i] = w[i]
  <2>1. i \in Nat /\ n + i \in 1 .. Len(b) /\ (n + i) + 1 = n + 1 + i
    BY <1>2
  <2>2. w[i] = b[n + i]
    BY <1>1, <1>5, <2>1
  <2>3. CASE i <= m - n
    BY <1>2, <1>3, <1>6, <1>7, <2>1, <2>2, <2>3
  <2>4. CASE ~(i <= m - n)
    <3>1. i - (m - n) \in 1 .. Len(b) - m /\ m + (i - (m - n)) = n + i
      BY <1>2, <2>1, <2>4
    <3>2. (h \o r)[i] = r[i - (m - n)]
      BY <1>2, <1>3, <1>6, <1>7, <2>4
    <3> QED BY <1>4, <2>2, <3>1, <3>2
  <2> QED BY <2>3, <2>4
<1>9. h \o r = w
  BY <1>5, <1>6, <1>7, <1>8, SeqEqual
<1> QED BY <1>3, <1>4, <1>9 DEF b, h, r, w

\* The messages the dispatcher has not taken yet.
Line == held \o bus

\* What has not been taken yet is what was published and not read.
LineInv ==
  /\ Counts(pc) /\ held \in Seq(Packets) /\ bus \in Seq(Packets) /\ Len(held) <= 1
  /\ Numbered(Line, pc)

Unwanted(z) == z.msg.kind = "muted" \/ z.inst = 0 \/ Suppressed(z)

\* The dispatcher takes the first k messages of the line as z.
Takes(z, k) ==
  /\ Joins(z, Line, k, pc) /\ Line' = SubSeq(Line, k + 1, Len(Line))
  /\ held' \in Seq(Packets) /\ bus' \in Seq(Packets) /\ Len(held') <= 1
  /\ on /\ hand = None /\ z.inst = chan[ChannelOf[z.chat]]
  /\ \/ Unwanted(z) /\ Drop(z) /\ UNCHANGED <<prints, hand, tasks, tails, slots, last>>
     \/ /\ ~Unwanted(z) /\ prints' = Printed(z)
        /\ \/ hand' = z /\ UNCHANGED <<tasks, tails, slots, last, lost>>
           \/ slots # 0 /\ Enqueue(z) /\ UNCHANGED hand

LEMMA TakeEffect ==
  ASSUME LineInv, Take
  PROVE  /\ \E z, k : Takes(z, k)
         /\ UNCHANGED <<on, sends, chan, live, stopping, ops, born, acts, down, pc, got, sent,
                        fault, fails>>
<1> DEFINE x == Head(Line)
           b == Tail(Line)
           delta == x.msg.kind = "delta"
           y == IF delta THEN Coalesced(x, b) ELSE x
           n == IF delta THEN Joined(x, b) ELSE 0
           m == IF delta THEN n + Boundary(x, b) ELSE 0
           z == [chat |-> x.chat, msg |-> y.msg, parts |-> y.parts,
                 inst |-> chan[ChannelOf[x.chat]]]
<1>1. /\ on /\ hand = None /\ Line # <<>>
      /\ held' = SubSeq(b, n + 1, m) /\ bus' = SubSeq(b, m + 1, Len(b))
      /\ UNCHANGED <<on, sends, chan, live, stopping, ops, born, acts, down, pc, got, sent,
                     fault, fails>>
  BY DEF Take, Line, channels
<1>2. \/ (y.msg.kind = "muted" \/ z.inst = 0 \/ Suppressed(y))
         /\ Drop(y) /\ UNCHANGED <<prints, hand, tasks, tails, slots, last>>
      \/ /\ ~(y.msg.kind = "muted" \/ z.inst = 0 \/ Suppressed(y)) /\ prints' = Printed(y)
         /\ \/ hand' = z /\ UNCHANGED <<tasks, tails, slots, last, lost>>
            \/ slots # 0 /\ Enqueue(z) /\ UNCHANGED hand
  BY DEF Take, Line
<1>3. /\ Counts(pc) /\ Numbered(Line, pc) /\ Line \in Seq(Packets)
      /\ x \in Packets /\ IsSeq(b)
  BY <1>1, HeadJoins DEF LineInv, Numbered
<1>4. Joins(y, Line, n + 1, pc) /\ y.chat = x.chat
  <2>1. CASE delta
    <3>1. Coalesced(x, b).chat = x.chat
      BY <1>3, CoalescedFields
    <3>2. Joins(Coalesced(x, b), Line, Joined(x, b) + 1, pc)
      BY <1>1, <1>3, <2>1, DeltaJoins
    <3> QED BY <2>1, <3>1, <3>2
  <2>2. CASE ~delta
    <3>1. Joins(x, Line, 1, pc)
      BY <1>1, <1>3, HeadJoins
    <3> QED BY <2>2, <3>1
  <2> QED BY <2>1, <2>2
<1>5. n \in 0 .. Len(b) /\ m \in n .. Len(b) /\ m - n <= 1
  <2> HIDE DEF x, b
  <2>1. /\ Joined(x, b) \in 0 .. Len(b) /\ Joined(x, b) + Boundary(x, b) \in 0 .. Len(b)
        /\ Len(b) \in Nat
    BY <1>3, JoinedBound DEF IsSeq
  <2>2. Boundary(x, b) \in {0, 1}
    BY DEF Boundary
  <2> QED BY <2>1, <2>2
<1>6. y.chat = z.chat /\ y.msg = z.msg /\ y.parts = z.parts /\ z.inst = chan[ChannelOf[z.chat]]
  BY <1>4
<1> HIDE DEF z, y, x, delta, m, n
<1>7. /\ held' \in Seq(Packets) /\ bus' \in Seq(Packets) /\ Len(held') <= 1
      /\ held' \o bus' = SubSeq(Line, n + 2, Len(Line))
  BY <1>1, <1>3, <1>5, SplitRest
<1>8. Line' = SubSeq(Line, (n + 1) + 1, Len(Line))
  <2>1. n + 2 = (n + 1) + 1
    BY <1>5
  <2> QED BY <1>7, <2>1 DEF Line
<1>9. Joins(z, Line, n + 1, pc)
  BY <1>4, <1>6 DEF Joins
<1>10. Suppressed(y) = Suppressed(z) /\ Printed(y) = Printed(z) /\ (Drop(y) => Drop(z))
  BY <1>6 DEF Suppressed, Printed, Drop, Fragments
<1>11. Takes(z, n + 1)
  BY <1>1, <1>2, <1>6, <1>7, <1>8, <1>9, <1>10 DEF Takes, Unwanted
<1> QED BY <1>1, <1>11

\* An accepted message becomes the last task of its chat.
Enters(x, u) ==
  /\ Adds(u) /\ u.chat = x.chat /\ u.msg = x.msg /\ u.parts = x.parts /\ u.inst = x.inst
  /\ u.prev = tails[x.chat] /\ u.at = "waiting" /\ u.tries = 0 /\ u.cancelled = FALSE
  /\ tails' = [tails EXCEPT ![x.chat] = last + 1]

LEMMA EnqueueEffect ==
  ASSUME NEW x, x.chat \in Chats, Enqueue(x)
  PROVE  \/ Accepts(x) /\ (\E u : Enters(x, u)) /\ lost' = lost
         \/ ~Accepts(x) /\ Drop(x) /\ UNCHANGED <<tasks, tails, last>>
<1>1. CASE Accepts(x)
  <2> DEFINE u == [id |-> last', chat |-> x.chat, msg |-> x.msg, parts |-> x.parts,
                   inst |-> x.inst, prev |-> Previous(x.chat), at |-> "waiting",
                   tries |-> 0, cancelled |-> FALSE]
  <2>1. /\ tasks' = tasks \cup {u} /\ last' = last + 1
        /\ tails' = [tails EXCEPT ![x.chat] = last + 1] /\ lost' = lost
    BY <1>1 DEF Enqueue
  <2>2. Enters(x, u)
    BY <2>1 DEF Enters, Adds, IsTask, Previous
  <2> QED BY <1>1, <2>1, <2>2
<1>2. CASE ~Accepts(x)
  BY <1>2 DEF Enqueue
<1> QED BY <1>1, <1>2

----------------------------------------------------------------------------
(* The line of messages                                                     *)

LEMMA InitLine == Init => LineInv
<1> SUFFICES ASSUME Init PROVE LineInv
  OBVIOUS
<1>1. bus = <<>> /\ held = <<>> /\ pc = [c \in Chats |-> 0]
  BY DEF Init
<1>2. Counts(pc)
  <2>1. \A c \in Chats : Len(Script[c]) \in Nat
    BY OutboundAssumption
  <2> QED BY <1>1, <2>1 DEF Counts
<1>3. Line = <<>>
  BY <1>1 DEF Line
<1>4. <<>> \in Seq(Packets) /\ Len(<<>>) = 0 /\ DOMAIN <<>> = {}
  OBVIOUS
<1> QED BY <1>1, <1>2, <1>3, <1>4 DEF LineInv, Numbered, Rising, UpTo

\* Only Publish and Take move the line.
LEMMA OtherSteps ==
  ASSUME [Next]_vars
  PROVE  (\E c \in Chats : Publish(c)) \/ Take \/ UNCHANGED <<bus, held, pc>>
BY DEF Next, vars, input, Grant, TaskStep, Begin, SendOk, SendFails, Retry, Unwind,
       FeatureAction, ActionStep, StopRuntime, FinishAction, StopDispatcher, StopChannels

LEMMA AppendBehind ==
  ASSUME NEW S, NEW p \in Seq(S), NEW q \in Seq(S), NEW x \in S
  PROVE  p \o Append(q, x) = Append(p \o q, x)
<1>1. p \o q \in Seq(S) /\ <<x>> \in Seq(S)
  OBVIOUS
<1>2. Append(q, x) = q \o <<x>> /\ Append(p \o q, x) = (p \o q) \o <<x>>
  BY <1>1, AppendIsConcat
<1>3. p \o (q \o <<x>>) = (p \o q) \o <<x>>
  BY <1>1, ConcatAssociative
<1> QED BY <1>2, <1>3

\* The next message of a chat comes at the end of the line.
LEMMA PublishEffect ==
  ASSUME LineInv, NEW c \in Chats, Publish(c)
  PROVE  /\ LineInv'
         /\ \E x : /\ Line' = Append(Line, x) /\ x.chat = c /\ No(x) = pc[c] + 1
                  /\ prints' = prints /\ x.parts = <<pc[c] + 1>>
                  /\ pc' = [pc EXCEPT ![c] = @ + 1]
<1> DEFINE n == [pc EXCEPT ![c] = @ + 1]
           x == [chat |-> c, msg |-> Script[c][n[c]], parts |-> <<n[c]>>]
<1>1. /\ pc[c] < Len(Script[c]) /\ pc' = n /\ bus' = Append(bus, x) /\ held' = held
      /\ prints' = prints
  BY DEF Publish, input
<1>2. Counts(n) /\ Numbered(Append(Line, x), n)
  BY <1>1, AppendNumbered DEF LineInv
<1>3. x.chat = c /\ No(x) = pc[c] + 1 /\ x.parts = <<pc[c] + 1>>
  BY DEF LineInv, Counts, No
<1>4. x \in Packets
  <2>1. Len(Append(Line, x)) = Len(Line) + 1 /\ Append(Line, x)[Len(Line) + 1] = x
        /\ Len(Line) + 1 \in DOMAIN Append(Line, x)
    BY DEF LineInv, Numbered
  <2> HIDE DEF x
  <2> QED BY <1>2, <2>1 DEF Numbered, Single
<1>5. pc' = [pc EXCEPT ![c] = @ + 1]
  BY <1>1
<1> HIDE DEF x, n
<1>6. held \o Append(bus, x) = Append(held \o bus, x)
  BY <1>4, AppendBehind DEF LineInv
<1>7. Append(bus, x) \in Seq(Packets)
  BY <1>4 DEF LineInv
<1> QED BY <1>1, <1>2, <1>3, <1>5, <1>6, <1>7 DEF LineInv, Line

LEMMA NextLine == LineInv /\ [Next]_vars => LineInv'
<1> SUFFICES ASSUME LineInv, [Next]_vars PROVE LineInv'
  OBVIOUS
<1>1. CASE \E c \in Chats : Publish(c)
  <2>1. PICK c \in Chats : Publish(c)
    BY <1>1
  <2> QED BY <2>1, PublishEffect
<1>2. CASE Take
  <2>1. PICK z, k : Takes(z, k)
    BY <1>2, TakeEffect
  <2>2. pc' = pc
    BY <1>2, TakeEffect
  <2>3. k \in 0 .. Len(Line) /\ Numbered(Line, pc)
    <3>1. k \in 1 .. Len(Line)
      BY <2>1 DEF Takes, Joins
    <3> QED BY <3>1 DEF LineInv
  <2>4. Numbered(SubSeq(Line, k + 1, Len(Line)), pc)
    BY <2>3, RestNumbered
  <2> QED BY <2>1, <2>2, <2>4 DEF Takes, LineInv
<1>3. CASE UNCHANGED <<bus, held, pc>>
  BY <1>3 DEF LineInv, Line
<1> QED BY <1>1, <1>2, <1>3, OtherSteps

----------------------------------------------------------------------------
(* Messages under way                                                       *)

\* v is what became of the task w: the same message in the same place.
Same(v, w) ==
  /\ v.id = w.id /\ v.chat = w.chat /\ v.msg = w.msg /\ v.parts = w.parts
  /\ v.inst = w.inst /\ v.prev = w.prev
Inherits == \A v \in tasks' : \E w \in tasks : Same(v, w)

\* A chat receives at most the message of one task.
Receives ==
  \/ got' = got
  \/ \E t \in tasks : got' = [got EXCEPT ![t.chat] = Append(@, t.parts)]

\* What every step but Publish, Take and Grant does to the messages under way.
Quietly ==
  Inherits /\ Receives /\ hand' \in {hand, None} /\ UNCHANGED <<bus, held, prints, pc>>

LEMMA CancelInherits ==
  ASSUME TaskInv, NEW ts, Cancels(ts)
  PROVE  Inherits
BY CancelOrigin DEF Inherits, Same

LEMMA TaskStepQuietly ==
  ASSUME TaskInv, TaskStep
  PROVE  Quietly
<1>1. UNCHANGED <<hand, bus, held, prints, pc>> /\ Receives
  BY DEF TaskStep, Begin, SendOk, SendFails, Retry, Unwind, Show, Receives, input
<1>2. PICK t \in tasks : (\E u : Starts(t, u) \/ Stays(t, u)) \/ Leaves(t)
  BY TaskEffect
<1>3. CASE Leaves(t)
  <2>1. tasks' = tasks \ {t}
    BY <1>3 DEF Leaves, Ends
  <2> QED BY <1>1, <2>1 DEF Quietly, Inherits, Same
<1>4. CASE \E u : Starts(t, u) \/ Stays(t, u)
  <2>1. PICK u : Changes(t, u)
    BY <1>4 DEF Starts, Stays, Advances
  <2>2. Inherits
    BY <2>1, Origin DEF Inherits, Same
  <2> QED BY <1>1, <2>2 DEF Quietly
<1> QED BY <1>2, <1>3, <1>4

LEMMA QuietEffect ==
  ASSUME TaskInv, [Next]_vars
  PROVE  (\E c \in Chats : Publish(c)) \/ Take \/ Grant \/ Quietly
<1>1. CASE UNCHANGED <<tasks, got, hand, bus, held, prints, pc>>
  BY <1>1 DEF Quietly, Inherits, Same, Receives
<1>2. CASE \E c \in Channels, action \in {"enable", "disable"} : FeatureAction(c, action)
  <2>1. PICK c \in Channels, action \in {"enable", "disable"} : FeatureAction(c, action)
    BY <1>2
  <2>2. UNCHANGED <<got, hand, bus, held, prints, pc, last>> /\ (tasks' = tasks \/ Cancel(Of(c)))
    BY <2>1 DEF FeatureAction, input
  <2>3. CASE Cancel(Of(c))
    <3>1. Cancels(Of(c))
      BY <2>2, <2>3 DEF Cancels, Of
    <3>2. Inherits
      BY <3>1, CancelInherits
    <3> QED BY <2>2, <3>2 DEF Quietly, Receives
  <2> QED BY <1>1, <2>2, <2>3
<1>3. CASE StopDispatcher
  <2>1. UNCHANGED <<got, bus, held, prints, pc>> /\ hand' = None /\ Cancels(tasks)
    BY <1>3 DEF StopDispatcher, input, Cancels
  <2>2. Inherits
    BY <2>1, CancelInherits
  <2> QED BY <2>1, <2>2 DEF Quietly, Receives
<1>4. CASE ActionStep \/ StopChannels
  BY <1>1, <1>4 DEF ActionStep, StopRuntime, FinishAction, StopChannels, input
<1>5. CASE UNCHANGED vars
  BY <1>1, <1>5 DEF vars
<1> QED BY <1>2, <1>3, <1>4, <1>5, TaskStepQuietly DEF Next

\* What is under way and what has arrived are pieces of a stream.
PieceInv ==
  /\ got \in [Chats -> Seq(Seq(Nat))]
  /\ \A c \in Chats : \A g \in ToSet(got[c]) : Piece(c, g, pc)
  /\ hand # None => Piece(hand.chat, hand.parts, pc) /\ hand.msg \in Msg
  /\ \A t \in tasks : Piece(t.chat, t.parts, pc) /\ t.msg \in Msg

\* No count of published messages goes down.
Grows == pc' \in [Chats -> Nat] /\ \A c \in Chats : pc[c] <= pc'[c]

LEMMA CountsGrow ==
  ASSUME LineInv, [Next]_vars
  PROVE  Grows
<1>1. pc \in [Chats -> Nat]
  BY DEF LineInv, Counts
<1>2. CASE pc' = pc
  BY <1>1, <1>2 DEF Grows
<1>3. CASE \E c \in Chats : Publish(c)
  BY <1>1, <1>3 DEF Grows, Publish
<1> QED BY <1>2, <1>3, OtherSteps DEF Take

LEMMA PieceStays ==
  ASSUME LineInv, Grows, NEW c \in Chats, NEW g, Piece(c, g, pc)
  PROVE  Piece(c, g, pc')
BY DEF Piece, Grows, LineInv, Counts

LEMMA NextPiece == IInv /\ LineInv /\ PieceInv /\ [Next]_vars => PieceInv'
<1> SUFFICES ASSUME IInv, LineInv, PieceInv, [Next]_vars PROVE PieceInv'
  OBVIOUS
<1>0. TaskInv /\ Grows
  BY CountsGrow DEF IInv
<1>1. \A c \in Chats : \A g : Piece(c, g, pc) => Piece(c, g, pc')
  BY <1>0, PieceStays
<1>2. \A t \in tasks : t.chat \in Chats /\ Piece(t.chat, t.parts, pc') /\ t.msg \in Msg
  BY <1>0, <1>1 DEF TaskInv, IsTask, PieceInv
<1>3. hand # None => Piece(hand.chat, hand.parts, pc') /\ hand.msg \in Msg
  BY <1>1 DEF IInv, InputInv, PieceInv
<1>4. ASSUME Receives
      PROVE  /\ got' \in [Chats -> Seq(Seq(Nat))]
             /\ \A c \in Chats : \A g \in ToSet(got'[c]) : Piece(c, g, pc')
  <2>1. CASE got' = got
    BY <1>1, <2>1 DEF PieceInv
  <2>2. CASE \E t \in tasks : got' = [got EXCEPT ![t.chat] = Append(@, t.parts)]
    <3>1. PICK t \in tasks : got' = [got EXCEPT ![t.chat] = Append(@, t.parts)]
      BY <2>2
    <3>2. t.chat \in Chats /\ Piece(t.chat, t.parts, pc') /\ t.parts \in Seq(Nat)
      BY <1>2 DEF Piece
    <3>3. /\ got' \in [Chats -> Seq(Seq(Nat))] /\ got'[t.chat] = Append(got[t.chat], t.parts)
          /\ \A c \in Chats \ {t.chat} : got'[c] = got[c]
      BY <3>1, <3>2 DEF PieceInv
    <3>4. ToSet(got'[t.chat]) = ToSet(got[t.chat]) \cup {t.parts}
      <4>1. IsSeq(got[t.chat])
        BY <3>2, OwnElements DEF PieceInv
      <4> QED BY <3>3, <4>1, AppendIsSeq
    <3>5. ASSUME NEW c \in Chats, NEW g \in ToSet(got'[c]) PROVE Piece(c, g, pc')
      <4>1. CASE c = t.chat
        BY <1>1, <3>2, <3>4, <4>1 DEF PieceInv
      <4>2. CASE c # t.chat
        BY <1>1, <3>3, <4>2 DEF PieceInv
      <4> QED BY <4>1, <4>2
    <3> QED BY <3>3, <3>5
  <2> QED BY <1>4, <2>1, <2>2 DEF Receives
<1>5. ASSUME NEW x, x.chat \in Chats, Piece(x.chat, x.parts, pc'), x.msg \in Msg, Enqueue(x)
      PROVE  \A t \in tasks' : Piece(t.chat, t.parts, pc') /\ t.msg \in Msg
  BY <1>2, <1>5, EnqueueEffect DEF Enters, Adds
<1>6. CASE \E c \in Chats : Publish(c)
  <2>1. UNCHANGED <<tasks, hand, got>>
    BY <1>6 DEF Publish
  <2> QED BY <1>2, <1>3, <1>4, <2>1 DEF PieceInv, Receives
<1>7. CASE Take
  <2>1. PICK z, k : Takes(z, k)
    BY <1>7, TakeEffect
  <2>2. got' = got /\ pc' = pc
    BY <1>7, TakeEffect
  <2>3. z.chat \in Chats /\ Piece(z.chat, z.parts, pc') /\ z.msg \in Msg
    BY <2>1, <2>2 DEF Takes, Joins
  <2>4. \/ UNCHANGED <<hand, tasks>>
        \/ hand' = z /\ tasks' = tasks
        \/ Enqueue(z) /\ hand' = hand
    BY <2>1 DEF Takes
  <2>5. \A t \in tasks' : Piece(t.chat, t.parts, pc') /\ t.msg \in Msg
    BY <1>2, <1>5, <2>3, <2>4
  <2>6. hand' # None => Piece(hand'.chat, hand'.parts, pc') /\ hand'.msg \in Msg
    BY <1>3, <2>3, <2>4
  <2> QED BY <1>4, <2>2, <2>5, <2>6 DEF PieceInv, Receives
<1>8. CASE Grant
  <2>1. hand # None /\ Enqueue(hand) /\ hand' = None /\ got' = got
    BY <1>8 DEF Grant
  <2>2. hand.chat \in Chats
    BY <2>1 DEF IInv, InputInv
  <2>3. \A t \in tasks' : Piece(t.chat, t.parts, pc') /\ t.msg \in Msg
    BY <1>3, <1>5, <2>1, <2>2
  <2> QED BY <1>4, <2>1, <2>3 DEF PieceInv, Receives
<1>9. CASE Quietly
  <2>1. \A t \in tasks' : Piece(t.chat, t.parts, pc') /\ t.msg \in Msg
    BY <1>2, <1>9 DEF Quietly, Inherits, Same
  <2> QED BY <1>3, <1>4, <1>9, <2>1 DEF PieceInv, Quietly
<1> QED BY <1>0, <1>6, <1>7, <1>8, <1>9, QuietEffect

LEMMA InitPiece == Init => PieceInv
<1> SUFFICES ASSUME Init PROVE PieceInv
  OBVIOUS
<1>1. got = [c \in Chats |-> <<>>] /\ hand = None /\ tasks = {}
  BY DEF Init
<1>2. <<>> \in Seq(Seq(Nat)) /\ ToSet(<<>>) = {}
  BY EmptyIsSeq
<1> QED BY <1>1, <1>2 DEF PieceInv

LEMMA PieceAlways == Spec => [](IInv /\ LineInv /\ PieceInv)
<1>1. Init => IInv /\ LineInv /\ PieceInv
  BY InitOK, InitLine, InitPiece
<1>2. IInv /\ LineInv /\ PieceInv /\ [Next]_vars => (IInv /\ LineInv /\ PieceInv)'
  BY NextOK, NextLine, NextPiece
<1> QED BY <1>1, <1>2, PTL DEF Spec

\* Whatever the dispatcher joins, sets aside, retries or cancels, a message a
\* chat receives is made of parts of one stream published one after the other
\* (_coalesce_stream_deltas).
THEOREM JoinedPartsFollow == Spec => []StreamsContiguous
<1>1. PieceInv => StreamsContiguous
  <2> SUFFICES ASSUME PieceInv, NEW c \in Chats, NEW g \in ToSet(got[c]), NEW i \in 2 .. Len(g)
               PROVE  g[i] = g[i - 1] + 1 /\ Script[c][g[i]].stream = Script[c][g[1]].stream
    BY DEF StreamsContiguous
  <2>1. Piece(c, g, pc) /\ g[1] \in Nat
    <3>1. Piece(c, g, pc)
      BY DEF PieceInv
    <3> QED BY <3>1 DEF Piece
  <2>2. i \in 1 .. Len(g) /\ i - 1 \in 1 .. Len(g) /\ i \in Nat
    BY <2>1 DEF Piece
  <2>3. g[i] = g[1] + i - 1 /\ g[i - 1] = g[1] + (i - 1) - 1
    BY <2>1, <2>2 DEF Piece
  <2> QED BY <2>1, <2>2, <2>3 DEF Piece
<1> QED BY <1>1, PieceAlways, PTL

----------------------------------------------------------------------------
(* Types                                                                    *)

\* A task waits, sends or sleeps before a try that it has left.
StageOK(t) ==
  /\ t.prev \in Nat /\ t.prev < t.id /\ t.cancelled \in BOOLEAN
  /\ t.at \in {"waiting", "sending", "delay"}
  /\ t.tries \in 0 .. MaxTries /\ (t.at = "delay" => t.tries < MaxTries)

TaskTypes ==
  /\ tails \in [Chats -> Nat] /\ \A c \in Chats : tails[c] <= last
  /\ \A t \in tasks : StageOK(t)

\* The instances of a channel are numbered from 1.
ChannelTypes ==
  /\ chan \in [Channels -> Nat] /\ born \in [Channels -> Nat]
  /\ \A c \in Channels : chan[c] <= born[c]
  /\ \A i \in live : i[1] \in Channels /\ i[2] \in 1 .. born[i[1]]
  /\ stopping \subseteq Channels
  /\ \A o \in ops : IsOp(o) /\ o.chan \in Channels
  /\ {on, down, fault} \subseteq BOOLEAN

HandTypes == hand # None => hand.inst \in Nat

LEMMA TaskTypesKept ==
  ASSUME TaskInv, TaskTypes, UNCHANGED <<tasks, tails, last>>
  PROVE  TaskTypes'
BY DEF TaskTypes

LEMMA CancelTypes ==
  ASSUME TaskInv, TaskTypes, NEW ts, Cancels(ts), tails' = tails
  PROVE  TaskTypes'
<1>1. last' = last
  BY DEF Cancels
<1>2. ASSUME NEW v \in tasks' PROVE StageOK(v)
  <2>1. PICK t \in tasks :
          /\ v.id = t.id /\ v.at = t.at /\ v.prev = t.prev /\ v.tries = t.tries
          /\ v.cancelled = TRUE \/ v.cancelled = t.cancelled
    BY CancelOrigin
  <2> QED BY <2>1 DEF TaskTypes, StageOK
<1> QED BY <1>1, <1>2 DEF TaskTypes

LEMMA EnqueueTypes ==
  ASSUME TaskInv, TaskTypes, NEW x, x.chat \in Chats, Enqueue(x)
  PROVE  TaskTypes'
<1>1. CASE UNCHANGED <<tasks, tails, last>>
  BY <1>1, TaskTypesKept
<1>2. CASE \E u : Enters(x, u)
  <2>1. PICK u : Enters(x, u)
    BY <1>2
  <2>2. /\ tasks' = tasks \cup {u} /\ u.id = last + 1 /\ last' = last + 1 /\ last \in Nat
        /\ u.prev = tails[x.chat] /\ u.at = "waiting" /\ u.tries = 0 /\ u.cancelled = FALSE
        /\ tails' = [tails EXCEPT ![x.chat] = last + 1]
    BY <2>1 DEF Enters, Adds, TaskInv
  <2>3. StageOK(u)
    <3>1. tails[x.chat] \in Nat /\ tails[x.chat] <= last /\ MaxTries \in Nat
      BY OutboundAssumption DEF TaskTypes
    <3>2. u.prev \in Nat /\ u.prev < u.id
      BY <2>2, <3>1
    <3>3. u.cancelled \in BOOLEAN
      BY <2>2
    <3>4. u.tries \in 0 .. MaxTries
      BY <2>2, <3>1
    <3> QED BY <2>2, <3>2, <3>3, <3>4 DEF StageOK
  <2>4. tails' \in [Chats -> Nat] /\ \A c \in Chats : tails'[c] <= last'
    BY <2>2 DEF TaskTypes
  <2> QED BY <2>2, <2>3, <2>4 DEF TaskTypes
<1> QED BY <1>1, <1>2, EnqueueEffect

LEMMA TaskStepTypes ==
  ASSUME TaskInv, TaskTypes, TaskStep
  PROVE  TaskTypes'
<1>0. MaxTries \in Nat \ {0} /\ last \in Nat
  BY OutboundAssumption DEF TaskInv
<1>1. PICK t \in tasks : (\E u : Starts(t, u) \/ Stays(t, u)) \/ Leaves(t)
  BY TaskEffect
<1>2. StageOK(t) /\ t.id \in Nat /\ t.chat \in Chats
  BY DEF TaskTypes, TaskInv, IsTask
<1>3. CASE \E u : Starts(t, u) \/ Stays(t, u)
  <2>1. PICK u : Starts(t, u) \/ Stays(t, u)
    BY <1>3
  <2>2. /\ tasks' = (tasks \ {t}) \cup {u} /\ last' = last /\ tails' = tails
        /\ u.id = t.id /\ u.prev = t.prev /\ u.cancelled = t.cancelled
    BY <2>1 DEF Starts, Stays, Advances, Changes
  <2>3. StageOK(u)
    BY <1>0, <1>2, <2>1, <2>2 DEF Starts, Stays, StageOK
  <2> QED BY <2>2, <2>3 DEF TaskTypes
<1>4. CASE Leaves(t)
  <2>1. /\ tasks' = tasks \ {t} /\ last' = last
        /\ tails' = [tails EXCEPT ![t.chat] = IF @ = t.id THEN 0 ELSE @]
    BY <1>4 DEF Leaves, Finish, Ends
  <2>2. tails' \in [Chats -> Nat] /\ \A c \in Chats : tails'[c] <= last
    BY <1>0, <1>2, <2>1 DEF TaskTypes
  <2> QED BY <2>1, <2>2 DEF TaskTypes
<1> QED BY <1>1, <1>3, <1>4

LEMMA DispatcherTypes ==
  ASSUME IInv, LineInv, TaskTypes, ChannelTypes, HandTypes, Take \/ Grant
  PROVE  TaskTypes' /\ HandTypes'
<1>1. CASE Take
  <2>1. PICK z, k : Takes(z, k)
    BY <1>1, TakeEffect
  <2>2. z.chat \in Chats /\ z.inst \in Nat
    BY <2>1, OutboundAssumption DEF Takes, Joins, ChannelTypes
  <2>3. \/ UNCHANGED <<hand, tasks, tails, last>>
        \/ hand' = z /\ UNCHANGED <<tasks, tails, last>>
        \/ Enqueue(z) /\ hand' = hand
    BY <2>1 DEF Takes
  <2>4. HandTypes'
    BY <2>2, <2>3 DEF HandTypes
  <2> QED BY <2>2, <2>3, <2>4, TaskTypesKept, EnqueueTypes DEF IInv
<1>2. CASE Grant
  <2>1. hand' = None /\ Enqueue(hand) /\ hand.chat \in Chats
    BY <1>2 DEF Grant, IInv, InputInv
  <2> QED BY <2>1, EnqueueTypes DEF IInv, HandTypes
<1> QED BY <1>1, <1>2

LEMMA FeatureActionTypes ==
  ASSUME ChannelTypes, NEW c \in Channels, NEW action, FeatureAction(c, action)
  PROVE  ChannelTypes'
<1>1. on' = on /\ down' = down /\ fault' \in {fault, TRUE}
  BY DEF FeatureAction
<1>2. CASE chan[c] = 0
  <2>1. /\ chan' = [chan EXCEPT ![c] = born'[c]] /\ born' = [born EXCEPT ![c] = @ + 1]
        /\ live' = live \cup {<<c, born'[c]>>} /\ UNCHANGED <<stopping, ops>>
    BY <1>2 DEF FeatureAction
  <2>2. /\ born' \in [Channels -> Nat] /\ born'[c] = born[c] + 1 /\ born[c] \in Nat
        /\ \A d \in Channels \ {c} : born'[d] = born[d]
    BY <2>1 DEF ChannelTypes
  <2>3. chan' \in [Channels -> Nat] /\ \A d \in Channels : chan'[d] <= born'[d]
    BY <2>1, <2>2 DEF ChannelTypes
  <2>4. \A i \in live' : i[1] \in Channels /\ i[2] \in 1 .. born'[i[1]]
    BY <2>1, <2>2 DEF ChannelTypes
  <2> QED BY <1>1, <2>1, <2>2, <2>3, <2>4 DEF ChannelTypes
<1>3. CASE chan[c] # 0
  <2> DEFINE o == [n |-> acts', chan |-> c, action |-> action, at |-> "cancel",
                   wait |-> {t.id : t \in Of(c)}, inst |-> 0]
  <2>1. /\ stopping' = stopping \cup {c} /\ ops' = ops \cup {o} /\ UNCHANGED <<chan, live, born>>
    BY <1>3 DEF FeatureAction
  <2>2. IsOp(o) /\ o.chan = c
    BY DEF IsOp
  <2> HIDE DEF o
  <2> QED BY <1>1, <2>1, <2>2 DEF ChannelTypes
<1> QED BY <1>2, <1>3

LEMMA StopRuntimeTypes ==
  ASSUME ChannelTypes, NEW o \in ops, StopRuntime(o)
  PROVE  ChannelTypes'
<1> DEFINE p == [o EXCEPT !.at = "stop", !.inst = chan[o.chan]]
<1>1. /\ ops' = (ops \ {o}) \cup {p}
      /\ UNCHANGED <<chan, live, stopping, born, on, down, fault>>
  BY DEF StopRuntime, ledger
<1>2. IsOp(p) /\ p.chan \in Channels
  <2>1. IsOp(o) /\ o.chan \in Channels
    BY DEF ChannelTypes
  <2> QED BY <2>1, StoppedOp
<1> HIDE DEF p
<1> QED BY <1>1, <1>2 DEF ChannelTypes

LEMMA FinishActionTypes ==
  ASSUME ChannelTypes, NEW o \in ops, FinishAction(o)
  PROVE  ChannelTypes'
<1> DEFINE c == o.chan
<1>1. /\ c \in Channels /\ ops' = ops \ {o} /\ stopping' = stopping \ {c}
      /\ UNCHANGED <<on, down, fault>>
  BY DEF FinishAction, ChannelTypes, ledger
<1>2. CASE o.action = "enable"
  <2>1. /\ chan' = [chan EXCEPT ![c] = born'[c]] /\ born' = [born EXCEPT ![c] = @ + 1]
        /\ live' \subseteq live \cup {<<c, born'[c]>>}
    BY <1>2 DEF FinishAction
  <2>2. /\ born' \in [Channels -> Nat] /\ born'[c] = born[c] + 1 /\ born[c] \in Nat
        /\ \A d \in Channels \ {c} : born'[d] = born[d]
    BY <1>1, <2>1 DEF ChannelTypes
  <2>3. chan' \in [Channels -> Nat] /\ \A d \in Channels : chan'[d] <= born'[d]
    BY <1>1, <2>1, <2>2 DEF ChannelTypes
  <2>4. \A i \in live' : i[1] \in Channels /\ i[2] \in 1 .. born'[i[1]]
    BY <1>1, <2>1, <2>2 DEF ChannelTypes
  <2> QED BY <1>1, <2>2, <2>3, <2>4 DEF ChannelTypes
<1>3. CASE o.action # "enable"
  <2>1. chan' = [chan EXCEPT ![c] = 0] /\ born' = born /\ live' \subseteq live
    BY <1>3 DEF FinishAction
  <2> QED BY <1>1, <2>1 DEF ChannelTypes
<1> QED BY <1>2, <1>3

LEMMA ChannelStepTypes ==
  ASSUME ChannelTypes, [Next]_vars
  PROVE  ChannelTypes'
<1>1. CASE UNCHANGED <<chan, live, stopping, ops, born, on, down>> /\ fault' \in {fault, TRUE}
  BY <1>1 DEF ChannelTypes
<1>2. CASE StopDispatcher
  <2>1. UNCHANGED <<chan, live, stopping, ops, born, down>> /\ on' = FALSE /\ fault' = TRUE
    BY <1>2 DEF StopDispatcher
  <2> QED BY <2>1 DEF ChannelTypes
<1>3. CASE StopChannels
  <2>1. UNCHANGED <<chan, stopping, ops, born, on, fault>> /\ live' \subseteq live /\ down' = TRUE
    BY <1>3 DEF StopChannels, ledger
  <2> QED BY <2>1 DEF ChannelTypes
<1>4. CASE TaskStep \/ Take \/ Grant \/ (\E c \in Chats : Publish(c)) \/ UNCHANGED vars
  BY <1>1, <1>4 DEF TaskStep, Begin, SendOk, SendFails, Retry, Unwind, Take, Grant, Publish,
     vars, channels, ledger
<1> QED BY <1>2, <1>3, <1>4, FeatureActionTypes, StopRuntimeTypes, FinishActionTypes
        DEF Next, ActionStep

LEMMA OtherTaskTypes ==
  ASSUME IInv, TaskTypes, HandTypes, [Next]_vars, ~Take, ~Grant
  PROVE  TaskTypes' /\ HandTypes'
<1>1. TaskInv
  BY DEF IInv
<1>2. CASE UNCHANGED <<tasks, tails, last, hand>>
  BY <1>1, <1>2, TaskTypesKept DEF HandTypes
<1>3. CASE TaskStep
  <2>1. hand' = hand
    BY <1>3 DEF TaskStep, Begin, SendOk, SendFails, Retry, Unwind
  <2> QED BY <1>1, <1>3, <2>1, TaskStepTypes DEF HandTypes
<1>4. CASE \E c \in Channels, action \in {"enable", "disable"} : FeatureAction(c, action)
  <2>1. PICK c \in Channels, action \in {"enable", "disable"} : FeatureAction(c, action)
    BY <1>4
  <2>2. UNCHANGED <<tails, hand, last>> /\ (tasks' = tasks \/ Cancel(Of(c)))
    BY <2>1 DEF FeatureAction
  <2>3. CASE Cancel(Of(c))
    <3>1. Cancels(Of(c))
      BY <2>2, <2>3 DEF Cancels, Of
    <3> QED BY <1>1, <2>2, <3>1, CancelTypes DEF HandTypes
  <2> QED BY <1>2, <2>2, <2>3
<1>5. CASE StopDispatcher
  <2>1. tails' = tails /\ hand' = None /\ Cancels(tasks)
    BY <1>5 DEF StopDispatcher, Cancels
  <2> QED BY <1>1, <2>1, CancelTypes DEF HandTypes
<1>6. CASE ActionStep \/ StopChannels \/ (\E c \in Chats : Publish(c)) \/ UNCHANGED vars
  BY <1>2, <1>6 DEF ActionStep, StopRuntime, FinishAction, StopChannels, Publish, vars
<1> QED BY <1>3, <1>4, <1>5, <1>6 DEF Next

TypeInv == IInv /\ LineInv /\ PieceInv /\ TaskTypes /\ ChannelTypes /\ HandTypes

LEMMA InitTypes == Init => TypeInv
<1> SUFFICES ASSUME Init PROVE TypeInv
  OBVIOUS
<1>1. TaskTypes
  BY DEF Init, TaskTypes
<1>2. ChannelTypes
  <2>1. /\ chan = [c \in Channels |-> IF c \in Disabled THEN 0 ELSE 1] /\ born = chan
        /\ live = (Channels \ Disabled) \X {1}
        /\ stopping = {} /\ ops = {} /\ on = TRUE /\ down = FALSE /\ fault = FALSE
    BY DEF Init
  <2>2. \A i \in live : i[1] \in Channels /\ i[2] \in 1 .. born[i[1]]
    BY <2>1
  <2>3. chan \in [Channels -> Nat] /\ \A c \in Channels : chan[c] <= born[c]
    BY <2>1
  <2>4. on \in BOOLEAN /\ down \in BOOLEAN /\ fault \in BOOLEAN
    BY <2>1
  <2> QED BY <2>1, <2>2, <2>3, <2>4 DEF ChannelTypes
<1>3. HandTypes
  BY DEF Init, HandTypes
<1> QED BY <1>1, <1>2, <1>3, InitOK, InitLine, InitPiece DEF TypeInv

LEMMA NextTypes == TypeInv /\ [Next]_vars => TypeInv'
BY NextOK, NextLine, NextPiece, ChannelStepTypes, DispatcherTypes, OtherTaskTypes DEF TypeInv

LEMMA TypesAlways == Spec => []TypeInv
BY InitTypes, NextTypes, PTL DEF Spec

\* What is on the bus or set aside is a message of a chat, published for it.
LEMMA LineTypes ==
  ASSUME LineInv, NEW x \in ToSet(bus) \cup ToSet(held)
  PROVE  x.chat \in Chats /\ x.msg \in Msg /\ ToSet(x.parts) \subseteq 1 .. pc[x.chat]
<1>1. x \in ToSet(Line)
  BY OwnElements, ConcatIsSeq DEF LineInv, Line
<1>2. PICK i \in DOMAIN Line : x = Line[i]
  BY <1>1 DEF ToSet
<1>3. Single(x, pc)
  BY <1>2 DEF LineInv, Numbered
<1> QED BY <1>3 DEF Single, Packets, No, ToSet

\* Every variable stays in its type (the dispatcher, its tasks and the
\* registered instances).
THEOREM OutboundTypes == Spec => []TypeOK
<1>1. TypeInv => TypeOK
  <2> SUFFICES ASSUME TypeInv PROVE TypeOK
    OBVIOUS
  <2>0. IInv /\ LineInv /\ PieceInv /\ TaskTypes /\ ChannelTypes /\ HandTypes
    BY DEF TypeInv
  <2>1. ASSUME NEW t \in tasks
        PROVE  /\ t.chat \in Chats /\ t.msg \in Msg /\ ToSet(t.parts) \subseteq 1 .. pc[t.chat]
               /\ t.id \in 1 .. last /\ StageOK(t)
    <3>1. t.chat \in Chats /\ t.msg \in Msg /\ Piece(t.chat, t.parts, pc)
          /\ t.id \in 1 .. last /\ StageOK(t)
      BY <2>0 DEF IInv, TaskInv, IsTask, PieceInv, TaskTypes
    <3>2. ToSet(t.parts) \subseteq 1 .. pc[t.chat]
      BY <3>1 DEF Piece, ToSet
    <3> QED BY <3>1, <3>2
  <2>2. hand # None => hand.inst \in Nat \ {0}
    BY <2>0 DEF IInv, InputInv, HandTypes
  <2>3. slots \in 0 .. PendingLimit /\ sends \in 0 .. Concurrency
    <3>1. /\ Cardinality(tasks) \in Nat /\ Cardinality(Sending) \in Nat
          /\ slots \in Nat /\ sends \in Nat /\ PendingLimit \in Nat /\ Concurrency \in Nat
          /\ slots + Cardinality(tasks) = PendingLimit
          /\ sends + Cardinality(Sending) = Concurrency
      BY <2>0, SendingFinite, OutboundAssumption
         DEF IInv, CountInv, SlotsConserved, Sending
    <3> QED BY <3>1
  <2>4. \A c \in Channels : chan[c] \in 0 .. born[c]
    BY <2>0 DEF ChannelTypes
  <2> QED BY <2>0, <2>1, <2>2, <2>3, <2>4, LineTypes
          DEF TypeOK, LineInv, StageOK, ChannelTypes
<1> QED BY <1>1, TypesAlways, PTL

----------------------------------------------------------------------------
(* What is dropped                                                          *)

\* p was remembered for the message m of its chat, which was taken before what
\* is still in the line q.
Source(p, m, q, n) ==
  /\ p[1] \in Chats /\ m \in 1 .. n[p[1]]
  /\ Script[p[1]][m].kind = "text" /\ Script[p[1]][m].body = p[3]
  /\ p[2] \in {Script[p[1]][m].origin, Script[p[1]][m].id} \ {0}
  /\ \A i \in DOMAIN q : q[i].chat = p[1] => m < No(q[i])

PrintInv == \A p \in prints : \E m : Source(p, m, Line, pc)

Excused(f) == \/ Script[f[1]][f[2]].kind = "muted" \/ Twin(f[1], f[2])
              \/ ChannelOf[f[1]] \in Disabled

\* Until a send fails or a channel is stopped nothing is cancelled and no
\* message is in hand for an instance that is gone.
CalmInv ==
  /\ stopping = {} /\ ops = {} /\ \A t \in tasks : ~t.cancelled
  /\ hand # None => hand.inst = chan[ChannelOf[hand.chat]]
  /\ \A c \in Channels : chan[c] = 0 => c \in Disabled
  /\ \A f \in lost : Excused(f)

KeptInv == TypeInv /\ PrintInv /\ (~fault => CalmInv)

\* A message in the line comes after those that were taken.
LEMMA TakenFirst ==
  ASSUME LineInv, NEW z, NEW k, Joins(z, Line, k, pc), z.msg.kind \in {"text", "muted"}
  PROVE  /\ z.chat \in Chats /\ z.parts[1] \in 1 .. pc[z.chat]
         /\ z.msg = Script[z.chat][z.parts[1]] /\ ToSet(z.parts) = {z.parts[1]}
         /\ \E i \in 1 .. k : i \in DOMAIN Line /\ Line[i].chat = z.chat /\ No(Line[i]) = z.parts[1]
<1>1. /\ z.chat \in Chats /\ z.msg = Script[z.chat][z.parts[1]] /\ z.parts = <<z.parts[1]>>
      /\ Piece(z.chat, z.parts, pc) /\ k \in 1 .. Len(Line)
      /\ ToSet(z.parts) = {No(Line[i]) : i \in 1 .. k}
      /\ \A i \in 1 .. k : Line[i].chat = z.chat
  BY DEF Joins
<1>2. z.parts[1] \in 1 .. pc[z.chat] /\ z.parts[1] \in ToSet(z.parts)
  BY <1>1 DEF Piece, ToSet
<1>3. ToSet(z.parts) = {z.parts[1]}
  <2> DEFINE g == z.parts[1]
  <2>1. z.parts = <<g>>
    BY <1>1
  <2> HIDE DEF g
  <2>2. ToSet(<<g>>) = {g}
    BY DEF ToSet
  <2> QED BY <2>1, <2>2 DEF g
<1>4. PICK i \in 1 .. k : z.parts[1] = No(Line[i])
  BY <1>1, <1>2
<1>5. i \in DOMAIN Line
  BY <1>1 DEF LineInv, Numbered
<1> QED BY <1>1, <1>2, <1>3, <1>4, <1>5

LEMMA RestOfLine ==
  ASSUME LineInv, NEW z, NEW k, Takes(z, k)
  PROVE  \A i \in DOMAIN Line' : i + k \in DOMAIN Line /\ Line'[i] = Line[i + k]
<1>1. k \in 0 .. Len(Line) /\ Numbered(Line, pc)
  <2>1. k \in 1 .. Len(Line)
    BY DEF Takes, Joins
  <2> QED BY <2>1 DEF LineInv
<1> QED BY <1>1, RestNumbered DEF Takes

LEMMA TakePrints ==
  ASSUME LineInv, PrintInv, NEW z, NEW k, Takes(z, k), pc' = pc
  PROVE  PrintInv'
<1>1. \A i \in DOMAIN Line' : i + k \in DOMAIN Line /\ Line'[i] = Line[i + k]
  BY RestOfLine
<1>2. \A p, m : Source(p, m, Line, pc) => Source(p, m, Line', pc)
  BY <1>1 DEF Source
<1>3. CASE prints' = prints
  BY <1>2, <1>3 DEF PrintInv
<1>4. CASE z.msg.kind = "text" /\ prints' = Printed(z)
  <2>1. /\ z.chat \in Chats /\ z.parts[1] \in 1 .. pc[z.chat]
        /\ z.msg = Script[z.chat][z.parts[1]]
        /\ \E i \in 1 .. k : i \in DOMAIN Line /\ Line[i].chat = z.chat /\ No(Line[i]) = z.parts[1]
    BY <1>4, TakenFirst DEF Takes
  <2>2. \A i \in DOMAIN Line' : Line'[i].chat = z.chat => z.parts[1] < No(Line'[i])
    <3> SUFFICES ASSUME NEW i \in DOMAIN Line', Line'[i].chat = z.chat
                 PROVE  z.parts[1] < No(Line'[i])
      OBVIOUS
    <3>1. PICK j \in 1 .. k : j \in DOMAIN Line /\ Line[j].chat = z.chat /\ No(Line[j]) = z.parts[1]
      BY <2>1
    <3>2. i + k \in DOMAIN Line /\ Line'[i] = Line[i + k]
      BY <1>1
    <3>3. j < i + k
      <4>1. i \in Nat \ {0} /\ k \in Nat
        BY DEF Takes, Joins, LineInv, Numbered
      <4> QED BY <4>1
    <3>4. Rising(Line)
      BY DEF LineInv, Numbered
    <3> QED BY <3>1, <3>2, <3>3, <3>4 DEF Rising
  <2>3. \A p : \/ p = <<z.chat, z.msg.origin, z.msg.body>> /\ z.msg.origin # 0
               \/ p = <<z.chat, z.msg.id, z.msg.body>> /\ z.msg.id # 0
               => Source(p, z.parts[1], Line', pc)
    BY <1>4, <2>1, <2>2 DEF Source
  <2>4. \A p \in prints' :
          \/ p \in prints
          \/ p = <<z.chat, z.msg.origin, z.msg.body>> /\ z.msg.origin # 0
          \/ p = <<z.chat, z.msg.id, z.msg.body>> /\ z.msg.id # 0
    BY <1>4 DEF Printed, Remember
  <2>5. ASSUME NEW p \in prints' PROVE \E m : Source(p, m, Line', pc)
    BY <1>2, <2>3, <2>4 DEF PrintInv
  <2> QED BY <2>5 DEF PrintInv
<1> QED BY <1>3, <1>4 DEF Takes, Printed

LEMMA NextPrints ==
  ASSUME TypeInv, PrintInv, [Next]_vars
  PROVE  PrintInv'
<1>0. LineInv /\ TaskInv
  BY DEF TypeInv, IInv
<1>1. CASE UNCHANGED <<bus, held, prints, pc>>
  BY <1>1 DEF PrintInv, Line
<1>2. CASE \E c \in Chats : Publish(c)
  <2>1. PICK c \in Chats : Publish(c)
    BY <1>2
  <2>2. PICK x : /\ Line' = Append(Line, x) /\ x.chat = c /\ No(x) = pc[c] + 1
                 /\ prints' = prints
    BY <1>0, <2>1, PublishEffect
  <2>3. \A i \in DOMAIN Line' : Line'[i] = x \/ (i \in DOMAIN Line /\ Line'[i] = Line[i])
    BY <1>0, <2>2 DEF LineInv, Numbered
  <2>4. Grows /\ pc \in [Chats -> Nat]
    BY <1>0, CountsGrow DEF LineInv, Counts
  <2>5. ASSUME NEW p, NEW m, Source(p, m, Line, pc) PROVE Source(p, m, Line', pc')
    <3>1. m \in 1 .. pc'[p[1]]
      BY <2>4, <2>5 DEF Source, Grows
    <3>2. \A i \in DOMAIN Line' : Line'[i].chat = p[1] => m < No(Line'[i])
      BY <2>2, <2>3, <2>4, <2>5 DEF Source
    <3> QED BY <2>5, <3>1, <3>2 DEF Source
  <2> QED BY <2>2, <2>5 DEF PrintInv
<1>3. CASE Take
  <2>1. PICK z, k : Takes(z, k)
    BY <1>0, <1>3, TakeEffect
  <2>2. pc' = pc
    BY <1>0, <1>3, TakeEffect
  <2> QED BY <1>0, <2>1, <2>2, TakePrints
<1> QED BY <1>0, <1>1, <1>2, <1>3, QuietEffect DEF Quietly, Grant, input

\* What the dispatcher drops itself is excused.
LEMMA TakeDrops ==
  ASSUME TypeInv, PrintInv, CalmInv, NEW z, NEW k, Takes(z, k), Unwanted(z)
  PROVE  \A f \in Fragments(z) : Excused(f)
<1>0. LineInv /\ z.chat \in Chats /\ Joins(z, Line, k, pc)
  BY DEF TypeInv, Takes, Joins
<1>1. CASE z.inst = 0
  <2>1. ChannelOf[z.chat] \in Disabled
    BY <1>0, <1>1, OutboundAssumption DEF Takes, CalmInv
  <2> QED BY <2>1 DEF Excused, Fragments
<1>2. CASE z.msg.kind = "muted"
  <2>1. z.msg = Script[z.chat][z.parts[1]] /\ ToSet(z.parts) = {z.parts[1]}
    BY <1>0, <1>2, TakenFirst
  <2> QED BY <1>2, <2>1 DEF Excused, Fragments
<1>3. CASE Suppressed(z)
  <2> DEFINE c == z.chat
             n == z.parts[1]
             p == <<c, z.msg.origin, z.msg.body>>
  <2>1. z.msg.kind = "text" /\ z.msg.origin # 0 /\ p \in prints
    BY <1>3 DEF Suppressed
  <2>2. /\ z.msg = Script[c][n] /\ ToSet(z.parts) = {n} /\ n \in 1 .. pc[c]
        /\ \E i \in 1 .. k : i \in DOMAIN Line /\ Line[i].chat = c /\ No(Line[i]) = n
    BY <1>0, <2>1, TakenFirst
  <2>3. PICK m : Source(p, m, Line, pc)
    BY <2>1 DEF PrintInv
  <2>4. p[1] = c /\ p[2] = z.msg.origin /\ p[3] = z.msg.body
    OBVIOUS
  <2> HIDE DEF p
  <2>5. m \in 1 .. n - 1
    BY <2>2, <2>3, <2>4 DEF Source
  <2>6. Twin(c, n)
    BY <2>1, <2>2, <2>3, <2>4, <2>5 DEF Twin, Source
  <2> QED BY <2>2, <2>6 DEF Excused, Fragments
<1> QED BY <1>1, <1>2, <1>3 DEF Unwanted

LEMMA CalmEnqueue ==
  ASSUME CalmInv, NEW x, x.chat \in Chats, x.inst = chan[ChannelOf[x.chat]], Enqueue(x)
  PROVE  lost' = lost /\ \A t \in tasks' : ~t.cancelled
<1>1. Accepts(x)
  BY DEF CalmInv, Accepts
<1>2. PICK u : Enters(x, u)
  BY <1>1, EnqueueEffect
<1> QED BY <1>1, <1>2, EnqueueEffect DEF Enters, Adds, CalmInv

LEMMA CalmDispatch ==
  ASSUME TypeInv, PrintInv, CalmInv, Take \/ Grant
  PROVE  CalmInv'
<1>0. LineInv
  BY DEF TypeInv
<1>1. CASE Take
  <2>1. PICK z, k : Takes(z, k)
    BY <1>0, <1>1, TakeEffect
  <2>2. UNCHANGED <<chan, stopping, ops>>
    BY <1>0, <1>1, TakeEffect
  <2>3. z.chat \in Chats /\ z.inst = chan[ChannelOf[z.chat]]
    BY <2>1 DEF Takes, Joins
  <2>4. CASE Unwanted(z)
    <3>1. lost' = lost \cup Fragments(z) /\ UNCHANGED <<tasks, hand>>
      BY <2>1, <2>4 DEF Takes, Drop
    <3>2. \A f \in Fragments(z) : Excused(f)
      BY <2>1, <2>4, TakeDrops
    <3> QED BY <2>2, <3>1, <3>2 DEF CalmInv
  <2>5. CASE hand' = z /\ UNCHANGED <<tasks, lost>>
    BY <2>2, <2>3, <2>5 DEF CalmInv
  <2>6. CASE Enqueue(z) /\ UNCHANGED hand
    <3>1. lost' = lost /\ \A t \in tasks' : ~t.cancelled
      BY <2>3, <2>6, CalmEnqueue
    <3> QED BY <2>2, <2>6, <3>1 DEF CalmInv
  <2> QED BY <2>1, <2>4, <2>5, <2>6 DEF Takes
<1>2. CASE Grant
  <2>1. hand # None /\ Enqueue(hand) /\ hand' = None /\ UNCHANGED <<chan, stopping, ops>>
    BY <1>2 DEF Grant, channels
  <2>2. hand.chat \in Chats /\ hand.inst = chan[ChannelOf[hand.chat]]
    BY <2>1 DEF TypeInv, IInv, InputInv, CalmInv
  <2>3. lost' = lost /\ \A t \in tasks' : ~t.cancelled
    BY <2>1, <2>2, CalmEnqueue
  <2> QED BY <2>1, <2>3 DEF CalmInv
<1> QED BY <1>1, <1>2

LEMMA CalmTaskStep ==
  ASSUME TypeInv, CalmInv, TaskStep, ~fault'
  PROVE  CalmInv'
<1>1. PICK t \in tasks : Begin(t) \/ SendOk(t) \/ SendFails(t) \/ Retry(t) \/ Unwind(t)
  BY DEF TaskStep
<1>2. ~Unwind(t) /\ ~SendFails(t)
  BY DEF CalmInv, Unwind, SendFails
<1>3. UNCHANGED <<chan, stopping, ops, hand, lost>>
  BY <1>1, <1>2 DEF Begin, SendOk, Retry, channels, ledger
<1>4. \A v \in tasks' : ~v.cancelled
  <2>1. TaskInv
    BY DEF TypeInv, IInv
  <2>2. PICK w \in tasks : (\E u : Starts(w, u) \/ Stays(w, u)) \/ Leaves(w)
    BY <2>1, TaskEffect
  <2> QED BY <2>2 DEF Starts, Stays, Advances, Changes, Leaves, Ends, CalmInv
<1> QED BY <1>3, <1>4 DEF CalmInv

LEMMA CalmFeatureAction ==
  ASSUME TypeInv, CalmInv, NEW c \in Channels, NEW action, FeatureAction(c, action), ~fault'
  PROVE  CalmInv'
<1>1. chan[c] = 0
  BY DEF FeatureAction
<1>2. /\ chan' = [chan EXCEPT ![c] = born'[c]] /\ born' = [born EXCEPT ![c] = @ + 1]
      /\ UNCHANGED <<tasks, stopping, ops, lost, hand>>
  BY <1>1 DEF FeatureAction
<1>3. chan \in [Channels -> Nat] /\ born'[c] # 0
  BY <1>2 DEF TypeInv, ChannelTypes
<1>4. \A d \in Channels : chan'[d] = 0 => d \in Disabled
  BY <1>2, <1>3 DEF CalmInv
<1>5. ASSUME hand # None PROVE hand.inst = chan'[ChannelOf[hand.chat]]
  <2>1. hand.inst # 0 /\ hand.inst = chan[ChannelOf[hand.chat]]
    BY <1>5 DEF TypeInv, IInv, InputInv, CalmInv
  <2>2. ChannelOf[hand.chat] \in Channels
    BY <1>5, OutboundAssumption DEF TypeInv, IInv, InputInv
  <2> QED BY <1>1, <1>2, <1>3, <2>1, <2>2
<1> QED BY <1>2, <1>4, <1>5 DEF CalmInv

LEMMA NextKept == KeptInv /\ [Next]_vars => KeptInv'
<1> SUFFICES ASSUME KeptInv, [Next]_vars PROVE KeptInv'
  OBVIOUS
<1>0. TypeInv /\ PrintInv /\ TypeInv' /\ PrintInv'
  BY NextTypes, NextPrints DEF KeptInv
<1>1. SUFFICES ASSUME ~fault' PROVE CalmInv'
  BY <1>0 DEF KeptInv
<1>2. fault' \in {fault, TRUE}
  BY DEF Next, vars, TaskStep, Begin, SendOk, SendFails, Retry, Unwind, Publish, Take, Grant,
     FeatureAction, ActionStep, StopRuntime, FinishAction, StopDispatcher, StopChannels, ledger
<1>3. CalmInv
  BY <1>1, <1>2 DEF KeptInv
<1>4. CASE UNCHANGED <<stopping, ops, tasks, hand, chan, lost>>
  BY <1>3, <1>4 DEF CalmInv
<1>5. ~ActionStep /\ ~StopDispatcher
  BY <1>1, <1>3 DEF ActionStep, CalmInv, StopDispatcher
<1>6. CASE StopChannels \/ (\E c \in Chats : Publish(c)) \/ UNCHANGED vars
  BY <1>4, <1>6 DEF StopChannels, Publish, vars, channels, ledger
<1> QED BY <1>0, <1>1, <1>3, <1>5, <1>6, CalmDispatch, CalmTaskStep, CalmFeatureAction DEF Next

LEMMA InitKept == Init => KeptInv
<1> SUFFICES ASSUME Init PROVE KeptInv
  OBVIOUS
<1>1. CalmInv
  BY DEF Init, CalmInv
<1>2. PrintInv
  BY DEF Init, PrintInv
<1> QED BY <1>1, <1>2, InitTypes DEF KeptInv

\* As long as no send fails and no channel is stopped, the dispatcher drops no
\* message but progress the channel does not want, a reply that repeats an
\* earlier one, and what is for a channel that is not enabled: a full set of
\* slots makes it wait (_queue_outbound).
THEOREM NothingElseDropped == Spec => []SaturationKeeps
<1>1. KeptInv => SaturationKeeps
  BY DEF KeptInv, CalmInv, SaturationKeeps, Excused
<1> QED BY <1>1, InitKept, NextKept, PTL DEF Spec

----------------------------------------------------------------------------
(* The order of the messages under way                                      *)

\* All parts of g come before those of h, and before what q holds for chat c.
Below(g, h)     == \A i \in ToSet(g), j \in ToSet(h) : i < j
Before(g, c, q) == \A i \in DOMAIN q : q[i].chat = c => \A j \in ToSet(g) : j < No(q[i])

\* The tasks of a chat are in order, and x comes behind them.
TasksAhead(q) ==
  /\ \A t, u \in tasks : t.chat = u.chat /\ t.id < u.id => Below(t.parts, u.parts)
  /\ \A t \in tasks : Before(t.parts, t.chat, q)
Behind(x) == \A t \in tasks : t.chat = x.chat => Below(t.parts, x.parts)

\* The messages of a chat are in order: its tasks, the one in hand, the line.
AheadInv ==
  /\ TasksAhead(Line)
  /\ hand # None => Before(hand.parts, hand.chat, Line) /\ Behind(hand)

LEMMA EnqueueAhead ==
  ASSUME TaskInv, NEW x, x.chat \in Chats, Enqueue(x), NEW q, TasksAhead(q),
         Behind(x), Before(x.parts, x.chat, q)
  PROVE  /\ \A t, u \in tasks' : t.chat = u.chat /\ t.id < u.id => Below(t.parts, u.parts)
         /\ \A t \in tasks' : Before(t.parts, t.chat, q)
<1>1. CASE tasks' = tasks
  BY <1>1 DEF TasksAhead
<1>2. CASE \E u : Enters(x, u)
  <2>1. PICK u : Enters(x, u)
    BY <1>2
  <2>2. /\ tasks' = tasks \cup {u} /\ u.id = last + 1 /\ u.chat = x.chat /\ u.parts = x.parts
        /\ last \in Nat /\ \A t \in tasks : t.id \in 1 .. last
    BY <2>1 DEF Enters, Adds, TaskInv
  <2>3. \A t \in tasks : t.id < u.id /\ ~(u.id < t.id)
    BY <2>2
  <2>4. ~(u.id < u.id)
    BY <2>2
  <2>5. \A t \in tasks : t.chat = u.chat => Below(t.parts, u.parts)
    BY <2>2 DEF Behind
  <2> QED BY <2>2, <2>3, <2>4, <2>5 DEF TasksAhead
<1> QED BY <1>1, <1>2, EnqueueEffect

LEMMA TakeAhead ==
  ASSUME LineInv, AheadInv, NEW z, NEW k, Takes(z, k)
  PROVE  TasksAhead(Line') /\ Behind(z) /\ Before(z.parts, z.chat, Line')
<1>1. \A i \in DOMAIN Line' : i + k \in DOMAIN Line /\ Line'[i] = Line[i + k]
  BY RestOfLine
<1>2. TasksAhead(Line')
  BY <1>1 DEF AheadInv, TasksAhead, Before
<1>3. /\ k \in 1 .. Len(Line) /\ ToSet(z.parts) = {No(Line[i]) : i \in 1 .. k}
      /\ \A i \in 1 .. k : i \in DOMAIN Line /\ Line[i].chat = z.chat
  BY DEF Takes, Joins, LineInv, Numbered
<1>4. Behind(z)
  <2> SUFFICES ASSUME NEW t \in tasks, t.chat = z.chat, NEW a \in ToSet(t.parts),
                      NEW b \in ToSet(z.parts)
               PROVE  a < b
    BY DEF Behind, Below
  <2>1. PICK i \in 1 .. k : b = No(Line[i])
    BY <1>3
  <2> QED BY <1>3, <2>1 DEF AheadInv, TasksAhead, Before
<1>5. Before(z.parts, z.chat, Line')
  <2> SUFFICES ASSUME NEW i \in DOMAIN Line', Line'[i].chat = z.chat, NEW a \in ToSet(z.parts)
               PROVE  a < No(Line'[i])
    BY DEF Before
  <2>1. PICK j \in 1 .. k : a = No(Line[j])
    BY <1>3
  <2>2. j < i + k /\ j \in DOMAIN Line /\ i + k \in DOMAIN Line
    <3>1. i \in Nat \ {0} /\ k \in Nat
      BY DEF Takes, Joins, LineInv, Numbered
    <3> QED BY <1>1, <1>3, <3>1
  <2>3. Rising(Line)
    BY DEF LineInv, Numbered
  <2> QED BY <1>1, <1>3, <2>1, <2>2, <2>3 DEF Rising
<1> QED BY <1>2, <1>4, <1>5

LEMMA PublishAhead ==
  ASSUME TypeInv, AheadInv, NEW c \in Chats, Publish(c)
  PROVE  AheadInv'
<1>0. LineInv /\ PieceInv /\ pc \in [Chats -> Nat]
  BY DEF TypeInv, LineInv, Counts
<1>1. PICK x : Line' = Append(Line, x) /\ x.chat = c /\ No(x) = pc[c] + 1
  BY <1>0, PublishEffect
<1>2. \A i \in DOMAIN Line' : Line'[i] = x \/ (i \in DOMAIN Line /\ Line'[i] = Line[i])
  BY <1>0, <1>1 DEF LineInv, Numbered
<1>3. ASSUME NEW g, NEW d, Piece(d, g, pc), Before(g, d, Line) PROVE Before(g, d, Line')
  <2>1. \A j \in ToSet(g) : j \in Nat /\ j <= pc[d]
    BY <1>3 DEF Piece, ToSet
  <2>2. d = c => \A j \in ToSet(g) : j < No(x)
    BY <1>0, <1>1, <2>1
  <2> QED BY <1>1, <1>2, <1>3, <2>2 DEF Before
<1>4. UNCHANGED <<tasks, hand>>
  BY DEF Publish
<1>5. \A t \in tasks : Before(t.parts, t.chat, Line')
  BY <1>0, <1>3 DEF PieceInv, AheadInv, TasksAhead
<1>6. hand # None => Before(hand.parts, hand.chat, Line')
  BY <1>0, <1>3 DEF PieceInv, AheadInv
<1> QED BY <1>4, <1>5, <1>6 DEF AheadInv, TasksAhead, Behind

LEMMA NextAhead == TypeInv /\ AheadInv /\ [Next]_vars => AheadInv'
<1> SUFFICES ASSUME TypeInv, AheadInv, [Next]_vars PROVE AheadInv'
  OBVIOUS
<1>0. TaskInv /\ LineInv
  BY DEF TypeInv, IInv
<1>1. CASE \E c \in Chats : Publish(c)
  BY <1>1, PublishAhead
<1>2. CASE Take
  <2>1. PICK z, k : Takes(z, k)
    BY <1>0, <1>2, TakeEffect
  <2>2. TasksAhead(Line') /\ Behind(z) /\ Before(z.parts, z.chat, Line')
        /\ hand = None /\ z.chat \in Chats
    BY <1>0, <2>1, TakeAhead DEF Takes, Joins
  <2>3. CASE tasks' = tasks /\ hand' \in {hand, z}
    BY <2>2, <2>3 DEF AheadInv, TasksAhead, Behind
  <2>4. CASE Enqueue(z) /\ hand' = hand
    <3>1. /\ \A t, u \in tasks' : t.chat = u.chat /\ t.id < u.id => Below(t.parts, u.parts)
          /\ \A t \in tasks' : Before(t.parts, t.chat, Line')
      BY <1>0, <2>2, <2>4, EnqueueAhead
    <3> QED BY <2>2, <2>4, <3>1 DEF AheadInv, TasksAhead
  <2> QED BY <2>1, <2>3, <2>4 DEF Takes
<1>3. CASE Grant
  <2>1. hand # None /\ Enqueue(hand) /\ hand' = None /\ UNCHANGED <<bus, held>>
    BY <1>3 DEF Grant, input
  <2>2. hand.chat \in Chats /\ TasksAhead(Line) /\ Behind(hand) /\ Before(hand.parts, hand.chat, Line)
    BY <2>1 DEF TypeInv, IInv, InputInv, AheadInv
  <2>3. /\ \A t, u \in tasks' : t.chat = u.chat /\ t.id < u.id => Below(t.parts, u.parts)
        /\ \A t \in tasks' : Before(t.parts, t.chat, Line)
    BY <1>0, <2>1, <2>2, EnqueueAhead
  <2>4. Line' = Line
    BY <2>1 DEF Line
  <2> QED BY <2>1, <2>3, <2>4 DEF AheadInv, TasksAhead
<1>4. CASE Quietly
  <2>1. Line' = Line /\ hand' \in {hand, None} /\ Inherits
    BY <1>4 DEF Quietly, Line
  <2>2. \A t, u \in tasks' : t.chat = u.chat /\ t.id < u.id => Below(t.parts, u.parts)
    BY <2>1 DEF Inherits, Same, AheadInv, TasksAhead
  <2>3. \A t \in tasks' : Before(t.parts, t.chat, Line)
    BY <2>1 DEF Inherits, Same, AheadInv, TasksAhead
  <2>4. hand # None => \A t \in tasks' : t.chat = hand.chat => Below(t.parts, hand.parts)
    BY <2>1 DEF Inherits, Same, AheadInv, Behind
  <2> QED BY <2>1, <2>2, <2>3, <2>4 DEF AheadInv, TasksAhead, Behind
<1> QED BY <1>0, <1>1, <1>2, <1>3, <1>4, QuietEffect

\* The numbers of chat c in its tasks, in hand and in the line.
InTasks(c, n) == \E t \in tasks : t.chat = c /\ n \in ToSet(t.parts)
InHand(c, n)  == hand # None /\ hand.chat = c /\ n \in ToSet(hand.parts)
InLine(c, n)  == \E i \in DOMAIN Line : Line[i].chat = c /\ n = No(Line[i])

WayInv == \A c, n : n \in OnTheWay(c) <=> InTasks(c, n) \/ InHand(c, n) \/ InLine(c, n)

LEMMA OneIsSeq ==
  ASSUME NEW e
  PROVE  IsSeq(<<e>>) /\ ToSet(<<e>>) = {e}
<1>1. <<e>> \in Seq({e})
  OBVIOUS
<1>2. IsSeq(<<e>>)
  BY <1>1, OwnElements
<1>3. ToSet(<<e>>) = {e}
  BY DEF ToSet
<1> QED BY <1>2, <1>3

LEMMA WayIs == TypeInv => WayInv
<1> SUFFICES ASSUME TypeInv, NEW c, NEW n
             PROVE  n \in OnTheWay(c) <=> InTasks(c, n) \/ InHand(c, n) \/ InLine(c, n)
  BY DEF WayInv
<1>1. IsSeq(held) /\ IsSeq(bus) /\ IsSeq(held \o bus) /\ LineInv
  BY OwnElements, ConcatIsSeq DEF TypeInv, LineInv
<1>2. ToSet(Waiting) = ToSet(Line) \cup (IF hand = None THEN {} ELSE {hand})
  <2>1. CASE hand = None
    BY <2>1 DEF Waiting, Line
  <2>2. CASE hand # None
    <3>1. IsSeq(<<hand>>) /\ ToSet(<<hand>>) = {hand}
      BY OneIsSeq
    <3>2. IsSeq(<<hand>> \o held) /\ ToSet(<<hand>> \o held) = {hand} \cup ToSet(held)
      BY <1>1, <3>1, ConcatIsSeq
    <3>3. ToSet((<<hand>> \o held) \o bus) = {hand} \cup ToSet(held) \cup ToSet(bus)
      BY <1>1, <3>2, ConcatIsSeq
    <3>4. ToSet(Line) = ToSet(held) \cup ToSet(bus)
      BY <1>1, ConcatIsSeq DEF Line
    <3> QED BY <2>2, <3>3, <3>4 DEF Waiting
  <2> QED BY <2>1, <2>2
<1>3. n \in OnTheWay(c) <=> \E x \in tasks \cup ToSet(Waiting) : x.chat = c /\ n \in ToSet(x.parts)
  BY DEF OnTheWay
<1>4. \A i \in DOMAIN Line : ToSet(Line[i].parts) = {No(Line[i])}
  <2> SUFFICES ASSUME NEW i \in DOMAIN Line PROVE ToSet(Line[i].parts) = {No(Line[i])}
    OBVIOUS
  <2>1. Line[i].parts \in Seq(Nat) /\ Len(Line[i].parts) = 1
    BY <1>1 DEF LineInv, Numbered, Single, Packets
  <2> QED BY <2>1 DEF ToSet, No
<1>5. (\E x \in ToSet(Line) : x.chat = c /\ n \in ToSet(x.parts)) <=> InLine(c, n)
  BY <1>4 DEF InLine, ToSet
<1> QED BY <1>2, <1>3, <1>5 DEF InTasks, InHand

----------------------------------------------------------------------------
(* Each chat is served in order                                             *)

\* What a step does to the messages that are on their way: nothing, or the
\* piece g of chat c is not on its way any more.
AllStay == \A d \in Chats : OnTheWay(d)' = OnTheWay(d)
Goes(c, g) ==
  /\ c \in Chats /\ Piece(c, g, pc) /\ ToSet(g) \subseteq OnTheWay(c)
  /\ OnTheWay(c)' = OnTheWay(c) \ ToSet(g)
  /\ \A d \in Chats \ {c} : OnTheWay(d)' = OnTheWay(d)

LEMMA FeedStutters ==
  ASSUME AllStay, UNCHANGED <<pc, got>>
  PROVE  UNCHANGED Feed!vars
BY DEF AllStay, Feed!vars

\* The parts of a piece are next to each other.
LEMMA PieceConvex ==
  ASSUME NEW c, NEW g, Piece(c, g, pc), NEW i \in ToSet(g), NEW j \in ToSet(g), NEW k \in Nat,
         i <= k, k <= j
  PROVE  k \in ToSet(g)
<1>1. g \in Seq(Nat) /\ Len(g) \in Nat \ {0} /\ DOMAIN g = 1 .. Len(g)
      /\ \A a \in 1 .. Len(g) : g[a] = g[1] + a - 1
  BY DEF Piece
<1>2. PICK a \in 1 .. Len(g) : i = g[a]
  BY <1>1 DEF ToSet
<1>3. PICK b \in 1 .. Len(g) : j = g[b]
  BY <1>1 DEF ToSet
<1>4. g[1] \in Nat /\ i = g[1] + a - 1 /\ j = g[1] + b - 1
  BY <1>1, <1>2, <1>3
<1>5. \E m \in 1 .. Len(g) : k = g[1] + m - 1
  <2> DEFINE f == g[1]
             n == Len(g)
  <2>1. f \in Nat /\ n \in Nat /\ a \in 1 .. n /\ b \in 1 .. n /\ f + a - 1 <= k /\ k <= f + b - 1
    BY <1>1, <1>4
  <2> HIDE DEF f, n
  <2>2. k - f + 1 \in 1 .. n /\ k = f + (k - f + 1) - 1
    BY <2>1
  <2> QED BY <2>2 DEF f, n
<1> QED BY <1>1, <1>5 DEF ToSet

LEMMA WayTyped ==
  ASSUME TypeInv, WayInv, NEW c \in Chats
  PROVE  OnTheWay(c) \subseteq Nat
<1> SUFFICES ASSUME NEW n \in OnTheWay(c) PROVE n \in Nat
  OBVIOUS
<1>0. LineInv /\ PieceInv
  BY DEF TypeInv
<1>1. CASE InTasks(c, n)
  BY <1>0, <1>1 DEF InTasks, PieceInv, Piece, ToSet
<1>2. CASE InHand(c, n)
  BY <1>0, <1>2 DEF InHand, PieceInv, Piece, ToSet
<1>3. CASE InLine(c, n)
  BY <1>0, <1>3 DEF InLine, LineInv, Numbered, Single
<1> QED BY <1>1, <1>2, <1>3 DEF WayInv

LEMMA PieceParts ==
  ASSUME NEW c, NEW g, Piece(c, g, pc)
  PROVE  /\ g # <<>> /\ ToSet(g) # {} /\ ToSet(g) = {g[i] : i \in DOMAIN g}
         /\ \A i, k \in DOMAIN g : i < k => g[i] < g[k]
<1>1. g \in Seq(Nat) /\ Len(g) \in Nat \ {0} /\ DOMAIN g = 1 .. Len(g)
      /\ \A a \in 1 .. Len(g) : g[a] = g[1] + a - 1
  BY DEF Piece
<1>2. g # <<>> /\ g[1] \in ToSet(g)
  <2>1. g # <<>> /\ 1 \in DOMAIN g
    BY <1>1
  <2> QED BY <2>1 DEF ToSet
<1>3. ToSet(g) = {g[i] : i \in DOMAIN g}
  BY DEF ToSet
<1>4. g[1] \in Nat /\ \A i, k \in DOMAIN g : i < k => g[i] < g[k]
  <2>1. g[1] \in Nat
    BY <1>1
  <2> QED BY <1>1, <2>1
<1> QED BY <1>2, <1>3, <1>4

LEMMA FeedLoses ==
  ASSUME TypeInv, WayInv, NEW c, NEW g, Goes(c, g), UNCHANGED <<pc, got>>
  PROVE  Feed!Lose(c)
<1> DEFINE gone == ToSet(g)
           way == [d \in Chats |-> OnTheWay(d)]
<1>1. c \in Chats /\ gone \subseteq OnTheWay(c) /\ gone # {}
  BY PieceParts DEF Goes
<1>2. \A i, j \in gone, k \in OnTheWay(c) : i <= k /\ k <= j => k \in gone
  <2> SUFFICES ASSUME NEW i \in gone, NEW j \in gone, NEW k \in OnTheWay(c), i <= k, k <= j
               PROVE  k \in gone
    OBVIOUS
  <2>1. k \in Nat
    BY <1>1, WayTyped
  <2> QED BY <2>1, PieceConvex DEF Goes
<1>3. way' = [way EXCEPT ![c] = @ \ gone]
  BY DEF Goes
<1>4. way[c] = OnTheWay(c)
  BY <1>1
<1> HIDE DEF gone, way
<1>5. gone \in SUBSET way[c] /\ \A i, j \in gone, k \in way[c] : i <= k /\ k <= j => k \in gone
  BY <1>1, <1>2, <1>4
<1> QED BY <1>1, <1>3, <1>5 DEF Feed!Lose, way

LEMMA FeedServes ==
  ASSUME TypeInv, WayInv, NEW c \in Chats, NEW g, Piece(c, g, pc), ToSet(g) \subseteq OnTheWay(c),
         \A i \in ToSet(g), k \in OnTheWay(c) \ ToSet(g) : i < k,
         AllStay \/ Goes(c, g), pc' = pc, got' = [got EXCEPT ![c] = Append(@, g)]
  PROVE  Feed!Serve(c)
<1> DEFINE way == [d \in Chats |-> OnTheWay(d)]
           first == ToSet(g)
<1>1. way[c] = OnTheWay(c) /\ first \in SUBSET way[c]
      /\ \A i \in first, k \in way[c] \ first : i < k
  OBVIOUS
<1>2. way' \in {way, [way EXCEPT ![c] = @ \ first]}
  <2>1. CASE AllStay
    BY <2>1 DEF AllStay
  <2>2. CASE Goes(c, g)
    BY <2>2 DEF Goes
  <2> QED BY <2>1, <2>2
<1> DEFINE m == got'[c][Len(got'[c])]
<1>3. got'[c] # <<>> /\ m = g
  <2>1. got[c] \in Seq(Seq(Nat)) /\ g \in Seq(Nat) /\ got'[c] = Append(got[c], g)
    BY DEF TypeInv, PieceInv, Piece
  <2>2. /\ Append(got[c], g) # <<>> /\ Len(Append(got[c], g)) = Len(got[c]) + 1
        /\ Append(got[c], g)[Len(got[c]) + 1] = g
    BY <2>1, AppendProperties
  <2> QED BY <2>1, <2>2
<1>4. /\ m # <<>> /\ first = {m[i] : i \in DOMAIN m}
      /\ \A i, k \in DOMAIN m : i < k => m[i] < m[k]
      /\ got' = [got EXCEPT ![c] = Append(@, m)]
  <2> HIDE DEF m
  <2> QED BY <1>3, PieceParts
<1> HIDE DEF way, first, m
<1>5. \E f \in SUBSET way[c] :
        /\ \A i \in f, k \in way[c] \ f : i < k
        /\ got' = [got EXCEPT ![c] = Append(@, m)]
        /\ m # <<>> /\ f = {m[i] : i \in DOMAIN m}
        /\ \A i, k \in DOMAIN m : i < k => m[i] < m[k]
        /\ way' \in {way, [way EXCEPT ![c] = @ \ f]}
  BY <1>1, <1>2, <1>4
<1> QED BY <1>3, <1>5, Zenon DEF Feed!Serve, way, m

\* Pieces one of which is below the other have nothing in common.
LEMMA Apart ==
  ASSUME NEW g, NEW h, NEW c, NEW d, Piece(c, g, pc), Piece(d, h, pc), Below(g, h) \/ Below(h, g)
  PROVE  \A n : ~(n \in ToSet(g) /\ n \in ToSet(h))
<1>1. \A n \in ToSet(g) : n \in Nat
  BY DEF Piece, ToSet
<1> QED BY <1>1 DEF Below

\* The tasks hold the messages they held.
TasksStay == \A c, n : InTasks(c, n)' <=> InTasks(c, n)

\* A number on its way is with one task, in hand or in the line.
LEMMA TaskAlone ==
  ASSUME TypeInv, AheadInv, NEW t \in tasks, NEW n \in ToSet(t.parts)
  PROVE  /\ \A u \in tasks : u.chat = t.chat /\ n \in ToSet(u.parts) => u = t
         /\ ~InHand(t.chat, n) /\ ~InLine(t.chat, n)
<1>0. TaskInv /\ PieceInv /\ Piece(t.chat, t.parts, pc)
  BY DEF TypeInv, IInv, PieceInv
<1>1. ASSUME NEW u \in tasks, u.chat = t.chat, n \in ToSet(u.parts) PROVE u = t
  <2>1. SUFFICES ASSUME u # t PROVE FALSE
    OBVIOUS
  <2>2. u.id < t.id \/ t.id < u.id
    BY <1>0, <2>1 DEF TaskInv
  <2>3. Below(u.parts, t.parts) \/ Below(t.parts, u.parts)
    BY <1>1, <2>2 DEF AheadInv, TasksAhead
  <2>4. Piece(u.chat, u.parts, pc)
    BY <1>0 DEF PieceInv
  <2> QED BY <1>0, <1>1, <2>3, <2>4, Apart
<1>2. ~InHand(t.chat, n)
  <2> SUFFICES ASSUME InHand(t.chat, n) PROVE FALSE
    OBVIOUS
  <2>1. Below(t.parts, hand.parts) /\ Piece(hand.chat, hand.parts, pc) /\ n \in ToSet(hand.parts)
    BY <1>0 DEF InHand, AheadInv, Behind, PieceInv
  <2> QED BY <1>0, <2>1, Apart
<1>3. ~InLine(t.chat, n)
  <2> SUFFICES ASSUME InLine(t.chat, n) PROVE FALSE
    OBVIOUS
  <2>1. n < n
    BY DEF InLine, AheadInv, TasksAhead, Before
  <2>2. n \in Nat
    BY <1>0 DEF Piece, ToSet
  <2> QED BY <2>1, <2>2
<1> QED BY <1>1, <1>2, <1>3

LEMMA HandAlone ==
  ASSUME TypeInv, AheadInv, hand # None, NEW n \in ToSet(hand.parts)
  PROVE  ~InTasks(hand.chat, n) /\ ~InLine(hand.chat, n)
<1>1. ~InTasks(hand.chat, n)
  <2> SUFFICES ASSUME NEW t \in tasks, t.chat = hand.chat, n \in ToSet(t.parts) PROVE FALSE
    BY DEF InTasks
  <2>1. ~InHand(t.chat, n)
    BY TaskAlone
  <2> QED BY <2>1 DEF InHand
<1>2. ~InLine(hand.chat, n)
  <2> SUFFICES ASSUME InLine(hand.chat, n) PROVE FALSE
    OBVIOUS
  <2>1. n < n
    BY DEF InLine, AheadInv, Before
  <2>2. n \in Nat
    BY DEF TypeInv, PieceInv, Piece, ToSet
  <2> QED BY <2>1, <2>2
<1> QED BY <1>1, <1>2

LEMMA ChangeStays ==
  ASSUME NEW t, NEW u, Changes(t, u)
  PROVE  TasksStay
BY DEF Changes, TasksStay, InTasks

LEMMA CancelStays ==
  ASSUME TaskInv, NEW ts, Cancels(ts)
  PROVE  TasksStay
<1>1. \A v \in tasks' : \E t \in tasks : v.chat = t.chat /\ v.parts = t.parts
  BY CancelOrigin
<1>2. \A t \in tasks : \E v \in tasks' : v.chat = t.chat /\ v.parts = t.parts
  BY CancelOrigin
<1> QED BY <1>1, <1>2 DEF TasksStay, InTasks

LEMMA SetsEqual ==
  ASSUME NEW S, NEW T, \A n : n \in S <=> n \in T
  PROVE  S = T
OBVIOUS

LEMMA AllStays ==
  ASSUME WayInv, WayInv', TasksStay, UNCHANGED <<hand, bus, held>>
  PROVE  AllStay
<1>1. \A c, n : (InHand(c, n)' <=> InHand(c, n)) /\ (InLine(c, n)' <=> InLine(c, n))
  BY DEF InHand, InLine, Line
<1>2. \A c, n : n \in OnTheWay(c)' <=> n \in OnTheWay(c)
  BY <1>1 DEF WayInv, TasksStay
<1>3. \A c : OnTheWay(c)' = OnTheWay(c)
  BY <1>2, SetsEqual
<1> QED BY <1>3 DEF AllStay

\* What is on its way after a step that removes the piece g of chat c.
LEMMA PieceGoes ==
  ASSUME NEW c \in Chats, NEW g, Piece(c, g, pc), ToSet(g) \subseteq OnTheWay(c),
         \A d, n : n \in OnTheWay(d)' <=> n \in OnTheWay(d) /\ ~(d = c /\ n \in ToSet(g))
  PROVE  Goes(c, g)
<1>1. OnTheWay(c)' = OnTheWay(c) \ ToSet(g)
  <2>1. \A n : n \in OnTheWay(c)' <=> n \in OnTheWay(c) \ ToSet(g)
    OBVIOUS
  <2> QED BY <2>1
<1>2. \A d \in Chats \ {c} : OnTheWay(d)' = OnTheWay(d)
  <2> SUFFICES ASSUME NEW d \in Chats \ {c} PROVE OnTheWay(d)' = OnTheWay(d)
    OBVIOUS
  <2>1. \A n : n \in OnTheWay(d)' <=> n \in OnTheWay(d)
    OBVIOUS
  <2> QED BY <2>1
<1> QED BY <1>1, <1>2 DEF Goes

LEMMA EndGoes ==
  ASSUME TypeInv, AheadInv, WayInv, WayInv', NEW t, Ends(t), UNCHANGED <<hand, bus, held>>
  PROVE  Goes(t.chat, t.parts)
<1>0. /\ t \in tasks /\ tasks' = tasks \ {t} /\ t.chat \in Chats /\ Piece(t.chat, t.parts, pc)
  BY DEF Ends, TypeInv, IInv, TaskInv, IsTask, PieceInv
<1>1. \A d, n : (InHand(d, n)' <=> InHand(d, n)) /\ (InLine(d, n)' <=> InLine(d, n))
  BY DEF InHand, InLine, Line
<1>2. \A n \in ToSet(t.parts) :
        /\ \A u \in tasks : u.chat = t.chat /\ n \in ToSet(u.parts) => u = t
        /\ ~InHand(t.chat, n) /\ ~InLine(t.chat, n)
  BY <1>0, TaskAlone
<1>3. \A d, n : InTasks(d, n)' <=> InTasks(d, n) /\ ~(d = t.chat /\ n \in ToSet(t.parts))
  BY <1>0, <1>2 DEF InTasks
<1>4. \A d, n : n \in OnTheWay(d)' <=> n \in OnTheWay(d) /\ ~(d = t.chat /\ n \in ToSet(t.parts))
  BY <1>1, <1>2, <1>3 DEF WayInv
<1>5. ToSet(t.parts) \subseteq OnTheWay(t.chat)
  BY <1>0 DEF WayInv, InTasks
<1> QED BY <1>0, <1>4, <1>5, PieceGoes

LEMMA HandGoes ==
  ASSUME TypeInv, AheadInv, WayInv, WayInv', hand # None, hand' = None, TasksStay,
         UNCHANGED <<bus, held>>
  PROVE  Goes(hand.chat, hand.parts)
<1>0. hand.chat \in Chats /\ Piece(hand.chat, hand.parts, pc)
  BY DEF TypeInv, IInv, InputInv, PieceInv
<1>1. \A d, n : ~InHand(d, n)' /\ (InLine(d, n)' <=> InLine(d, n))
  BY DEF InHand, InLine, Line
<1>2. \A n \in ToSet(hand.parts) : ~InTasks(hand.chat, n) /\ ~InLine(hand.chat, n)
  BY HandAlone
<1>3. \A d, n : InHand(d, n) <=> d = hand.chat /\ n \in ToSet(hand.parts)
  BY DEF InHand
<1>4. \A d, n : n \in OnTheWay(d)' <=>
                  n \in OnTheWay(d) /\ ~(d = hand.chat /\ n \in ToSet(hand.parts))
  BY <1>1, <1>2, <1>3 DEF WayInv, TasksStay
<1>5. ToSet(hand.parts) \subseteq OnTheWay(hand.chat)
  BY <1>3 DEF WayInv
<1> QED BY <1>0, <1>4, <1>5, PieceGoes

\* The tasks of the step that accepts x.
LEMMA EntersTasks ==
  ASSUME NEW x, NEW u, Enters(x, u)
  PROVE  \A d, n : InTasks(d, n)' <=> InTasks(d, n) \/ (d = x.chat /\ n \in ToSet(x.parts))
BY DEF Enters, Adds, InTasks

LEMMA GrantFeed ==
  ASSUME TypeInv, AheadInv, WayInv, WayInv', Grant
  PROVE  AllStay \/ Goes(hand.chat, hand.parts)
<1>0. hand # None /\ Enqueue(hand) /\ hand' = None /\ UNCHANGED <<bus, held>> /\ hand.chat \in Chats
  BY DEF Grant, input, TypeInv, IInv, InputInv
<1>1. CASE tasks' = tasks
  <2>1. TasksStay
    BY <1>1 DEF TasksStay, InTasks
  <2> QED BY <1>0, <2>1, HandGoes
<1>2. CASE \E u : Enters(hand, u)
  <2>1. \A d, n : InTasks(d, n)' <=> InTasks(d, n) \/ InHand(d, n)
    BY <1>0, <1>2, EntersTasks DEF InHand
  <2>2. \A d, n : ~InHand(d, n)' /\ (InLine(d, n)' <=> InLine(d, n))
    BY <1>0 DEF InHand, InLine, Line
  <2>3. \A c, n : n \in OnTheWay(c)' <=> n \in OnTheWay(c)
    BY <2>1, <2>2 DEF WayInv
  <2>4. \A c : OnTheWay(c)' = OnTheWay(c)
    BY <2>3, SetsEqual
  <2> QED BY <2>4 DEF AllStay
<1> QED BY <1>0, <1>1, <1>2, EnqueueEffect

LEMMA TakeFeed ==
  ASSUME TypeInv, AheadInv, WayInv, WayInv', NEW z, NEW k, Takes(z, k)
  PROVE  AllStay \/ Goes(z.chat, z.parts)
<1>0. /\ LineInv /\ hand = None /\ z.chat \in Chats /\ Piece(z.chat, z.parts, pc)
      /\ k \in 1 .. Len(Line) /\ ToSet(z.parts) = {No(Line[i]) : i \in 1 .. k}
      /\ \A i \in 1 .. k : Line[i].chat = z.chat
      /\ DOMAIN Line = 1 .. Len(Line) /\ Len(Line) \in Nat
  BY DEF TypeInv, Takes, Joins, LineInv, Numbered
<1>1. Behind(z) /\ Before(z.parts, z.chat, Line')
  BY <1>0, TakeAhead
<1>2. \A d, n : InLine(d, n) <=> InLine(d, n)' \/ (d = z.chat /\ n \in ToSet(z.parts))
  <2> SUFFICES ASSUME NEW d, NEW n
               PROVE  InLine(d, n) <=> InLine(d, n)' \/ (d = z.chat /\ n \in ToSet(z.parts))
    OBVIOUS
  <2>1. \A i \in DOMAIN Line' : i + k \in DOMAIN Line /\ Line'[i] = Line[i + k]
    BY <1>0, RestOfLine
  <2>2. \A i \in DOMAIN Line : i \in 1 .. k \/ (i - k \in DOMAIN Line' /\ Line'[i - k] = Line[i])
    <3>1. Line' = SubSeq(Line, k + 1, Len(Line)) /\ Line \in Seq(Packets)
      BY <1>0 DEF Takes, LineInv, Numbered
    <3>2. DOMAIN Line' = 1 .. Len(Line) - k
      BY <1>0, <3>1
    <3>3. \A i \in DOMAIN Line : i \in 1 .. k \/ i - k \in DOMAIN Line'
      BY <1>0, <3>2
    <3>4. \A i \in DOMAIN Line : (i - k) + k = i
      BY <1>0
    <3> QED BY <2>1, <3>3, <3>4
  <2>3. ASSUME InLine(d, n) PROVE InLine(d, n)' \/ (d = z.chat /\ n \in ToSet(z.parts))
    BY <1>0, <2>2, <2>3 DEF InLine
  <2>4. ASSUME InLine(d, n)' PROVE InLine(d, n)
    BY <2>1, <2>4 DEF InLine
  <2>5. ASSUME d = z.chat, n \in ToSet(z.parts) PROVE InLine(d, n)
    BY <1>0, <2>5 DEF InLine
  <2> QED BY <2>3, <2>4, <2>5
<1>3. \A n \in ToSet(z.parts) : n \in Nat
  BY <1>0 DEF Piece, ToSet
<1>4. \A n \in ToSet(z.parts) : ~InLine(z.chat, n)'
  <2> SUFFICES ASSUME NEW n \in ToSet(z.parts), NEW i \in DOMAIN Line', Line'[i].chat = z.chat,
                      n = No(Line'[i])
               PROVE  FALSE
    BY DEF InLine
  <2> QED BY <1>1, <1>3 DEF Before
<1>5. \A n \in ToSet(z.parts) : ~InTasks(z.chat, n)
  <2> SUFFICES ASSUME NEW n \in ToSet(z.parts), NEW t \in tasks, t.chat = z.chat,
                      n \in ToSet(t.parts)
               PROVE  FALSE
    BY DEF InTasks
  <2> QED BY <1>1, <1>3 DEF Behind, Below
<1>6. CASE UNCHANGED <<tasks, hand>>
  <2>1. \A d, n : (InTasks(d, n)' <=> InTasks(d, n)) /\ ~InHand(d, n) /\ ~InHand(d, n)'
    BY <1>0, <1>6 DEF InTasks, InHand
  <2>2. \A d, n : n \in OnTheWay(d)' <=> n \in OnTheWay(d) /\ ~(d = z.chat /\ n \in ToSet(z.parts))
    BY <1>2, <1>4, <1>5, <2>1 DEF WayInv
  <2>3. ToSet(z.parts) \subseteq OnTheWay(z.chat)
    BY <1>2 DEF WayInv
  <2> QED BY <1>0, <2>2, <2>3, PieceGoes
<1>7. CASE ~Unwanted(z) /\ hand' = z /\ tasks' = tasks
  <2>1. \A d, n : (InTasks(d, n)' <=> InTasks(d, n)) /\ ~InHand(d, n)
    BY <1>0, <1>7 DEF InTasks, InHand
  <2>2. \A d, n : InHand(d, n)' <=> d = z.chat /\ n \in ToSet(z.parts)
    <3>1. z # None
      BY <1>7 DEF Unwanted, None
    <3> QED BY <1>7, <3>1 DEF InHand
  <2>3. \A c, n : n \in OnTheWay(c)' <=> n \in OnTheWay(c)
    BY <1>2, <2>1, <2>2 DEF WayInv
  <2>4. \A c : OnTheWay(c)' = OnTheWay(c)
    BY <2>3, SetsEqual
  <2> QED BY <2>4 DEF AllStay
<1>8. CASE (\E u : Enters(z, u)) /\ hand' = hand
  <2>1. \A d, n : InTasks(d, n)' <=> InTasks(d, n) \/ (d = z.chat /\ n \in ToSet(z.parts))
    BY <1>8, EntersTasks
  <2>2. \A d, n : ~InHand(d, n) /\ ~InHand(d, n)'
    BY <1>0, <1>8 DEF InHand
  <2>3. \A c, n : n \in OnTheWay(c)' <=> n \in OnTheWay(c)
    BY <1>2, <2>1, <2>2 DEF WayInv
  <2>4. \A c : OnTheWay(c)' = OnTheWay(c)
    BY <2>3, SetsEqual
  <2> QED BY <2>4 DEF AllStay
<1> QED BY <1>0, <1>6, <1>7, <1>8, EnqueueEffect DEF Takes

FeedInv == FullInv /\ TypeInv /\ AheadInv

\* A task that is sending has the first messages of its chat.
LEMMA SendsFirst ==
  ASSUME FeedInv, WayInv, NEW t \in tasks, t.at = "sending"
  PROVE  \A i \in ToSet(t.parts), k \in OnTheWay(t.chat) \ ToSet(t.parts) : i < k
<1> SUFFICES ASSUME NEW i \in ToSet(t.parts), NEW k \in OnTheWay(t.chat), k \notin ToSet(t.parts)
             PROVE  i < k
  OBVIOUS
<1>0. AheadInv /\ TaskInv /\ OrderInv
  BY DEF FeedInv, FullInv, IInv
<1>1. CASE InTasks(t.chat, k)
  <2>1. PICK u \in tasks : u.chat = t.chat /\ k \in ToSet(u.parts)
    BY <1>1 DEF InTasks
  <2>2. u.id # t.id /\ ~(u.id < t.id)
    BY <1>0, <2>1 DEF TaskInv, OrderInv
  <2>3. t.id < u.id
    BY <1>0, <2>2 DEF TaskInv
  <2> QED BY <1>0, <2>1, <2>3 DEF AheadInv, TasksAhead, Below
<1>2. CASE InHand(t.chat, k)
  BY <1>0, <1>2 DEF InHand, AheadInv, Behind, Below
<1>3. CASE InLine(t.chat, k)
  BY <1>0, <1>3 DEF InLine, AheadInv, TasksAhead, Before
<1> QED BY <1>1, <1>2, <1>3 DEF WayInv

LEMMA LosesOrStays ==
  ASSUME TypeInv, WayInv, NEW c, NEW g, AllStay \/ Goes(c, g), UNCHANGED <<pc, got>>
  PROVE  [Feed!Next]_(Feed!vars)
<1>1. CASE AllStay
  BY <1>1, FeedStutters
<1>2. CASE Goes(c, g)
  <2>1. c \in Chats
    BY <1>2 DEF Goes
  <2>2. Feed!Lose(c)
    BY <1>2, FeedLoses
  <2> QED BY <2>1, <2>2 DEF Feed!Next
<1> QED BY <1>1, <1>2

\* What a step of the task t does: it stays or ends, and the chat receives its
\* message or not.
TaskFeeds(t) ==
  /\ UNCHANGED <<hand, bus, held, pc>>
  /\ (\E u : Changes(t, u)) \/ Ends(t)
  /\ got' = got \/ (t.at = "sending" /\ got' = [got EXCEPT ![t.chat] = Append(@, t.parts)])

LEMMA TaskFeedsEffect ==
  ASSUME TaskInv, NEW t \in tasks,
         Begin(t) \/ SendOk(t) \/ SendFails(t) \/ Retry(t) \/ Unwind(t)
  PROVE  TaskFeeds(t)
<1>1. /\ UNCHANGED <<hand, bus, held, pc>>
      /\ got' = got \/ (t.at = "sending" /\ got' = [got EXCEPT ![t.chat] = Append(@, t.parts)])
  BY DEF Begin, SendOk, SendFails, Retry, Unwind, Show, input
<1>2. (\E u : Starts(t, u) \/ Stays(t, u)) \/ Leaves(t)
  BY BeginEffect, RetryEffect, SendFailsEffect, LeaveEffect
<1> QED BY <1>1, <1>2 DEF TaskFeeds, Starts, Stays, Advances, Leaves

LEMMA TaskFeed ==
  ASSUME FeedInv, WayInv, WayInv', TaskStep
  PROVE  [Feed!Next]_(Feed!vars)
<1>0. TaskInv /\ TypeInv /\ AheadInv /\ PieceInv
  BY DEF FeedInv, TypeInv, IInv
<1>1. PICK t \in tasks : TaskFeeds(t)
  BY <1>0, TaskFeedsEffect DEF TaskStep
<1>2. t.chat \in Chats /\ Piece(t.chat, t.parts, pc) /\ ToSet(t.parts) \subseteq OnTheWay(t.chat)
  BY <1>0 DEF TaskInv, IsTask, PieceInv, WayInv, InTasks
<1>3. AllStay \/ Goes(t.chat, t.parts)
  <2>1. CASE \E u : Changes(t, u)
    <3>1. TasksStay
      BY <2>1, ChangeStays
    <3> QED BY <1>1, <3>1, AllStays DEF TaskFeeds
  <2>2. CASE Ends(t)
    BY <1>0, <1>1, <2>2, EndGoes DEF TaskFeeds
  <2> QED BY <1>1, <2>1, <2>2 DEF TaskFeeds
<1>4. CASE got' = got
  <2>1. pc' = pc
    BY <1>1 DEF TaskFeeds
  <2> QED BY <1>0, <1>3, <1>4, <2>1, LosesOrStays
<1>5. CASE t.at = "sending" /\ got' = [got EXCEPT ![t.chat] = Append(@, t.parts)]
  <2>1. \A i \in ToSet(t.parts), k \in OnTheWay(t.chat) \ ToSet(t.parts) : i < k
    BY <1>5, SendsFirst
  <2>2. pc' = pc
    BY <1>1 DEF TaskFeeds
  <2>3. Feed!Serve(t.chat)
    BY <1>0, <1>2, <1>3, <1>5, <2>1, <2>2, FeedServes
  <2> QED BY <1>2, <2>3 DEF Feed!Next
<1> QED BY <1>1, <1>4, <1>5 DEF TaskFeeds

LEMMA PublishFeed ==
  ASSUME FeedInv, WayInv, WayInv', NEW c \in Chats, Publish(c)
  PROVE  Feed!Publish(c)
<1> DEFINE way == [d \in Chats |-> OnTheWay(d)]
<1>0. LineInv /\ pc \in [Chats -> Nat] /\ UNCHANGED <<tasks, hand, got>>
  BY DEF FeedInv, TypeInv, LineInv, Counts, Publish
<1>1. PICK x : /\ Line' = Append(Line, x) /\ x.chat = c /\ No(x) = pc[c] + 1
               /\ pc' = [pc EXCEPT ![c] = @ + 1]
  BY <1>0, PublishEffect
<1>2. \A d, n : InLine(d, n)' <=> InLine(d, n) \/ (d = c /\ n = pc[c] + 1)
  <2>1. /\ \A i \in DOMAIN Line' : Line'[i] = x \/ (i \in DOMAIN Line /\ Line'[i] = Line[i])
        /\ \A i \in DOMAIN Line : i \in DOMAIN Line' /\ Line'[i] = Line[i]
        /\ \E i \in DOMAIN Line' : Line'[i] = x
    <3>1. Line \in Seq(Packets) /\ Len(Line) \in Nat /\ DOMAIN Line = 1 .. Len(Line)
      BY <1>0 DEF LineInv, Numbered
    <3>2. /\ DOMAIN Append(Line, x) = 1 .. Len(Line) + 1 /\ Append(Line, x)[Len(Line) + 1] = x
          /\ \A i \in 1 .. Len(Line) : Append(Line, x)[i] = Line[i]
      BY <3>1
    <3> QED BY <1>1, <3>1, <3>2
  <2> QED BY <1>1, <2>1 DEF InLine
<1>3. \A d, n : (InTasks(d, n)' <=> InTasks(d, n)) /\ (InHand(d, n)' <=> InHand(d, n))
  BY <1>0 DEF InTasks, InHand
<1>4. \A d, n : n \in OnTheWay(d)' <=> n \in OnTheWay(d) \/ (d = c /\ n = pc[c] + 1)
  BY <1>2, <1>3 DEF WayInv
<1>5. OnTheWay(c)' = OnTheWay(c) \cup {pc[c] + 1}
  <2>1. \A n : n \in OnTheWay(c)' <=> n \in OnTheWay(c) \cup {pc[c] + 1}
    BY <1>4
  <2> QED BY <2>1, SetsEqual
<1>6. \A d \in Chats \ {c} : OnTheWay(d)' = OnTheWay(d)
  <2> SUFFICES ASSUME NEW d \in Chats \ {c} PROVE OnTheWay(d)' = OnTheWay(d)
    OBVIOUS
  <2>1. \A n : n \in OnTheWay(d)' <=> n \in OnTheWay(d)
    BY <1>4
  <2> QED BY <2>1, SetsEqual
<1>7. way' = [way EXCEPT ![c] = @ \cup {pc[c] + 1}]
  BY <1>5, <1>6
<1> HIDE DEF way
<1> QED BY <1>0, <1>1, <1>7 DEF Feed!Publish, way

LEMMA OtherFeed ==
  ASSUME FeedInv, WayInv, WayInv', [Next]_vars, ~Take, ~Grant, ~TaskStep,
         ~(\E c \in Chats : Publish(c))
  PROVE  [Feed!Next]_(Feed!vars)
<1>0. TaskInv /\ TypeInv /\ AheadInv
  BY DEF FeedInv, TypeInv, IInv
<1>1. UNCHANGED <<pc, got, bus, held>>
  BY DEF Next, vars, FeatureAction, ActionStep, StopRuntime, FinishAction, StopDispatcher,
     StopChannels, input
<1>2. CASE hand' = hand /\ TasksStay
  <2>1. AllStay
    BY <1>1, <1>2, AllStays
  <2> QED BY <1>1, <2>1, FeedStutters
<1>3. CASE StopDispatcher
  <2>1. hand' = None /\ Cancels(tasks)
    BY <1>3 DEF StopDispatcher, Cancels
  <2>2. TasksStay
    BY <1>0, <2>1, CancelStays
  <2>3. CASE hand = None
    BY <1>2, <2>1, <2>2, <2>3
  <2>4. CASE hand # None
    <3>1. Goes(hand.chat, hand.parts)
      BY <1>0, <1>1, <2>1, <2>2, <2>4, HandGoes
    <3> QED BY <1>0, <1>1, <3>1, LosesOrStays
  <2> QED BY <2>3, <2>4
<1>4. CASE \E c \in Channels, action \in {"enable", "disable"} : FeatureAction(c, action)
  <2>1. PICK c \in Channels, action \in {"enable", "disable"} : FeatureAction(c, action)
    BY <1>4
  <2>2. UNCHANGED <<hand, last>> /\ (tasks' = tasks \/ Cancel(Of(c)))
    BY <2>1 DEF FeatureAction
  <2>3. TasksStay
    <3>1. CASE tasks' = tasks
      BY <3>1 DEF TasksStay, InTasks
    <3>2. CASE Cancel(Of(c))
      <4>1. Cancels(Of(c))
        BY <2>2, <3>2 DEF Cancels, Of
      <4> QED BY <1>0, <4>1, CancelStays
    <3> QED BY <2>2, <3>1, <3>2
  <2> QED BY <1>2, <2>2, <2>3
<1>5. CASE ActionStep \/ StopChannels \/ UNCHANGED vars
  <2>1. UNCHANGED <<hand, tasks>>
    BY <1>5 DEF ActionStep, StopRuntime, FinishAction, StopChannels, vars
  <2> QED BY <1>2, <2>1 DEF TasksStay, InTasks
<1> QED BY <1>3, <1>4, <1>5 DEF Next

LEMMA StepFeeds ==
  ASSUME FeedInv, WayInv, WayInv', [Next]_vars
  PROVE  [Feed!Next]_(Feed!vars)
<1>0. TypeInv /\ AheadInv /\ LineInv
  BY DEF FeedInv, TypeInv
<1>1. CASE \E c \in Chats : Publish(c)
  BY <1>1, PublishFeed DEF Feed!Next
<1>2. CASE Take
  <2>1. PICK z, k : Takes(z, k)
    BY <1>0, <1>2, TakeEffect
  <2>2. UNCHANGED <<pc, got>>
    BY <1>0, <1>2, TakeEffect
  <2>3. AllStay \/ Goes(z.chat, z.parts)
    BY <1>0, <2>1, TakeFeed
  <2> QED BY <1>0, <2>2, <2>3, LosesOrStays
<1>3. CASE Grant
  <2>1. AllStay \/ Goes(hand.chat, hand.parts)
    BY <1>0, <1>3, GrantFeed
  <2>2. UNCHANGED <<pc, got>>
    BY <1>3 DEF Grant
  <2> QED BY <1>0, <2>1, <2>2, LosesOrStays
<1> QED BY <1>1, <1>2, <1>3, TaskFeed, OtherFeed

LEMMA InitFeed == Init => Feed!Init
<1> SUFFICES ASSUME Init PROVE Feed!Init
  OBVIOUS
<1>1. WayInv
  BY InitTypes, WayIs
<1>2. tasks = {} /\ hand = None /\ Line = <<>>
  BY DEF Init, Line
<1>3. \A c, n : ~(n \in OnTheWay(c))
  BY <1>1, <1>2 DEF WayInv, InTasks, InHand, InLine
<1>4. \A c \in Chats : OnTheWay(c) = {}
  BY <1>3
<1> QED BY <1>4 DEF Init, Feed!Init

LEMMA InitAhead == Init => AheadInv
<1> SUFFICES ASSUME Init PROVE AheadInv
  OBVIOUS
<1> QED BY DEF Init, AheadInv, TasksAhead

\* While feature actions come one after the other, each chat is served in the
\* order of publication, whatever is joined, retried, given up, refused or
\* cancelled (_outbound_tails, _dispatch_outbound).
THEOREM ServesInOrder == ASSUME ~Overlap PROVE Spec => ImplementsFeed
<1>1. Init => FeedInv
  BY InitFull, InitTypes, InitAhead DEF FeedInv
<1>2. FeedInv /\ [Next]_vars => FeedInv'
  BY NextFull, NextTypes, NextAhead DEF FeedInv
<1>3. FeedInv => WayInv
  BY WayIs DEF FeedInv
<1>4. FeedInv /\ WayInv /\ WayInv' /\ [Next]_vars => [Feed!Next]_(Feed!vars)
  BY StepFeeds
<1> QED BY <1>1, <1>2, <1>3, <1>4, InitFeed, PTL DEF Spec, ImplementsFeed, Feed!Spec
=============================================================================

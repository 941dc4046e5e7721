------------------------- MODULE TurnRecoveryProofs --------------------------
(***************************************************************************)
(* For any number of messages, tool rounds, crashes, stops and failures:   *)
(* an acknowledged follow-up stays on disk, a newer request of the user    *)
(* leaves no older turn on offer or in progress, no request ends in        *)
(* silence, and a continuation begins only while its recovery is in progress*)
(* and once per confirmation.                                              *)
(***************************************************************************)
EXTENDS TurnRecovery, QueueLemmas, FiniteSetTheorems

\* s is a session record.
IsSession(s) ==
  /\ s = [rows |-> s.rows, pend |-> s.pend, chk |-> s.chk, rec |-> s.rec, jnl |-> s.jnl]
  /\ s.rec = [status |-> s.rec.status, id |-> s.rec.id, can |-> s.rec.can, count |-> s.rec.count]
  /\ IsSeq(s.rows)

\* A follow-up is in the session: journaled, or a row of the history.
Has(s, x) == x \in s.jnl \/ <<"user", x>> \in ToSet(s.rows)
Keeps(s, t) == \A x : Has(s, x) => Has(t, x)

\* t is s with more rows, or another checkpoint, flag or recovery.
Extends(s, t) == IsSession(t) /\ t.jnl = s.jnl /\ ToSet(s.rows) \subseteq ToSet(t.rows)

Pending(s) == s.rec.status \in {"resuming", "awaiting_user"}

IsTurn(t) == t = [msg |-> t.msg, n |-> t.n, k |-> t.k, at |-> t.at, out |-> t.out]

\* The shape of the state that the two properties rest on.
Shape ==
  /\ IsSession(mem) /\ IsSession(disk)
  /\ IsTurn(turn) /\ IsSeq(turn.out) /\ IsSeq(queue) /\ IsSeq(waiting)
  /\ ~up => ~Active /\ waiting = <<>> /\ fresh = <<>>

\* What is acknowledged is in the file and, while the gateway runs, in memory.
DurableInv ==
  /\ FollowupDurable
  /\ up => \A x \in journaled : Has(mem, x)

\* While a recovery is pending no message of the user runs or is about to.
RequestInv ==
  Pending(mem) =>
    /\ \A x \in ToSet(waiting) : x.kind # "user"
    /\ Active => turn.msg.kind # "user"

IInv == Shape /\ DurableInv /\ RequestInv

----------------------------------------------------------------------------
(* Sequences                                                               *)

\* What is picked from a sequence is a sequence.
LEMMA PickedIsSeq ==
  ASSUME NEW q, IsSeq(q), NEW places \in SUBSET DOMAIN q
  PROVE  IsSeq(Picked(q, places))
<1>1. Len(q) \in Nat /\ DOMAIN q = 1 .. Len(q)
  BY DEF IsSeq
<1>2. IsFiniteSet(places)
  <2>1. IsFiniteSet(1 .. Len(q))
    BY <1>1, FS_Interval
  <2> QED BY <1>1, <2>1, FS_Subset
<1>3. Cardinality(places) \in Nat
  BY <1>2, FS_CardinalityType
<1>4. DOMAIN Picked(q, places) = 1 .. Cardinality(places)
  BY DEF Picked
<1>5. Picked(q, places) = [j \in 1 .. Cardinality(places) |-> Picked(q, places)[j]]
  BY DEF Picked
<1>6. \A j \in 1 .. Cardinality(places) : Picked(q, places)[j] \in ToSet(Picked(q, places))
  BY <1>4 DEF ToSet
<1> QED BY <1>3, <1>5, <1>6 DEF IsSeq

----------------------------------------------------------------------------
(* Operations on a session                                                 *)

\* A session record by its fields.
LEMMA SessionFields ==
  ASSUME NEW s, IsSession(s)
  PROVE  \E a, p, c, r, j : s = [rows |-> a, pend |-> p, chk |-> c, rec |-> r, jnl |-> j]
BY DEF IsSession

\* One row more.
LEMMA OneRowMore ==
  ASSUME NEW s, IsSession(s), NEW row
  PROVE  /\ Extends(s, [s EXCEPT !.rows = Append(@, row)])
         /\ [s EXCEPT !.rows = Append(@, row)].rec = s.rec
<1> DEFINE t == [s EXCEPT !.rows = Append(@, row)]
<1>0. PICK a, p, c, r, j : s = [rows |-> a, pend |-> p, chk |-> c, rec |-> r, jnl |-> j]
  BY SessionFields
<1>1. t = [rows |-> Append(s.rows, row), pend |-> s.pend, chk |-> s.chk,
           rec |-> s.rec, jnl |-> s.jnl]
  BY <1>0
<1>2. IsSeq(Append(s.rows, row)) /\ ToSet(s.rows) \subseteq ToSet(Append(s.rows, row))
  BY AppendIsSeq DEF IsSession
<1> HIDE DEF t
<1> QED BY <1>1, <1>2 DEF IsSession, Extends, t

LEMMA ExtendsSelf == ASSUME NEW s, IsSession(s) PROVE Extends(s, s)
BY DEF Extends

LEMMA ExtendsChain ==
  ASSUME NEW s, NEW t, NEW u, Extends(s, t), Extends(t, u)
  PROVE  Extends(s, u)
BY DEF Extends

LEMMA ExtendsKeeps == ASSUME NEW s, NEW t, Extends(s, t) PROVE IsSession(t) /\ Keeps(s, t)
BY DEF Extends, Keeps, Has

\* A checkpoint makes a sequence of rows.
LEMMA ChkRowsIsSeq == ASSUME NEW c PROVE IsSeq(ChkRows(c)) /\ Len(ChkRows(c)) \in 0 .. 2
<1>1. CASE c = NoChk
  <2>1. ChkRows(c) = <<>>
    BY <1>1 DEF ChkRows
  <2>2. Len(<<>>) \in 0 .. 2
    OBVIOUS
  <2> QED BY <2>1, <2>2, EmptyIsSeq
<1>2. CASE c # NoChk /\ c[1] \in {"awaiting_tools", "tools_completed"}
  <2>1. PICK a, b : ChkRows(c) = <<a, b>>
    BY <1>2 DEF ChkRows
  <2>2. <<a, b>> \in Seq({a, b}) /\ Len(<<a, b>>) \in 0 .. 2
    OBVIOUS
  <2>3. IsSeq(<<a, b>>)
    BY <2>2, OwnElements
  <2> QED BY <2>1, <2>2, <2>3
<1>3. CASE c # NoChk /\ c[1] \notin {"awaiting_tools", "tools_completed"}
  <2>1. PICK a : ChkRows(c) = <<a>>
    BY <1>3 DEF ChkRows
  <2>2. <<a>> \in Seq({a}) /\ Len(<<a>>) \in 0 .. 2
    OBVIOUS
  <2>3. IsSeq(<<a>>)
    BY <2>2, OwnElements
  <2> QED BY <2>1, <2>2, <2>3
<1> QED BY <1>1, <1>2, <1>3

\* The largest of a few numbers is one of them.
LEMMA MaxOfFew ==
  ASSUME NEW n \in 0 .. 2, NEW S \in SUBSET (0 .. n), 0 \in S
  PROVE  Max(S) \in S
<1>1. PICK x \in S : \A y \in S : x >= y
  <2>1. CASE 2 \in S
    <3>1. \A y \in S : 2 >= y
      OBVIOUS
    <3> QED BY <2>1, <3>1
  <2>2. CASE 2 \notin S /\ 1 \in S
    <3>1. \A y \in S : 1 >= y
      BY <2>2
    <3> QED BY <2>2, <3>1
  <2>3. CASE 2 \notin S /\ 1 \notin S
    <3>1. \A y \in S : 0 >= y
      BY <2>3
    <3> QED BY <3>1
  <2> QED BY <2>1, <2>2, <2>3
<1>2. Max(S) \in S
  BY <1>1 DEF Max
<1> QED BY <1>2

\* The overlap is a number of the restored rows, with which the history ends.
LEMMA OverlapBound ==
  ASSUME NEW rows, NEW more, Len(more) \in 0 .. 2
  PROVE  /\ Overlap(rows, more) \in 0 .. Len(more)
         /\ Overlap(rows, more) # 0 => /\ Overlap(rows, more) <= Len(rows)
                                       /\ IsSuffix(SubSeq(more, 1, Overlap(rows, more)), rows)
<1> DEFINE S == {0} \cup {s \in 1 .. Len(more) :
                            s <= Len(rows) /\ IsSuffix(SubSeq(more, 1, s), rows)}
           n == Len(more)
<1>1. S \subseteq 0 .. n /\ 0 \in S
  OBVIOUS
<1>2. Overlap(rows, more) = Max(S)
  BY DEF Overlap
<1> HIDE DEF S
<1>3. n \in 0 .. 2
  OBVIOUS
<1> HIDE DEF n
<1>4. Overlap(rows, more) \in S
  BY <1>1, <1>2, <1>3, MaxOfFew
<1> QED BY <1>1, <1>4 DEF n, S

\* Materializing a checkpoint adds rows and takes nothing away.
LEMMA RestoreChkExtends ==
  ASSUME NEW s, IsSession(s)
  PROVE  Extends(s, RestoreChk(s)) /\ RestoreChk(s).rec = s.rec
<1> DEFINE more == ChkRows(s.chk)
           rest == SubSeq(more, Overlap(s.rows, more) + 1, Len(more))
<1>1. CASE s.chk = NoChk
  BY <1>1, ExtendsSelf DEF RestoreChk
<1>2. CASE s.chk # NoChk
  <2>1. IsSeq(more) /\ Len(more) \in 0 .. 2
    BY ChkRowsIsSeq
  <2>2. Overlap(s.rows, more) \in 0 .. Len(more)
    BY <2>1, OverlapBound
  <2> HIDE DEF more
  <2>3. rest \in Seq(ToSet(more))
    BY <2>1, <2>2 DEF IsSeq
  <2>4. IsSeq(rest)
    BY <2>3, OwnElements
  <2>5. RestoreChk(s) = [s EXCEPT !.rows = @ \o rest, !.pend = FALSE, !.chk = NoChk]
    BY <1>2 DEF RestoreChk, more
  <2> HIDE DEF rest
  <2>6. IsSeq(s.rows \o rest) /\ ToSet(s.rows) \subseteq ToSet(s.rows \o rest)
    BY <2>4, ConcatIsSeq DEF IsSession
  <2>7. IsSession(RestoreChk(s)) /\ RestoreChk(s).rec = s.rec
    BY <2>5, <2>6 DEF IsSession
  <2>8. RestoreChk(s).rows = s.rows \o rest /\ RestoreChk(s).jnl = s.jnl
    BY <2>5 DEF IsSession
  <2> QED BY <2>6, <2>7, <2>8 DEF Extends
<1> QED BY <1>1, <1>2

\* So does closing a turn of which only the input is known.
LEMMA RestorePendingExtends ==
  ASSUME NEW s, IsSession(s)
  PROVE  Extends(s, RestorePending(s)) /\ RestorePending(s).rec = s.rec
<1>1. /\ IsSeq(Append(s.rows, Closed))
      /\ ToSet(s.rows) \subseteq ToSet(Append(s.rows, Closed))
  BY AppendIsSeq DEF IsSession
<1> QED BY <1>1 DEF RestorePending, Extends, IsSession

LEMMA AppendInterruptionExtends ==
  ASSUME NEW s, IsSession(s)
  PROVE  Extends(s, AppendInterruption(s)) /\ AppendInterruption(s).rec = s.rec
BY OneRowMore, ExtendsSelf DEF AppendInterruption

LEMMA SetStatusExtends ==
  ASSUME NEW s, IsSession(s), NEW status
  PROVE  Extends(s, SetStatus(s, status)) /\ SetStatus(s, status).rec.status = status
BY DEF SetStatus, Extends, IsSession

\* A superseded recovery is not pending any more.
LEMMA SupersedeExtends ==
  ASSUME NEW s, IsSession(s)
  PROVE  Extends(s, Supersede(s)) /\ ~Pending(Supersede(s))
<1> DEFINE r == RestoreChk(s)
           t == IF r.pend THEN RestorePending(r) ELSE AppendInterruption(r)
<1>1. Extends(s, r) /\ IsSession(r)
  BY RestoreChkExtends DEF Extends
<1>2. Extends(r, t) /\ IsSession(t)
  BY <1>1, RestorePendingExtends, AppendInterruptionExtends DEF Extends
<1>3. Supersede(s) = SetStatus(t, "recovered")
  BY DEF Supersede
<1> HIDE DEF t, r
<1>4. Extends(t, Supersede(s)) /\ Supersede(s).rec.status = "recovered"
  BY <1>2, <1>3, SetStatusExtends
<1> QED BY <1>1, <1>2, <1>4, ExtendsChain DEF Pending

\* A turn that completes leaves no recovery in progress.
LEMMA ResolveExtends ==
  ASSUME NEW s, IsSession(s)
  PROVE  Extends(s, Resolve(s)) /\ (Pending(Resolve(s)) => Pending(s))
<1>1. CASE s.rec.status = "resuming"
  BY <1>1, SetStatusExtends DEF Resolve, Pending
<1>2. CASE s.rec.status # "resuming"
  BY <1>2, ExtendsSelf DEF Resolve
<1> QED BY <1>1, <1>2

\* A commit takes a follow-up out of the journal only with its row.
LEMMA CommitTurnKeeps ==
  ASSUME NEW s, IsSession(s), NEW out, IsSeq(out)
  PROVE  /\ IsSession(CommitTurn(s, out)) /\ Keeps(s, CommitTurn(s, out))
         /\ CommitTurn(s, out).rec = s.rec
<1> DEFINE rows == Saved(s.rows, out)
<1>1. IsSeq(rows)
  BY PickedIsSeq DEF Saved
<1> HIDE DEF rows
<1>2. CommitTurn(s, out) = [s EXCEPT !.rows = @ \o rows, !.jnl = Unacked(s, rows),
                                     !.pend = FALSE, !.chk = NoChk]
  BY DEF CommitTurn, rows
<1>3. IsSeq(s.rows \o rows) /\ ToSet(s.rows \o rows) = ToSet(s.rows) \cup ToSet(rows)
  BY <1>1, ConcatIsSeq DEF IsSession
<1>4. IsSession(CommitTurn(s, out)) /\ CommitTurn(s, out).rec = s.rec
  BY <1>2, <1>3 DEF IsSession
<1>5. /\ CommitTurn(s, out).rows = s.rows \o rows
      /\ CommitTurn(s, out).jnl = Unacked(s, rows)
  BY <1>2 DEF IsSession
<1>6. Keeps(s, CommitTurn(s, out))
  BY <1>3, <1>5 DEF Keeps, Has, Unacked
<1> QED BY <1>4, <1>6

\* An offer changes the recovery alone.
LEMMA OfferedExtends ==
  ASSUME NEW s, IsSession(s), NEW id, NEW can
  PROVE  Extends(s, Offered(s, id, can))
<1> DEFINE t == Offered(s, id, can)
           new == [status |-> "awaiting_user", id |-> id, can |-> can, count |-> s.rec.count]
<1>0. PICK a, p, c, r, j : s = [rows |-> a, pend |-> p, chk |-> c, rec |-> r, jnl |-> j]
  BY SessionFields
<1>1. PICK w, x, y, z : s.rec = [status |-> w, id |-> x, can |-> y, count |-> z]
  BY DEF IsSession
<1>2. t = [rows |-> s.rows, pend |-> s.pend, chk |-> s.chk, rec |-> new, jnl |-> s.jnl]
  <2> DEFINE t1 == [s EXCEPT !.rec.status = "awaiting_user"]
             t2 == [t1 EXCEPT !.rec.id = id]
  <2>1. r = [status |-> w, id |-> x, can |-> y, count |-> z]
    BY <1>0, <1>1
  <2>2. t1 = [rows |-> a, pend |-> p, chk |-> c, jnl |-> j,
              rec |-> [status |-> "awaiting_user", id |-> x, can |-> y, count |-> z]]
    BY <1>0, <2>1
  <2>3. t2 = [rows |-> a, pend |-> p, chk |-> c, jnl |-> j,
              rec |-> [status |-> "awaiting_user", id |-> id, can |-> y, count |-> z]]
    <3> HIDE DEF t1
    <3> QED BY <2>2
  <2>4. [t2 EXCEPT !.rec.can = can]
          = [rows |-> a, pend |-> p, chk |-> c, jnl |-> j,
             rec |-> [status |-> "awaiting_user", id |-> id, can |-> can, count |-> z]]
    <3> HIDE DEF t2
    <3> QED BY <2>3
  <2>5. t = [t2 EXCEPT !.rec.can = can]
    BY DEF Offered
  <2> QED BY <1>0, <1>1, <2>4, <2>5
<1> HIDE DEF t
<1> QED BY <1>2 DEF Extends, IsSession, t

\* What a restart makes of the loaded session.
LEMMA RecoveredExtends ==
  ASSUME NEW s, IsSession(s)
  PROVE  Extends(s, Recovered(s))
<1> DEFINE r == RestoreChk(s)
           o == Offered(s, offers + 1, HasContext(s.rows))
           p == Offered(r, offers + 1, TRUE)
<1>1. /\ Extends(s, s)
      /\ Extends(s, SetStatus(s, "recovered"))
      /\ Extends(s, SetStatus(s, "awaiting_user"))
      /\ Extends(s, o)
  BY ExtendsSelf, SetStatusExtends, OfferedExtends
<1>2. Extends(s, r) /\ IsSession(r)
  BY RestoreChkExtends DEF Extends
<1>3. Extends(r, RestorePending(r)) /\ IsSession(RestorePending(r))
  BY <1>2, RestorePendingExtends DEF Extends
<1>4. Extends(RestorePending(r), SetStatus(RestorePending(r), "awaiting_user"))
  BY <1>3, SetStatusExtends
<1>5. Extends(s, SetStatus(RestorePending(r), "awaiting_user"))
  BY <1>2, <1>3, <1>4, ExtendsChain
<1>6. Extends(r, p) /\ IsSession(p)
  BY <1>2, OfferedExtends DEF Extends
<1>7. Extends(p, SetStatus(p, "recovered"))
  BY <1>6, SetStatusExtends
<1>8. Extends(s, p) /\ Extends(s, SetStatus(p, "recovered"))
  BY <1>2, <1>6, <1>7, ExtendsChain
<1>9. Recovered(s) \in {s, SetStatus(s, "recovered"), SetStatus(s, "awaiting_user"), o,
                        SetStatus(RestorePending(r), "awaiting_user"), p, SetStatus(p, "recovered")}
  BY DEF Recovered
<1> HIDE DEF r, o, p
<1> QED BY <1>1, <1>5, <1>8, <1>9

\* A checkpoint changes nothing else.
LEMMA ChkExtends ==
  ASSUME NEW s, IsSession(s), NEW c
  PROVE  Extends(s, [s EXCEPT !.chk = c]) /\ [s EXCEPT !.chk = c].rec = s.rec
BY DEF Extends, IsSession

\* What admitting a message does to the session.
LEMMA AdmittedExtends ==
  ASSUME IsSession(mem), NEW x
  PROVE  /\ Extends(mem, Admitted(x))
         /\ Supersedes(x, mem) => ~Pending(Admitted(x))
         /\ ~Supersedes(x, mem) => Admitted(x) = mem
<1> DEFINE r == IF CancelsTurn(x) THEN RestoreChk(mem) ELSE mem
<1>1. Extends(mem, r) /\ IsSession(r)
  BY RestoreChkExtends, ExtendsSelf DEF Extends
<1> HIDE DEF r
<1>2. Extends(r, Supersede(r)) /\ ~Pending(Supersede(r))
  BY <1>1, SupersedeExtends
<1>3. Extends(mem, Supersede(r))
  BY <1>1, <1>2, ExtendsChain
<1>4. Admitted(x) = IF ~Supersedes(x, mem) THEN mem ELSE Supersede(r)
  BY DEF Admitted, r
<1> QED BY <1>2, <1>3, <1>4, ExtendsSelf

----------------------------------------------------------------------------
(* Steps                                                                   *)

\* A step that leaves the session and its turn alone.
LEMMA Untouched ==
  ASSUME IInv, UNCHANGED <<up, mem, disk, journaled, turn, queue, waiting>>,
         up \/ UNCHANGED fresh
  PROVE  IInv'
<1>1. Shape'
  BY DEF IInv, Shape, Active
<1>2. DurableInv'
  BY DEF IInv, DurableInv, FollowupDurable
<1>3. RequestInv'
  BY DEF IInv, RequestInv, Active, Pending
<1> QED BY <1>1, <1>2, <1>3 DEF IInv

\* A step that replaces the session by one that keeps its follow-ups.
LEMMA SessionKept ==
  ASSUME IInv, up, up' = up, journaled' = journaled,
         NEW s, IsSession(s), Keeps(mem, s), mem' = s, disk' = s \/ disk' = disk
  PROVE  IsSession(mem') /\ IsSession(disk') /\ DurableInv'
<1>1. \A x \in journaled : Has(s, x)
  BY DEF IInv, DurableInv, Keeps
<1>2. \A x \in journaled : Has(disk, x)
  BY DEF IInv, DurableInv, FollowupDurable, Has
<1>3. \A x \in journaled' : Has(mem', x) /\ Has(disk', x)
  BY <1>1, <1>2
<1>4. DurableInv'
  BY <1>3 DEF DurableInv, FollowupDurable, Has
<1> QED BY <1>4 DEF IInv, Shape

\* run() gives a message a task of its own.
LEMMA SpawnStep == IInv /\ Spawn => IInv'
BY Untouched DEF Spawn, files, history

LEMMA SendStep == IInv /\ Send => IInv'
BY Untouched DEF Send, files, history

LEMMA RefuseStep == IInv /\ Refuse => IInv'
BY Untouched DEF Refuse, files

LEMMA WriteTurnEndStep == IInv /\ WriteTurnEnd => IInv'
BY Untouched DEF WriteTurnEnd, files, tasks, history

LEMMA WriteHandleStep == IInv /\ WriteHandle => IInv'
BY Untouched DEF WriteHandle, tasks

\* A follow-up is journaled in both places before it is queued.
LEMMA FollowUpStep == IInv /\ FollowUp => IInv'
<1> SUFFICES ASSUME IInv, FollowUp PROVE IInv'
  OBVIOUS
<1> DEFINE x == Head(bus)
           a == Admitted(x)
           s == [a EXCEPT !.jnl = @ \cup {x}]
<1>1. /\ up /\ up' = up /\ turn' = turn /\ mem' = s /\ disk' = s
      /\ journaled' = journaled \cup {x}
      /\ queue' = queue \/ queue' = Append(queue, x)
      /\ waiting' = IF Supersedes(x, mem) THEN OtherWaiting ELSE waiting
  BY DEF FollowUp, Journal, Save
<1>2. /\ Extends(mem, a)
      /\ Supersedes(x, mem) => ~Pending(a)
      /\ ~Supersedes(x, mem) => a = mem
  BY AdmittedExtends DEF IInv, Shape
<1> HIDE DEF x, a
<1>3. IsSession(s) /\ s.rec = a.rec /\ s.rows = a.rows /\ s.jnl = a.jnl \cup {x}
  BY <1>2 DEF Extends, IsSession
<1> HIDE DEF s
<1>4. IsSeq(queue') /\ IsSeq(waiting')
  BY <1>1, AppendIsSeq, PickedIsSeq DEF IInv, Shape, OtherWaiting
<1>5. Shape'
  BY <1>1, <1>3, <1>4 DEF IInv, Shape, Active
<1>6. \A y \in journaled' : Has(s, y)
  BY <1>1, <1>2, <1>3 DEF IInv, DurableInv, Has, Extends
<1>7. DurableInv'
  BY <1>1, <1>6 DEF DurableInv, FollowupDurable, Has
<1>8. RequestInv'
  BY <1>1, <1>2, <1>3 DEF IInv, RequestInv, Pending, Active
<1> QED BY <1>5, <1>7, <1>8 DEF IInv

\* The end of a turn leaves the shape of a session without one.
LEMMA Released ==
  ASSUME Release
  PROVE  IsTurn(turn') /\ IsSeq(turn'.out) /\ IsSeq(queue') /\ ~Active'
BY EmptyIsSeq DEF Release, Idle, IsTurn, Active

\* A message of the user overtakes the continuation that runs.
LEMMA OvertakeStep == IInv /\ Overtake => IInv'
<1> SUFFICES ASSUME IInv, Overtake PROVE IInv'
  OBVIOUS
<1> DEFINE x == Head(bus)
           a == Admitted(x)
<1>1. /\ up /\ up' = up /\ mem' = a /\ disk' = a /\ journaled' = journaled
      /\ waiting' = OtherWaiting /\ Release /\ Supersedes(x, mem)
  BY DEF Overtake, Save, CancelsTurn
<1>2. Extends(mem, a) /\ ~Pending(a)
  BY <1>1, AdmittedExtends DEF IInv, Shape
<1> HIDE DEF x, a
<1>3. IsSession(a) /\ Keeps(mem, a)
  BY <1>2, ExtendsKeeps
<1>4. IsSession(mem') /\ IsSession(disk') /\ DurableInv'
  BY <1>1, <1>3, SessionKept
<1>5. IsSeq(waiting')
  BY <1>1, PickedIsSeq DEF IInv, Shape, OtherWaiting
<1>6. Shape'
  BY <1>1, <1>4, <1>5, Released DEF Shape
<1>7. RequestInv'
  BY <1>1, <1>2 DEF RequestInv, Pending
<1> QED BY <1>4, <1>6, <1>7 DEF IInv

\* A task starts: it is refused, or admitted and waits for the lock.
LEMMA StartTaskStep == IInv /\ StartTask => IInv'
<1> SUFFICES ASSUME IInv, StartTask PROVE IInv'
  OBVIOUS
<1> DEFINE x == Head(fresh)
           a == Admitted(x)
           w == IF Supersedes(x, mem) THEN OtherWaiting ELSE waiting
<1>1. up /\ up' = up /\ journaled' = journaled
  BY DEF StartTask, IInv, Shape
<1>2. CASE Refused(x, mem)
  <2>1. UNCHANGED <<mem, disk, turn, queue, waiting>>
    BY <1>2 DEF StartTask, files
  <2> QED BY <1>1, <2>1, Untouched
<1>3. CASE ~Refused(x, mem)
  <2>1. /\ mem' = a /\ (disk' = a \/ disk' = disk)
        /\ waiting' = Append(w, x)
        /\ Release \/ UNCHANGED <<turn, queue>>
    BY <1>3, AdmittedExtends DEF StartTask, Save, files, IInv, Shape
  <2>2. /\ Extends(mem, a)
        /\ Supersedes(x, mem) => ~Pending(a)
        /\ ~Supersedes(x, mem) => a = mem
    BY AdmittedExtends DEF IInv, Shape
  <2>3. ~Supersedes(x, mem) /\ Pending(mem) => x.kind # "user"
    BY DEF Supersedes, Pending
  <2>4. IsSeq(w) /\ (~Supersedes(x, mem) => w = waiting)
    BY PickedIsSeq DEF IInv, Shape, OtherWaiting
  <2> HIDE DEF x, a, w
  <2>5. IsSeq(waiting') /\ ToSet(waiting') = ToSet(w) \cup {x}
    BY <2>1, <2>4, AppendIsSeq
  <2>6. IsSession(mem') /\ IsSession(disk') /\ DurableInv'
    BY <1>1, <2>1, <2>2, ExtendsKeeps, SessionKept
  <2>7. IsTurn(turn') /\ IsSeq(turn'.out) /\ IsSeq(queue')
    BY <2>1, Released DEF IInv, Shape
  <2>8. Shape'
    BY <1>1, <2>5, <2>6, <2>7 DEF Shape
  <2>9. ~Active' \/ turn' = turn
    BY <2>1, Released
  <2>10. RequestInv'
    BY <2>1, <2>2, <2>3, <2>4, <2>5, <2>9 DEF IInv, RequestInv, Pending, Active
  <2> QED BY <2>6, <2>8, <2>10 DEF IInv
<1> QED BY <1>2, <1>3

\* A turn begins with the first message that waits.
LEMMA BeginTurnStep == IInv /\ BeginTurn => IInv'
<1> SUFFICES ASSUME IInv, BeginTurn PROVE IInv'
  OBVIOUS
<1> DEFINE x == Head(waiting)
           s == RestoreChk(mem)
           r == RestorePending(s)
           new == [r EXCEPT !.rows = Append(@, <<"user", x>>), !.pend = TRUE, !.jnl = @ \ {x}]
<1>1. /\ up /\ up' = up /\ journaled' = journaled /\ waiting' = Tail(waiting)
      /\ queue' = queue
      /\ turn' = [msg |-> x, n |-> turns + 1, k |-> 0, at |-> "model", out |-> <<>>]
  BY DEF BeginTurn, IInv, Shape
<1>2. IF x.kind = "user" THEN mem' = new /\ disk' = new
      ELSE mem' = s /\ (disk' = s \/ disk' = disk)
  BY DEF BeginTurn, Save, files
<1>3. Extends(mem, s) /\ s.rec = mem.rec /\ IsSession(s)
  BY RestoreChkExtends DEF IInv, Shape, Extends
<1>4. Extends(s, r) /\ r.rec = s.rec /\ IsSession(r)
  BY <1>3, RestorePendingExtends DEF Extends
<1>5. Extends(mem, r)
  BY <1>3, <1>4, ExtendsChain
<1> DEFINE rows == Append(r.rows, <<"user", x>>)
<1>6. IsSeq(rows) /\ ToSet(rows) = ToSet(r.rows) \cup {<<"user", x>>}
  BY <1>4, AppendIsSeq DEF IsSession
<1>7. IsSeq(waiting') /\ ToSet(waiting') \subseteq ToSet(waiting) /\ x \in ToSet(waiting)
  BY <1>1, TailIsSeq DEF IInv, Shape, BeginTurn
<1> HIDE DEF r, s
<1>8. new.rows = rows /\ new.jnl = r.jnl \ {x} /\ new.rec = r.rec
  BY <1>4 DEF IsSession
<1>9. IsSession(new)
  <2>1. PICK a, p, c, q, j : r = [rows |-> a, pend |-> p, chk |-> c, rec |-> q, jnl |-> j]
    BY <1>4, SessionFields
  <2>2. /\ q = [status |-> q.status, id |-> q.id, can |-> q.can, count |-> q.count]
        /\ rows = Append(a, <<"user", x>>)
    BY <1>4, <2>1 DEF IsSession
  <2>3. new = [r EXCEPT !.rows = rows, !.pend = TRUE, !.jnl = r.jnl \ {x}]
    BY <2>1
  <2> HIDE DEF new, rows
  <2> QED BY <1>4, <1>6, <2>3 DEF IsSession
<1> HIDE DEF x, new, rows
<1>10. Keeps(mem, new)
  BY <1>5, <1>6, <1>8 DEF Keeps, Has, Extends
<1>11. IsSession(mem') /\ IsSession(disk') /\ DurableInv'
  <2>1. CASE x.kind = "user"
    BY <1>1, <1>2, <1>9, <1>10, <2>1, SessionKept
  <2>2. CASE x.kind # "user"
    BY <1>1, <1>2, <1>3, <2>2, ExtendsKeeps, SessionKept
  <2> QED BY <2>1, <2>2
<1>12. IsTurn(turn') /\ IsSeq(turn'.out) /\ turn'.msg = x
  BY <1>1, EmptyIsSeq DEF IsTurn
<1>13. Shape'
  BY <1>1, <1>7, <1>11, <1>12 DEF IInv, Shape
<1>14. mem'.rec = mem.rec
  BY <1>2, <1>3, <1>4, <1>8
<1>15. RequestInv'
  BY <1>7, <1>12, <1>14 DEF IInv, RequestInv, Pending
<1> QED BY <1>11, <1>13, <1>15 DEF IInv

\* A checkpoint of the turn that runs.
LEMMA CheckpointStep ==
  ASSUME IInv, up, UNCHANGED <<up, journaled, waiting>>, NEW c, SaveCheckpoint(c),
         IsTurn(turn'), IsSeq(turn'.out), IsSeq(queue'),
         Active' => Active /\ turn'.msg = turn.msg
  PROVE  IInv'
<1> DEFINE s == [mem EXCEPT !.chk = c]
<1>1. mem' = s /\ disk' = disk
  BY DEF SaveCheckpoint
<1>2. Extends(mem, s) /\ s.rec = mem.rec
  BY ChkExtends DEF IInv, Shape
<1> HIDE DEF s
<1>3. IsSession(mem') /\ IsSession(disk') /\ DurableInv'
  BY <1>1, <1>2, ExtendsKeeps, SessionKept
<1>4. Shape'
  BY <1>3 DEF IInv, Shape
<1>5. RequestInv'
  BY <1>1, <1>2 DEF IInv, RequestInv, Pending
<1> QED BY <1>3, <1>4, <1>5 DEF IInv

\* What a turn takes from its queue.
LEMMA InjectIsSeq == ASSUME IsSeq(queue) PROVE IsSeq(Inject)
<1>1. Len(queue) \in Nat /\ DOMAIN queue = 1 .. Len(queue)
  BY DEF IsSeq
<1>2. Inject = [i \in 1 .. Len(queue) |-> <<"user", queue[i]>>]
  BY <1>1 DEF Inject
<1> DEFINE S == {<<"user", queue[i]>> : i \in 1 .. Len(queue)}
<1>3. Inject \in Seq(S)
  BY <1>1, <1>2
<1> QED BY <1>3, OwnElements

\* Facts about a turn that runs.
LEMMA TurnUp == ASSUME IInv, Active PROVE up
BY DEF IInv, Shape

LEMMA CallToolsStep == IInv /\ CallTools => IInv'
<1> SUFFICES ASSUME IInv, CallTools PROVE IInv'
  OBVIOUS
<1> DEFINE out == Append(turn.out, <<"call", turn.n, turn.k + 1>>)
<1>1. up /\ Active
  BY TurnUp DEF CallTools, Active
<1>2. IsSeq(out)
  BY AppendIsSeq DEF IInv, Shape
<1> DEFINE k == turn.k + 1
<1>3. turn' = [turn EXCEPT !.at = "tools", !.k = k, !.out = out]
  BY DEF CallTools
<1> HIDE DEF out, k
<1>5. IsTurn(turn') /\ turn'.out = out /\ turn'.msg = turn.msg
  BY <1>3 DEF IsTurn, IInv, Shape
<1>6. UNCHANGED <<up, journaled, waiting, queue>>
  BY DEF CallTools, tasks
<1>7. PICK e : SaveCheckpoint(e)
  BY DEF CallTools
<1> QED BY <1>1, <1>2, <1>5, <1>6, <1>7, CheckpointStep DEF IInv, Shape

LEMMA FinishToolsStep == IInv /\ FinishTools => IInv'
<1> SUFFICES ASSUME IInv, FinishTools PROVE IInv'
  OBVIOUS
<1> DEFINE one == Append(turn.out, <<"result", turn.n, turn.k>>)
           out == one \o Inject
<1>1. up /\ Active
  BY TurnUp DEF FinishTools, Active
<1>2. IsSeq(one)
  BY AppendIsSeq DEF IInv, Shape
<1>3. IsSeq(out)
  BY <1>2, InjectIsSeq, ConcatIsSeq DEF IInv, Shape
<1>4. turn' = [turn EXCEPT !.at = "model", !.out = out]
  BY DEF FinishTools
<1> HIDE DEF one, out
<1>6. IsTurn(turn') /\ turn'.out = out /\ turn'.msg = turn.msg
  BY <1>4 DEF IsTurn, IInv, Shape
<1>7. UNCHANGED <<up, journaled, waiting>> /\ IsSeq(queue')
  BY EmptyIsSeq DEF FinishTools, tasks
<1>8. PICK e : SaveCheckpoint(e)
  BY DEF FinishTools
<1> QED BY <1>1, <1>3, <1>6, <1>7, <1>8, CheckpointStep

LEMMA AnswerStep == IInv /\ Answer => IInv'
<1> SUFFICES ASSUME IInv, Answer PROVE IInv'
  OBVIOUS
<1> DEFINE one  == Append(turn.out, <<"answer", turn.n, turn.k + 1>>)
           more == IF turn.k < MaxSteps THEN Inject ELSE <<>>
           out  == one \o more
           new  == IF queue # <<>> /\ turn.k < MaxSteps THEN "model" ELSE "answered"
<1>1. up /\ Active
  BY TurnUp DEF Answer, Active
<1>2. IsSeq(one) /\ IsSeq(more)
  BY AppendIsSeq, InjectIsSeq, EmptyIsSeq DEF IInv, Shape
<1> HIDE DEF more
<1>3. IsSeq(out)
  BY <1>2, ConcatIsSeq
<1> DEFINE k == turn.k + 1
<1>4. turn' = [turn EXCEPT !.k = k, !.at = new, !.out = out]
  BY DEF Answer, more
<1> HIDE DEF one, out, new, k
<1>6. IsTurn(turn') /\ turn'.out = out /\ turn'.msg = turn.msg
  BY <1>4 DEF IsTurn, IInv, Shape
<1>7. UNCHANGED <<up, journaled, waiting>> /\ IsSeq(queue')
  BY EmptyIsSeq DEF Answer, tasks, IInv, Shape
<1>8. PICK e : SaveCheckpoint(e)
  BY DEF Answer
<1> QED BY <1>1, <1>3, <1>6, <1>7, <1>8, CheckpointStep

\* A commit puts the turn's rows into the history.
LEMMA CommitStep == IInv /\ Commit => IInv'
<1> SUFFICES ASSUME IInv, Commit PROVE IInv'
  OBVIOUS
<1> DEFINE s == CommitTurn(mem, turn.out)
<1>1. up /\ Active
  BY TurnUp DEF Commit, Active
<1>2. IsSession(s) /\ Keeps(mem, s) /\ s.rec = mem.rec
  BY CommitTurnKeeps DEF IInv, Shape
<1>3. /\ mem' = s /\ disk' = s /\ UNCHANGED <<up, journaled, waiting, queue>>
      /\ turn' = [turn EXCEPT !.at = "committed"]
  BY DEF Commit, Save, tasks, history
<1> HIDE DEF s
<1>4. IsSession(mem') /\ IsSession(disk') /\ DurableInv'
  BY <1>1, <1>2, <1>3, SessionKept
<1>5. IsTurn(turn') /\ turn'.out = turn.out /\ turn'.msg = turn.msg
  BY <1>3 DEF IsTurn, IInv, Shape
<1>6. Shape'
  BY <1>1, <1>3, <1>4, <1>5 DEF IInv, Shape
<1>7. RequestInv'
  BY <1>1, <1>2, <1>3, <1>5 DEF IInv, RequestInv, Pending
<1> QED BY <1>4, <1>6, <1>7 DEF IInv

\* The turn ends, and the session is replaced by one no less complete.
LEMMA EndStep ==
  ASSUME IInv, up, UNCHANGED <<up, journaled>>, Release,
         NEW s, Extends(mem, s), Pending(s) => Pending(mem),
         mem' = s, disk' = s \/ disk' = disk,
         waiting' = waiting \/ waiting' = <<>>
  PROVE  IInv'
<1>1. IsSession(mem') /\ IsSession(disk') /\ DurableInv'
  BY ExtendsKeeps, SessionKept
<1>2. IsSeq(waiting') /\ ToSet(waiting') \subseteq ToSet(waiting)
  BY EmptyIsSeq DEF IInv, Shape
<1>3. Shape'
  BY <1>1, <1>2, Released DEF Shape
<1>4. RequestInv'
  BY <1>2, Released DEF IInv, RequestInv, Pending
<1> QED BY <1>1, <1>3, <1>4 DEF IInv

LEMMA EndTurnStep == IInv /\ (EndTurn \/ TurnRaises) => IInv'
<1> SUFFICES ASSUME IInv, EndTurn \/ TurnRaises PROVE IInv'
  OBVIOUS
<1>1. up
  BY TurnUp DEF EndTurn, TurnRaises, Active
<1>2. Extends(mem, Resolve(mem)) /\ (Pending(Resolve(mem)) => Pending(mem))
  BY ResolveExtends DEF IInv, Shape
<1>3. mem' = Resolve(mem) /\ (disk' = Resolve(mem) \/ disk' = disk)
  BY DEF EndTurn, TurnRaises, Save, files
<1>4. UNCHANGED <<up, journaled, waiting>> /\ Release
  BY DEF EndTurn, TurnRaises, history
<1> QED BY <1>1, <1>2, <1>3, <1>4, EndStep

LEMMA StopStep == IInv /\ Stop => IInv'
<1> SUFFICES ASSUME IInv, Stop PROVE IInv'
  OBVIOUS
<1>1. up /\ UNCHANGED <<up, journaled>> /\ Release /\ waiting' = <<>>
  BY DEF Stop
<1>2. CASE Active /\ mem.chk # NoChk
  <2>1. Extends(mem, RestoreChk(mem)) /\ RestoreChk(mem).rec = mem.rec
    BY RestoreChkExtends DEF IInv, Shape
  <2>2. mem' = RestoreChk(mem) /\ disk' = RestoreChk(mem)
    BY <1>2 DEF Stop, Save
  <2>3. Pending(RestoreChk(mem)) => Pending(mem)
    BY <2>1 DEF Pending
  <2> QED BY <1>1, <2>1, <2>2, <2>3, EndStep
<1>3. CASE ~(Active /\ mem.chk # NoChk)
  <2>1. mem' = mem /\ disk' = disk
    BY <1>3 DEF Stop, files
  <2>2. Extends(mem, mem)
    BY ExtendsSelf DEF IInv, Shape
  <2> QED BY <1>1, <2>1, <2>2, EndStep
<1> QED BY <1>2, <1>3

\* The user's choice; a continuation starts from a recovery on offer, while no
\* message of the user waits or runs.
LEMMA ChoiceStep ==
  ASSUME IInv, up, UNCHANGED <<up, journaled, turn, queue, waiting>>,
         NEW s, Extends(mem, s), Pending(s) => Pending(mem), mem' = s, disk' = s
  PROVE  IInv'
<1>1. IsSession(mem') /\ IsSession(disk') /\ DurableInv'
  BY ExtendsKeeps, SessionKept
<1>2. Shape'
  BY <1>1 DEF IInv, Shape, Active
<1>3. RequestInv'
  BY DEF IInv, RequestInv, Pending, Active
<1> QED BY <1>1, <1>2, <1>3 DEF IInv

LEMMA ContinueStep == IInv /\ Continue => IInv'
<1> SUFFICES ASSUME IInv, Continue PROVE IInv'
  OBVIOUS
<1> DEFINE s == [mem EXCEPT !.rec.status = "resuming", !.rec.count = Len(mem.rows)]
<1>1. up /\ UNCHANGED <<up, journaled, turn, queue, waiting>> /\ mem' = s /\ disk' = s
  BY DEF Continue, Save
<1>2. Pending(mem)
  BY DEF Continue, Pending
<1>3. Extends(mem, s)
  <2> DEFINE n == Len(mem.rows)
             t == SetStatus(mem, "resuming")
  <2>1. Extends(mem, t) /\ IsSession(t)
    BY SetStatusExtends DEF IInv, Shape, Extends
  <2>2. s = [t EXCEPT !.rec.count = n]
    BY DEF SetStatus
  <2> HIDE DEF t, n, s
  <2>3. Extends(t, [t EXCEPT !.rec.count = n])
    BY <2>1 DEF Extends, IsSession
  <2> QED BY <2>1, <2>2, <2>3, ExtendsChain
<1> HIDE DEF s
<1> QED BY <1>1, <1>2, <1>3, ChoiceStep

LEMMA DismissStep == IInv /\ Dismiss => IInv'
<1> SUFFICES ASSUME IInv, Dismiss PROVE IInv'
  OBVIOUS
<1> DEFINE r == RestorePending(RestoreChk(mem))
           s == SetStatus(r, "recovered")
<1>1. up /\ UNCHANGED <<up, journaled, turn, queue, waiting>> /\ mem' = s /\ disk' = s
  BY DEF Dismiss, Save, tasks, history
<1>2. Extends(mem, RestoreChk(mem)) /\ IsSession(RestoreChk(mem))
  BY RestoreChkExtends DEF IInv, Shape, Extends
<1>3. Extends(RestoreChk(mem), r) /\ IsSession(r)
  BY <1>2, RestorePendingExtends DEF Extends
<1> HIDE DEF r
<1>4. Extends(r, s) /\ s.rec.status = "recovered"
  BY <1>3, SetStatusExtends
<1> HIDE DEF s
<1>5. Extends(mem, s) /\ ~Pending(s)
  BY <1>2, <1>3, <1>4, ExtendsChain DEF Pending
<1> QED BY <1>1, <1>5, ChoiceStep

----------------------------------------------------------------------------
(* Down and up                                                             *)

LEMMA NewSessionOK == IsSession(NewSession) /\ ~Pending(NewSession)
BY EmptyIsSeq DEF NewSession, NoOffer, IsSession, Pending

\* A shutdown saves the session, a crash leaves the file as it is.
LEMMA DownStep == IInv /\ (Crash \/ Shutdown) => IInv'
<1> SUFFICES ASSUME IInv, Crash \/ Shutdown PROVE IInv'
  OBVIOUS
<1>1. /\ up /\ ~up' /\ mem' = NewSession /\ waiting' = <<>> /\ fresh' = <<>>
      /\ Release /\ journaled' = journaled
  BY DEF Crash, Shutdown, Down
<1>2. disk' \in {disk, mem}
  BY DEF Crash, Shutdown, files
<1>3. IsSession(mem') /\ IsSession(disk') /\ ~Pending(mem')
  BY <1>1, <1>2, NewSessionOK DEF IInv, Shape, Pending
<1>4. Shape'
  BY <1>1, <1>3, Released, EmptyIsSeq DEF Shape
<1>5. \A x \in journaled' : Has(disk', x)
  BY <1>1, <1>2 DEF IInv, DurableInv, FollowupDurable, Has
<1>6. DurableInv'
  BY <1>1, <1>5 DEF DurableInv, FollowupDurable, Has
<1>7. RequestInv'
  BY <1>3 DEF RequestInv, Pending
<1> QED BY <1>4, <1>6, <1>7 DEF IInv

\* A start loads the session and makes its offer before any task exists.
LEMMA StartStep == IInv /\ Start => IInv'
<1> SUFFICES ASSUME IInv, Start PROVE IInv'
  OBVIOUS
<1>1. /\ ~up /\ up' /\ UNCHANGED <<turn, queue, waiting, fresh, journaled>>
  BY DEF Start, history
<1>2. Extends(disk, Loaded) /\ IsSession(Loaded)
  BY ChkExtends, ExtendsSelf DEF Loaded, IInv, Shape, Extends
<1>3. Extends(Loaded, Recovered(Loaded))
  BY <1>2, RecoveredExtends
<1>4. Extends(disk, Recovered(Loaded))
  BY <1>2, <1>3, ExtendsChain
<1>5. \/ mem' = Recovered(Loaded) /\ (disk' = Recovered(Loaded) \/ disk' = disk)
      \/ mem' = Loaded /\ disk' = disk
  BY DEF Start, Save, files
<1>6. Extends(disk, mem') /\ (disk' = mem' \/ disk' = disk)
  BY <1>2, <1>4, <1>5
<1>7. IsSession(mem') /\ IsSession(disk')
  BY <1>6 DEF Extends, IInv, Shape
<1>8. ~Active' /\ waiting' = <<>>
  BY <1>1 DEF IInv, Shape, Active
<1>9. Shape'
  BY <1>1, <1>7, <1>8 DEF IInv, Shape
<1>10. \A x \in journaled' : Has(mem', x) /\ Has(disk', x)
  BY <1>1, <1>6 DEF IInv, DurableInv, FollowupDurable, Has, Extends
<1>11. DurableInv'
  BY <1>10 DEF DurableInv, FollowupDurable, Has
<1>12. RequestInv'
  BY <1>8, EmptyIsSeq DEF RequestInv
<1> QED BY <1>9, <1>11, <1>12 DEF IInv

----------------------------------------------------------------------------
(* The theorems                                                            *)

LEMMA InitIInv == Init => IInv
<1> SUFFICES ASSUME Init PROVE IInv
  OBVIOUS
<1>1. IsSession(mem) /\ IsSession(disk) /\ ~Pending(mem)
  BY NewSessionOK DEF Init
<1>2. IsTurn(turn) /\ IsSeq(turn.out) /\ ~Active
  BY EmptyIsSeq DEF Init, Idle, IsTurn, Active
<1>3. Shape
  BY <1>1, <1>2, EmptyIsSeq DEF Init, Shape
<1>4. DurableInv
  BY DEF Init, DurableInv, FollowupDurable
<1> QED BY <1>1, <1>3, <1>4 DEF IInv, RequestInv

LEMMA NextIInv == IInv /\ [Next]_vars => IInv'
<1> SUFFICES ASSUME IInv, [Next]_vars PROVE IInv'
  OBVIOUS
<1>1. CASE Run
  BY <1>1, SpawnStep, FollowUpStep, OvertakeStep, RefuseStep DEF Run
<1>2. CASE TurnStep
  BY <1>2, CallToolsStep, FinishToolsStep, AnswerStep, CommitStep, EndTurnStep DEF TurnStep
<1>3. CASE UNCHANGED vars
  BY <1>3, Untouched DEF vars
<1> QED
  BY <1>1, <1>2, <1>3, SendStep, StartTaskStep, BeginTurnStep, EndTurnStep, StopStep,
     WriteTurnEndStep, WriteHandleStep, ContinueStep, DismissStep, DownStep, StartStep
     DEF Next

LEMMA IInvAlways == Spec => []IInv
BY InitIInv, NextIInv, PTL DEF Spec

\* A follow-up the gateway acknowledged is on disk from then on, in the journal
\* or in the history, whatever crashes, stops, fails, supersedes or dismisses
\* (record_pending_followup, acknowledge_pending_followups).
THEOREM FollowupsSurvive == Spec => []FollowupDurable
<1>1. IInv => FollowupDurable
  BY DEF IInv, DurableInv
<1> QED BY <1>1, IInvAlways, PTL

\* While a request of the user runs, no older turn is on offer or in progress
\* (RecoveryCoordinator.admit).
THEOREM NewerRequest == Spec => []NewerRequestWins
<1>1. IInv => NewerRequestWins
  BY DEF IInv, RequestInv, Pending, NewerRequestWins
<1> QED BY <1>1, IInvAlways, PTL

----------------------------------------------------------------------------
(* What Picked takes from a sequence                                       *)

Rank(P, i) == Cardinality({h \in P : h <= i})

\* Each number up to the size of a set is the rank of exactly one of its members.
LEMMA RankHit ==
  ASSUME NEW n \in Nat, NEW P \in SUBSET (1 .. n)
  PROVE  /\ Cardinality(P) \in Nat
         /\ \A i \in P : Rank(P, i) \in 1 .. Cardinality(P)
         /\ \A a, b \in P : a < b => Rank(P, a) < Rank(P, b)
         /\ \A a, b \in P : Rank(P, a) = Rank(P, b) => a = b
         /\ \A j \in 1 .. Cardinality(P) : \E i \in P : Rank(P, i) = j
<1> DEFINE c == Cardinality(P)
           f == [i \in P |-> Rank(P, i)]
<1>0. IsFiniteSet(1 .. n)
  BY FS_Interval
<1>1. IsFiniteSet(P) /\ c \in Nat
  BY <1>0, FS_Subset, FS_CardinalityType
<1>2. \A i \in P : Rank(P, i) \in 1 .. c
  <2> TAKE i \in P
  <2> DEFINE B == {h \in P : h <= i}
  <2>1. B \subseteq P /\ i \in B
    OBVIOUS
  <2> HIDE DEF B
  <2>2. IsFiniteSet(B) /\ Cardinality(B) <= c /\ Cardinality(B) \in Nat
    BY <1>1, <2>1, FS_Subset, FS_CardinalityType
  <2>3. Cardinality(B) # 0
    BY <2>1, <2>2, FS_EmptySet
  <2>4. Cardinality(B) \in 1 .. c
    BY <1>1, <2>2, <2>3
  <2> QED BY <2>4 DEF Rank, B
<1>3. \A a, b \in P : a < b => Rank(P, a) < Rank(P, b)
  <2> SUFFICES ASSUME NEW a \in P, NEW b \in P, a < b, ~(Rank(P, a) < Rank(P, b)) PROVE FALSE
    OBVIOUS
  <2> DEFINE A == {h \in P : h <= a}
             B == {h \in P : h <= b}
  <2>0. a \in Int /\ b \in Int /\ \A h \in P : h \in Int
    OBVIOUS
  <2>1. A \subseteq B /\ b \in B /\ b \notin A /\ B \subseteq P
    <3>1. \A h \in Int : h <= a => h <= b
      BY <2>0
    <3>2. ~ (b <= a) /\ b <= b
      BY <2>0
    <3>3. B \subseteq P /\ b \in B
      BY <3>2
    <3>4. b \notin A
      BY <3>2
    <3>5. A \subseteq B
      BY <2>0, <3>1
    <3> QED BY <3>3, <3>4, <3>5
  <2>2. ~(Cardinality(A) < Cardinality(B))
    BY DEF Rank
  <2> HIDE DEF A, B
  <2>3. IsFiniteSet(B)
    BY <1>1, <2>1, FS_Subset
  <2>4. Cardinality(A) <= Cardinality(B) /\ Cardinality(A) # Cardinality(B)
    BY <2>1, <2>3, FS_Subset
  <2>5. Cardinality(A) \in Nat /\ Cardinality(B) \in Nat
    BY <2>1, <2>3, FS_Subset, FS_CardinalityType
  <2> QED BY <2>2, <2>4, <2>5
<1>4. \A a, b \in P : a < b => Rank(P, a) # Rank(P, b)
  BY <1>1, <1>2, <1>3
<1>5. \A a, b \in P : Rank(P, a) = Rank(P, b) => a = b
  <2> SUFFICES ASSUME NEW a \in P, NEW b \in P, Rank(P, a) = Rank(P, b), a # b PROVE FALSE
    OBVIOUS
  <2>1. a < b \/ b < a
    OBVIOUS
  <2> QED BY <1>4, <2>1
<1>6. f \in Injection(P, 1 .. c)
  BY <1>2, <1>4 DEF Injection, IsInjective
<1>7. IsFiniteSet(1 .. c) /\ Cardinality(1 .. c) = c
  BY <1>1, FS_Interval
<1> HIDE DEF f
<1>8. f \in Surjection(P, 1 .. c)
  BY <1>6, <1>7, FS_Injection
<1> QED BY <1>1, <1>2, <1>3, <1>8, <1>5 DEF Surjection, f

\* What is picked are the elements at the places, the last one last.
LEMMA PickedElements ==
  ASSUME NEW q, IsSeq(q), NEW places \in SUBSET DOMAIN q
  PROVE  /\ Len(Picked(q, places)) \in Nat
         /\ DOMAIN Picked(q, places) = 1 .. Len(Picked(q, places))
         /\ \A j \in DOMAIN Picked(q, places) : \E i \in places : Picked(q, places)[j] = q[i]
         /\ Len(q) \in places => /\ Picked(q, places) # <<>>
                                 /\ Last(Picked(q, places)) = Last(q)
<1> DEFINE p == Picked(q, places)
           c == Cardinality(places)
           At(j) == CHOOSE i \in places : Rank(places, i) = j
<1>1. Len(q) \in Nat /\ DOMAIN q = 1 .. Len(q)
  BY DEF IsSeq
<1>2. c \in Nat /\ \A j \in 1 .. c : \E i \in places : Rank(places, i) = j
  BY <1>1, RankHit
<1>3. p = [j \in 1 .. c |-> q[At(j)]]
  BY DEF Picked, Rank
<1>4. Len(p) = c /\ DOMAIN p = 1 .. c /\ \A j \in 1 .. c : p[j] = q[At(j)]
  <2> HIDE DEF p, c, At
  <2> QED BY <1>2, <1>3
<1>5. \A j \in 1 .. c : At(j) \in places /\ Rank(places, At(j)) = j
  BY <1>2
<1>6. ASSUME Len(q) \in places PROVE p # <<>> /\ Last(p) = Last(q)
  <2>0. IsFiniteSet(1 .. Len(q))
    BY <1>1, FS_Interval
  <2>1. IsFiniteSet(places)
    BY <1>1, <2>0, FS_Subset
  <2>2. c # 0
    BY <1>6, <2>1, FS_EmptySet
  <2>3. At(c) \in places /\ Rank(places, At(c)) = c
    BY <1>2, <1>5, <2>2
  <2>4. {h \in places : h <= At(c)} = places
    <3> DEFINE B == {h \in places : h <= At(c)}
    <3>1. B \subseteq places /\ Cardinality(B) = c
      BY <2>3 DEF Rank
    <3> HIDE DEF B, At
    <3>2. B = places
      BY <2>1, <3>1, FS_Subset
    <3> QED BY <3>2 DEF B
  <2>5. At(c) = Len(q)
    <3>1. Len(q) <= At(c)
      BY <1>6, <2>4
    <3> QED BY <1>1, <2>3, <3>1
  <2> HIDE DEF p, c, At
  <2> QED BY <1>2, <1>4, <2>2, <2>5 DEF Last
<1> HIDE DEF p, c, At
<1>7. Len(p) \in Nat /\ DOMAIN p = 1 .. Len(p)
  BY <1>2, <1>4
<1>8. \A j \in DOMAIN p : \E i \in places : p[j] = q[i]
  BY <1>4, <1>5
<1> QED BY <1>6, <1>7, <1>8 DEF p

----------------------------------------------------------------------------
(* The end of a sequence                                                   *)

LEMMA LastAppend ==
  ASSUME NEW q, IsSeq(q), NEW e
  PROVE  Append(q, e) # <<>> /\ Last(Append(q, e)) = e
<1>1. q \in Seq(ToSet(q) \cup {e})
  BY DEF IsSeq
<1> QED BY <1>1 DEF Last

LEMMA LastConcat ==
  ASSUME NEW p, NEW q, IsSeq(p), IsSeq(q)
  PROVE  IF q = <<>> THEN p \o q = p ELSE p \o q # <<>> /\ Last(p \o q) = Last(q)
<1>1. p \in Seq(ToSet(p) \cup ToSet(q)) /\ q \in Seq(ToSet(p) \cup ToSet(q))
  BY DEF IsSeq
<1> QED BY <1>1 DEF Last

LEMMA EndOf ==
  ASSUME NEW S, NEW q \in Seq(S), NEW k \in 0 .. Len(q) - 1
  PROVE  /\ SubSeq(q, k + 1, Len(q)) \in Seq(S)
         /\ Len(SubSeq(q, k + 1, Len(q))) = Len(q) - k
         /\ SubSeq(q, k + 1, Len(q))[Len(q) - k] = q[Len(q)]
<1> DEFINE n == Len(q)
           r == SubSeq(q, k + 1, n)
<1>1. n \in Nat /\ k \in Nat /\ k < n /\ DOMAIN q = 1 .. n
  OBVIOUS
<1> HIDE DEF n
<1>2. r \in Seq(S) /\ Len(r) = n - k
  BY <1>1 DEF n
<1>3. \A i \in 1 .. n - k : r[i] = q[k + i]
  BY <1>1 DEF n
<1>4. n - k \in 1 .. n - k /\ k + (n - k) = n
  BY <1>1
<1> QED BY <1>2, <1>3, <1>4 DEF n

\* A sequence ends as its suffixes do.
LEMMA SuffixLast ==
  ASSUME NEW q, IsSeq(q), NEW k \in 1 .. Len(q), k = Len(q),
         NEW r, IsSeq(r), k <= Len(r), IsSuffix(SubSeq(q, 1, k), r)
  PROVE  r # <<>> /\ Last(r) = Last(q)
<1>1. q \in Seq(ToSet(q)) /\ r \in Seq(ToSet(r)) /\ Len(q) \in Nat /\ Len(r) \in Nat
  BY DEF IsSeq
<1> DEFINE s == SubSeq(q, 1, k)
           a == Reverse(s)
           b == Reverse(r)
<1>2. s \in Seq(ToSet(q)) /\ Len(s) = k /\ s[k] = q[k]
  BY <1>1
<1>3. Len(a) = k /\ a[1] = s[k]
  <2> HIDE DEF s
  <2> QED BY <1>1, <1>2 DEF Reverse
<1>4. Len(b) = Len(r) /\ b[1] = r[Len(r)]
  BY <1>1 DEF Reverse
<1>5. SubSeq(a, 1, k) = SubSeq(b, 1, k)
  BY <1>3 DEF IsSuffix, IsPrefix
<1> HIDE DEF s, a, b
<1>6. SubSeq(a, 1, k)[1] = a[1] /\ SubSeq(b, 1, k)[1] = b[1]
  BY <1>1, <1>3, <1>4
<1> QED BY <1>1, <1>2, <1>3, <1>4, <1>5, <1>6 DEF Last

----------------------------------------------------------------------------
(* No request without a mark                                               *)

Marked(s) == EndsWith(s, {"user"}) => s.pend \/ s.chk # NoChk

\* What a turn commits ends in its answer.
AnsweredInv == turn.at = "answered" => turn.out # <<>> /\ Last(turn.out)[1] = "answer"

MarkInv == Marked(mem) /\ Marked(disk) /\ AnsweredInv

\* The recovery and the journal do not count.
SameRows(s, t) == t.rows = s.rows /\ t.pend = s.pend /\ t.chk = s.chk

LEMMA SameMarked == ASSUME NEW s, NEW t, SameRows(s, t), Marked(s) PROVE Marked(t)
BY DEF SameRows, Marked, EndsWith

LEMMA SetStatusSame ==
  ASSUME NEW s, IsSession(s), NEW status
  PROVE  /\ SameRows(s, SetStatus(s, status)) /\ SetStatus(s, status).rec.id = s.rec.id
BY DEF SetStatus, SameRows, IsSession

\* A checkpoint never ends in a message of the user.
LEMMA ChkRowsLast ==
  ASSUME NEW c, c # NoChk
  PROVE  /\ IsSeq(ChkRows(c)) /\ ChkRows(c) # <<>> /\ Len(ChkRows(c)) \in 1 .. 2
         /\ Last(ChkRows(c))[1] # "user"
<1>1. CASE c[1] \in {"awaiting_tools", "tools_completed"}
  <2>1. PICK a, b : ChkRows(c) = <<a, b>> /\ b[1] \in {"result", "broken"}
    BY <1>1 DEF ChkRows
  <2>2. <<a, b>> \in Seq({a, b}) /\ Len(<<a, b>>) = 2 /\ <<a, b>>[2] = b
    OBVIOUS
  <2>3. IsSeq(<<a, b>>) /\ <<a, b>> # <<>>
    BY <2>2, OwnElements
  <2>4. Last(<<a, b>>) = b
    BY <2>2 DEF Last
  <2> QED BY <2>1, <2>2, <2>3, <2>4
<1>2. CASE c[1] \notin {"awaiting_tools", "tools_completed"}
  <2>1. PICK a : ChkRows(c) = <<a>> /\ a[1] = "answer"
    BY <1>2 DEF ChkRows
  <2>2. <<a>> \in Seq({a}) /\ Len(<<a>>) = 1 /\ <<a>>[1] = a
    OBVIOUS
  <2>3. IsSeq(<<a>>) /\ <<a>> # <<>>
    BY <2>2, OwnElements
  <2>4. Last(<<a>>) = a
    BY <2>2 DEF Last
  <2> QED BY <2>1, <2>2, <2>3, <2>4
<1> QED BY <1>1, <1>2

\* Materializing a checkpoint leaves it behind the message.
LEMMA RestoreChkMarked ==
  ASSUME NEW s, IsSession(s), Marked(s)
  PROVE  Marked(RestoreChk(s)) /\ RestoreChk(s).chk = NoChk
<1>1. CASE s.chk = NoChk
  BY <1>1 DEF RestoreChk
<1>2. CASE s.chk # NoChk
  <2> DEFINE more == ChkRows(s.chk)
             k == Overlap(s.rows, more)
             rest == SubSeq(more, k + 1, Len(more))
  <2>1. IsSeq(more) /\ Len(more) \in 1 .. 2 /\ Last(more)[1] # "user" /\ IsSeq(s.rows)
    BY <1>2, ChkRowsLast DEF IsSession
  <2>2. /\ k \in 0 .. Len(more)
        /\ k # 0 => k <= Len(s.rows) /\ IsSuffix(SubSeq(more, 1, k), s.rows)
    BY <2>1, OverlapBound
  <2>3. /\ RestoreChk(s).rows = s.rows \o rest
        /\ RestoreChk(s).chk = NoChk
    BY <1>2 DEF RestoreChk, IsSession
  <2> HIDE DEF more, k
  <2>4. CASE k = Len(more)
    <3>1. s.rows # <<>> /\ Last(s.rows) = Last(more)
      BY <2>1, <2>2, <2>4, SuffixLast
    <3>2. rest = <<>>
      BY <2>1, <2>2, <2>4 DEF IsSeq
    <3>3. s.rows \o rest = s.rows
      BY <2>1, <3>2, EmptyIsSeq, LastConcat
    <3> QED BY <2>1, <2>3, <3>1, <3>3 DEF Marked, EndsWith
  <2>5. CASE k # Len(more)
    <3>1. more \in Seq(ToSet(more)) /\ k < Len(more) /\ k \in Nat /\ Len(more) \in Nat
      BY <2>1, <2>2, <2>5 DEF IsSeq
    <3>2. rest \in Seq(ToSet(more)) /\ Len(rest) = Len(more) - k
          /\ rest[Len(more) - k] = more[Len(more)]
      BY <3>1, EndOf
    <3> HIDE DEF rest
    <3>3. IsSeq(rest) /\ rest # <<>> /\ Last(rest) = Last(more)
      BY <3>1, <3>2, OwnElements DEF Last
    <3>4. s.rows \o rest # <<>> /\ Last(s.rows \o rest) = Last(more)
      BY <2>1, <3>3, LastConcat
    <3> QED BY <2>1, <2>3, <3>4 DEF Marked, EndsWith
  <2> QED BY <2>4, <2>5
<1> QED BY <1>1, <1>2

\* A row that is not a message of the user answers for what is before it.
LEMMA RowMarked ==
  ASSUME NEW s, NEW t, IsSession(s), NEW row, row[1] # "user",
         t.rows = Append(s.rows, row)
  PROVE  Marked(t)
<1>1. t.rows # <<>> /\ Last(t.rows) = row
  BY LastAppend DEF IsSession
<1> QED BY <1>1 DEF Marked, EndsWith

LEMMA RestorePendingMarked ==
  ASSUME NEW s, IsSession(s), Marked(s)
  PROVE  Marked(RestorePending(s))
<1>1. CASE s.pend /\ EndsWith(s, {"user"})
  <2>1. RestorePending(s).rows = Append(s.rows, Closed)
    BY <1>1 DEF RestorePending, IsSession
  <2> QED BY <2>1, RowMarked DEF Closed
<1>2. CASE s.pend /\ ~EndsWith(s, {"user"})
  <2>1. RestorePending(s).rows = s.rows
    BY <1>2 DEF RestorePending, IsSession
  <2> QED BY <1>2, <2>1 DEF Marked, EndsWith
<1>3. CASE ~s.pend
  BY <1>3 DEF RestorePending
<1> QED BY <1>1, <1>2, <1>3

LEMMA AppendInterruptionMarked ==
  ASSUME NEW s, IsSession(s), Marked(s)
  PROVE  Marked(AppendInterruption(s))
<1>1. CASE AppendInterruption(s) = s
  BY <1>1
<1>2. CASE AppendInterruption(s) # s
  <2>1. AppendInterruption(s).rows = Append(s.rows, Closed)
    BY <1>2 DEF AppendInterruption, IsSession
  <2> QED BY <2>1, RowMarked DEF Closed
<1> QED BY <1>1, <1>2

LEMMA SupersedeMarked ==
  ASSUME NEW s, IsSession(s), Marked(s)
  PROVE  Marked(Supersede(s)) /\ Supersede(s).rec.id = s.rec.id
<1> DEFINE r == RestoreChk(s)
           t == IF r.pend THEN RestorePending(r) ELSE AppendInterruption(r)
<1>1. IsSession(r) /\ Marked(r) /\ r.rec = s.rec
  BY RestoreChkExtends, RestoreChkMarked DEF Extends
<1>2. IsSession(t) /\ Marked(t) /\ t.rec = r.rec
  BY <1>1, RestorePendingExtends, AppendInterruptionExtends, RestorePendingMarked,
     AppendInterruptionMarked DEF Extends
<1>3. Supersede(s) = SetStatus(t, "recovered")
  BY DEF Supersede
<1> HIDE DEF t, r
<1> QED BY <1>1, <1>2, <1>3, SetStatusSame, SameMarked

LEMMA AdmittedMarked ==
  ASSUME IsSession(mem), Marked(mem), NEW x
  PROVE  Marked(Admitted(x)) /\ Admitted(x).rec.id = mem.rec.id
<1> DEFINE r == IF CancelsTurn(x) THEN RestoreChk(mem) ELSE mem
<1>1. IsSession(r) /\ Marked(r) /\ r.rec = mem.rec
  BY RestoreChkExtends, RestoreChkMarked DEF Extends
<1>2. Admitted(x) = IF ~Supersedes(x, mem) THEN mem ELSE Supersede(r)
  BY DEF Admitted
<1> HIDE DEF r
<1> QED BY <1>1, <1>2, SupersedeMarked

LEMMA ResolveMarked ==
  ASSUME NEW s, IsSession(s), Marked(s)
  PROVE  Marked(Resolve(s)) /\ Resolve(s).rec.id = s.rec.id
BY SetStatusSame, SameMarked DEF Resolve

LEMMA OfferedMarked ==
  ASSUME NEW s, IsSession(s), Marked(s), NEW id, NEW can
  PROVE  Marked(Offered(s, id, can))
<1>1. SameRows(s, Offered(s, id, can))
  BY DEF Offered, SameRows, IsSession
<1> QED BY <1>1, SameMarked

LEMMA RecoveredMarked ==
  ASSUME NEW s, IsSession(s), Marked(s)
  PROVE  Marked(Recovered(s))
<1> DEFINE r == RestoreChk(s)
           o == Offered(s, offers + 1, HasContext(s.rows))
           p == Offered(r, offers + 1, TRUE)
           q == RestorePending(r)
<1>1. IsSession(r) /\ Marked(r)
  BY RestoreChkExtends, RestoreChkMarked DEF Extends
<1>2. IsSession(q) /\ Marked(q)
  BY <1>1, RestorePendingExtends, RestorePendingMarked DEF Extends
<1>3. Marked(o) /\ IsSession(p) /\ Marked(p)
  BY <1>1, OfferedExtends, OfferedMarked DEF Extends
<1>4. Recovered(s) \in {s, SetStatus(s, "recovered"), SetStatus(s, "awaiting_user"), o,
                        SetStatus(q, "awaiting_user"), p, SetStatus(p, "recovered")}
  BY DEF Recovered
<1> HIDE DEF r, o, p, q
<1> QED BY <1>1, <1>2, <1>3, <1>4, SetStatusSame, SameMarked

\* What is committed of a turn ends in its answer.
LEMMA CommitTurnMarked ==
  ASSUME NEW s, IsSession(s), NEW out, IsSeq(out), out # <<>>, Last(out)[1] = "answer"
  PROVE  Marked(CommitTurn(s, out)) /\ CommitTurn(s, out).rec.id = s.rec.id
<1> DEFINE rows == Saved(s.rows, out)
<1>1. IsSeq(rows) /\ rows # <<>> /\ Last(rows) = Last(out)
  <2> DEFINE had == {<<r[2], r[3]>> : r \in {x \in ToSet(s.rows) : x[1] \in {"result", "broken"}}}
             places == {i \in DOMAIN out : out[i][1] = "result" => <<out[i][2], out[i][3]>> \notin had}
  <2>1. rows = Picked(out, places) /\ places \in SUBSET DOMAIN out
    BY DEF Saved
  <2>2. Len(out) \in DOMAIN out /\ out[Len(out)][1] = "answer"
    BY DEF IsSeq, Last
  <2>3. Len(out) \in places
    BY <2>2
  <2> HIDE DEF rows, places
  <2> QED BY <2>1, <2>3, PickedIsSeq, PickedElements
<1> HIDE DEF rows
<1>2. CommitTurn(s, out) = [s EXCEPT !.rows = @ \o rows, !.jnl = Unacked(s, rows),
                                     !.pend = FALSE, !.chk = NoChk]
  BY DEF CommitTurn, rows
<1>3. CommitTurn(s, out).rows = s.rows \o rows /\ CommitTurn(s, out).rec = s.rec
  BY <1>2 DEF IsSession
<1>4. Last(s.rows \o rows) = Last(out)
  BY <1>1, LastConcat DEF IsSession
<1> QED BY <1>3, <1>4 DEF Marked, EndsWith

----------------------------------------------------------------------------
(* Steps                                                                   *)

\* The sessions stay, or are replaced by one that is marked.
LEMMA MarkStep ==
  ASSUME MarkInv, NEW s, Marked(s), mem' = s, disk' = s \/ disk' = disk,
         turn' = turn \/ turn'.at # "answered"
  PROVE  MarkInv'
BY DEF MarkInv, Marked, AnsweredInv, EndsWith

LEMMA MarkUntouched ==
  ASSUME MarkInv, UNCHANGED <<mem, disk, turn>>
  PROVE  MarkInv'
BY DEF MarkInv, Marked, AnsweredInv, EndsWith

LEMMA ReleaseAt == ASSUME Release PROVE turn'.at = "idle"
BY DEF Release, Idle

\* run() and the start of a task.
LEMMA RunMarks == IInv /\ MarkInv /\ (Run \/ StartTask) => MarkInv'
<1> SUFFICES ASSUME IInv, MarkInv, Run \/ StartTask PROVE MarkInv'
  OBVIOUS
<1>0. IsSession(mem) /\ Marked(mem)
  BY DEF IInv, Shape, MarkInv
<1>1. CASE Spawn \/ Refuse
  BY <1>1, MarkUntouched DEF Spawn, Refuse, files
<1>2. CASE FollowUp
  <2> DEFINE a == Admitted(Head(bus))
             s == [a EXCEPT !.jnl = @ \cup {Head(bus)}]
  <2>1. mem' = s /\ disk' = s /\ turn' = turn
    BY <1>2 DEF FollowUp, Journal, Save
  <2>2. Marked(a) /\ IsSession(a)
    BY <1>0, AdmittedMarked, AdmittedExtends DEF Extends
  <2>3. SameRows(a, s)
    <3> HIDE DEF a
    <3> QED BY <2>2 DEF SameRows, IsSession
  <2> HIDE DEF a, s
  <2> QED BY <2>1, <2>2, <2>3, SameMarked, MarkStep
<1>3. CASE Overtake
  <2>1. mem' = Admitted(Head(bus)) /\ disk' = Admitted(Head(bus)) /\ Release
    BY <1>3 DEF Overtake, Save
  <2> QED BY <1>0, <2>1, AdmittedMarked, ReleaseAt, MarkStep
<1>4. CASE StartTask
  <2> DEFINE x == Head(fresh)
  <2>1. CASE Refused(x, mem)
    BY <1>4, <2>1, MarkUntouched DEF StartTask, files
  <2>2. CASE ~Refused(x, mem)
    <3>1. mem' = Admitted(x) /\ (disk' = Admitted(x) \/ disk' = disk)
      BY <1>0, <1>4, <2>2, AdmittedExtends DEF StartTask, Save, files
    <3>2. turn' = turn \/ Release
      BY <1>4, <2>2 DEF StartTask
    <3> QED BY <1>0, <3>1, <3>2, AdmittedMarked, ReleaseAt, MarkStep
  <2> QED BY <2>1, <2>2
<1> QED BY <1>1, <1>2, <1>3, <1>4 DEF Run

\* A turn marks the message it begins with, and a checkpoint is a mark.
LEMMA BeginMarks == IInv /\ MarkInv /\ BeginTurn => MarkInv'
<1> SUFFICES ASSUME IInv, MarkInv, BeginTurn PROVE MarkInv'
  OBVIOUS
<1> DEFINE x == Head(waiting)
           s == RestoreChk(mem)
           r == RestorePending(s)
           new == [r EXCEPT !.rows = Append(@, <<"user", x>>), !.pend = TRUE, !.jnl = @ \ {x}]
<1>1. turn'.at = "model"
  BY DEF BeginTurn
<1>2. IF x.kind = "user" THEN mem' = new /\ disk' = new
      ELSE mem' = s /\ (disk' = s \/ disk' = disk)
  BY DEF BeginTurn, Save, files
<1>3. IsSession(s) /\ Marked(s)
  BY RestoreChkExtends, RestoreChkMarked DEF IInv, Shape, MarkInv, Extends
<1>4. IsSession(r)
  BY <1>3, RestorePendingExtends DEF Extends
<1> HIDE DEF r, s, x
<1>5. new.pend
  BY <1>4 DEF IsSession
<1> HIDE DEF new
<1>6. Marked(new)
  BY <1>5 DEF Marked
<1> QED BY <1>1, <1>2, <1>3, <1>6, MarkStep

LEMMA CheckpointMarks ==
  ASSUME NEW c, IsSession(mem), SaveCheckpoint(c), c # NoChk
  PROVE  Marked(mem') /\ disk' = disk
BY DEF SaveCheckpoint, Marked, IsSession

LEMMA StepMarks == IInv /\ MarkInv /\ (CallTools \/ FinishTools \/ Answer) => MarkInv'
<1> SUFFICES ASSUME IInv, MarkInv, CallTools \/ FinishTools \/ Answer PROVE MarkInv'
  OBVIOUS
<1>0. IsSession(mem) /\ IsTurn(turn) /\ IsSeq(turn.out) /\ IsSeq(queue)
  BY DEF IInv, Shape
<1>1. PICK p, n, k : SaveCheckpoint(<<p, n, k>>)
  BY DEF CallTools, FinishTools, Answer
<1>2. <<p, n, k>> # NoChk
  BY DEF NoChk
<1>3. Marked(mem') /\ disk' = disk
  BY <1>0, <1>1, <1>2, CheckpointMarks
<1>4. AnsweredInv'
  <2>1. CASE CallTools \/ FinishTools
    <3>1. turn'.at \in {"tools", "model"}
      BY <1>0, <2>1 DEF CallTools, FinishTools, IsTurn
    <3> QED BY <3>1 DEF AnsweredInv
  <2>2. CASE Answer
    <3> DEFINE e    == <<"answer", turn.n, turn.k + 1>>
               one  == Append(turn.out, e)
               more == IF turn.k < MaxSteps THEN Inject ELSE <<>>
               at   == IF queue # <<>> /\ turn.k < MaxSteps THEN "model" ELSE "answered"
               n1   == turn.k + 1
               out  == one \o more
    <3>1. turn' = [turn EXCEPT !.k = n1, !.at = at, !.out = out]
      BY <2>2 DEF Answer
    <3>2. turn'.at = at /\ turn'.out = out
      <4> HIDE DEF at, out, n1
      <4> QED BY <1>0, <3>1 DEF IsTurn
    <3>3. at = "answered" => more = <<>>
      <4>1. CASE turn.k < MaxSteps
        <5>1. ASSUME queue = <<>> PROVE Inject = <<>>
          BY <5>1 DEF Inject
        <5> QED BY <4>1, <5>1
      <4>2. CASE ~(turn.k < MaxSteps)
        BY <4>2
      <4> QED BY <4>1, <4>2
    <3>4. IsSeq(one) /\ one # <<>> /\ Last(one) = e
      BY <1>0, AppendIsSeq, LastAppend
    <3>5. e[1] = "answer"
      OBVIOUS
    <3> HIDE DEF e, one, more, at
    <3>6. more = <<>> => out = one
      BY <3>4, EmptyIsSeq, LastConcat
    <3> HIDE DEF out
    <3> QED BY <3>2, <3>3, <3>4, <3>5, <3>6 DEF AnsweredInv
  <2> QED BY <2>1, <2>2
<1>5. Marked(disk)'
  BY <1>3 DEF MarkInv, Marked, EndsWith
<1> QED BY <1>3, <1>4, <1>5 DEF MarkInv, Marked, EndsWith

\* The ends of a turn, and the user's choice.
LEMMA EndMarks ==
  IInv /\ MarkInv /\ (Commit \/ EndTurn \/ TurnRaises \/ Stop \/ Continue \/ Dismiss) => MarkInv'
<1> SUFFICES ASSUME IInv, MarkInv,
                    Commit \/ EndTurn \/ TurnRaises \/ Stop \/ Continue \/ Dismiss
             PROVE  MarkInv'
  OBVIOUS
<1>0. IsSession(mem) /\ Marked(mem) /\ IsTurn(turn) /\ IsSeq(turn.out)
  BY DEF IInv, Shape, MarkInv
<1>1. CASE Commit
  <2>1. turn.out # <<>> /\ Last(turn.out)[1] = "answer"
    BY <1>1 DEF Commit, MarkInv, AnsweredInv
  <2>2. Marked(CommitTurn(mem, turn.out))
    BY <1>0, <2>1, CommitTurnMarked
  <2>3. mem' = CommitTurn(mem, turn.out) /\ disk' = mem' /\ turn' = [turn EXCEPT !.at = "committed"]
    BY <1>1 DEF Commit, Save
  <2>4. turn'.at = "committed"
    BY <1>0, <2>3 DEF IsTurn
  <2> QED BY <2>2, <2>3, <2>4, MarkStep
<1>2. CASE EndTurn \/ TurnRaises
  <2>1. mem' = Resolve(mem) /\ (disk' = Resolve(mem) \/ disk' = disk) /\ Release
    BY <1>2 DEF EndTurn, TurnRaises, Save, files
  <2> QED BY <1>0, <2>1, ResolveMarked, ReleaseAt, MarkStep
<1>3. CASE Stop
  <2>1. \/ mem' = RestoreChk(mem) /\ disk' = RestoreChk(mem)
        \/ mem' = mem /\ disk' = disk
    BY <1>3 DEF Stop, Save, files
  <2>2. Release
    BY <1>3 DEF Stop
  <2> QED BY <1>0, <2>1, <2>2, RestoreChkMarked, ReleaseAt, MarkStep
<1>4. CASE Continue
  <2> DEFINE s == [mem EXCEPT !.rec.status = "resuming", !.rec.count = Len(mem.rows)]
  <2>1. mem' = s /\ disk' = s /\ turn' = turn
    BY <1>4 DEF Continue, Save
  <2>2. SameRows(mem, s)
    BY <1>0 DEF SameRows, IsSession
  <2> HIDE DEF s
  <2> QED BY <1>0, <2>1, <2>2, SameMarked, MarkStep
<1>5. CASE Dismiss
  <2> DEFINE r == RestoreChk(mem)
             q == RestorePending(r)
             s == SetStatus(q, "recovered")
  <2>1. mem' = s /\ disk' = s /\ turn' = turn
    BY <1>5 DEF Dismiss, Save
  <2>2. IsSession(r) /\ Marked(r)
    BY <1>0, RestoreChkExtends, RestoreChkMarked DEF Extends
  <2>3. IsSession(q) /\ Marked(q)
    BY <2>2, RestorePendingExtends, RestorePendingMarked DEF Extends
  <2> HIDE DEF r, q
  <2>4. Marked(s)
    BY <2>3, SetStatusSame, SameMarked
  <2> HIDE DEF s
  <2> QED BY <2>1, <2>4, MarkStep
<1> QED BY <1>1, <1>2, <1>3, <1>4, <1>5

\* A start takes the checkpoint of the sidecar, which is a mark.
LEMMA UpDownMarks == IInv /\ MarkInv /\ (Crash \/ Shutdown \/ Start) => MarkInv'
<1> SUFFICES ASSUME IInv, MarkInv, Crash \/ Shutdown \/ Start PROVE MarkInv'
  OBVIOUS
<1>1. CASE Crash \/ Shutdown
  <2>1. mem' = NewSession /\ disk' \in {disk, mem} /\ turn'.at = "idle"
    BY <1>1, ReleaseAt DEF Crash, Shutdown, Down, files
  <2>2. Marked(NewSession)
    BY DEF Marked, EndsWith, NewSession
  <2>3. Marked(mem') /\ Marked(disk')
    BY <2>1, <2>2 DEF MarkInv
  <2> QED BY <2>1, <2>3 DEF MarkInv, Marked, EndsWith, AnsweredInv
<1>2. CASE Start
  <2>1. IsSession(Loaded)
    BY ChkExtends DEF Loaded, IInv, Shape, Extends
  <2>2. Marked(Loaded)
    BY DEF Loaded, Marked, EndsWith, MarkInv, IInv, Shape, IsSession
  <2>3. Marked(Recovered(Loaded))
    BY <2>1, <2>2, RecoveredMarked
  <2>4. \/ mem' = Recovered(Loaded) /\ (disk' = Recovered(Loaded) \/ disk' = disk)
        \/ mem' = Loaded /\ disk' = disk
    BY <1>2 DEF Start, Save, files
  <2>5. turn' = turn
    BY <1>2 DEF Start
  <2> QED BY <2>2, <2>3, <2>4, <2>5, MarkStep
<1> QED BY <1>1, <1>2

LEMMA NextMarks == IInv /\ MarkInv /\ [Next]_vars => MarkInv'
<1> SUFFICES ASSUME IInv, MarkInv, [Next]_vars PROVE MarkInv'
  OBVIOUS
<1>1. CASE Send \/ WriteTurnEnd \/ WriteHandle
  BY <1>1, MarkUntouched DEF Send, WriteTurnEnd, WriteHandle, files
<1>2. CASE UNCHANGED vars
  BY <1>2, MarkUntouched DEF vars
<1> QED BY <1>1, <1>2, RunMarks, BeginMarks, StepMarks, EndMarks, UpDownMarks DEF Next, TurnStep

\* A message of the user that nothing follows in the saved history is marked:
\* _persist_user_message_early sets the flag with the row, and each operation
\* that clears the flag or the checkpoint writes a row behind the message
\* (restore_runtime_checkpoint, restore_pending_interruption, _persist_turn).
THEOREM NoSilentRequest == Spec => []UnansweredMarked
<1>1. Init => MarkInv
  BY DEF Init, MarkInv, Marked, EndsWith, NewSession, AnsweredInv, Idle
<1>2. MarkInv => UnansweredMarked
  BY DEF MarkInv, Marked, UnansweredMarked
<1> QED BY <1>1, <1>2, NextMarks, IInvAlways, PTL DEF Spec

----------------------------------------------------------------------------
(* No continuation without a consent                                       *)

Free(q) == \A x \in ToSet(q) : x.kind = "user"

\* A queue with one continuation at most, that of recovery id, confirmed.
Tame(q, id, c) ==
  /\ IsSeq(q)
  /\ \A x \in ToSet(q) : x.kind = "user" \/ (x = Cont(id) /\ x \in c)
  /\ \A i, j \in DOMAIN q : q[i].kind = "cont" /\ q[j].kind = "cont" => i = j

ContRuns == Active /\ turn.msg.kind = "cont"
AllFree  == Free(bus) /\ Free(fresh) /\ Free(waiting)

\* A journal holds follow-ups of the user.
JournalOK(s) == IsFiniteSet(s.jnl) /\ \A x \in s.jnl : x.kind = "user"

\* One continuation at most is on its way, the confirmed one; there is none
\* while its recovery is on offer or after it has begun; and one that was
\* admitted belongs to a recovery in progress.
ConsentInv ==
  /\ turns \in Nat
  /\ JournalOK(mem) /\ JournalOK(disk)
  /\ \A q \in {bus, fresh, waiting} : Tame(q, mem.rec.id, consent)
  /\ Free(queue) /\ (Active => turn.msg.kind \in {"user", "cont"})
  /\ Free(bus) \/ (Free(fresh) /\ Free(waiting))
  /\ Free(fresh) \/ Free(waiting)
  /\ mem.rec.status = "awaiting_user" \/ ContRuns => AllFree
  /\ ContRuns => mem.rec.status # "awaiting_user"
  /\ Free(waiting) \/ mem.rec.status = "resuming"
  /\ ~up => Free(bus)

LEMMA TameFree ==
  ASSUME NEW q, IsSeq(q), Free(q), NEW id, NEW c
  PROVE  Tame(q, id, c)
<1>1. DOMAIN q = 1 .. Len(q) /\ \A i \in DOMAIN q : q[i].kind = "user"
  BY DEF IsSeq, Free, ToSet
<1> QED BY <1>1 DEF Tame, Free

LEMMA EmptyFree == IsSeq(<<>>) /\ Free(<<>>)
BY EmptyIsSeq DEF Free

LEMMA TameAppend ==
  ASSUME NEW q, NEW id, NEW c, Tame(q, id, c), NEW x,
         x.kind = "user" \/ (Free(q) /\ x = Cont(id) /\ x \in c)
  PROVE  Tame(Append(q, x), id, c) /\ (Free(q) /\ x.kind = "user" => Free(Append(q, x)))
<1>1. IsSeq(Append(q, x)) /\ ToSet(Append(q, x)) = ToSet(q) \cup {x}
  BY AppendIsSeq DEF Tame
<1>2. /\ Len(q) \in Nat /\ DOMAIN q = 1 .. Len(q)
      /\ DOMAIN Append(q, x) = 1 .. Len(q) + 1
      /\ \A i \in 1 .. Len(q) : Append(q, x)[i] = q[i]
      /\ Append(q, x)[Len(q) + 1] = x
  <2>1. q \in Seq(ToSet(q) \cup {x})
    BY DEF Tame, IsSeq
  <2> QED BY <2>1
<1>3. Free(q) => \A i \in DOMAIN q : q[i].kind = "user"
  BY DEF Free, ToSet
<1>4. \A i, j \in DOMAIN Append(q, x) :
        Append(q, x)[i].kind = "cont" /\ Append(q, x)[j].kind = "cont" => i = j
  BY <1>2, <1>3 DEF Tame
<1> HIDE DEF Tame
<1>5. \A y \in ToSet(Append(q, x)) : y.kind = "user" \/ (y = Cont(id) /\ y \in c)
  BY <1>1 DEF Tame
<1> QED BY <1>1, <1>4, <1>5 DEF Tame, Free

LEMMA TameTail ==
  ASSUME NEW q, NEW id, NEW c, Tame(q, id, c), q # <<>>
  PROVE  /\ Tame(Tail(q), id, c)
         /\ Head(q) \in ToSet(q)
         /\ Head(q).kind = "user" \/ (Head(q) = Cont(id) /\ Head(q) \in c /\ Free(Tail(q)))
         /\ Free(q) => Free(Tail(q)) /\ Head(q).kind = "user"
<1>1. /\ IsSeq(Tail(q)) /\ ToSet(Tail(q)) \subseteq ToSet(q) /\ Head(q) \in ToSet(q)
  BY TailIsSeq DEF Tame
<1>2. /\ Len(q) \in Nat /\ DOMAIN q = 1 .. Len(q) /\ Len(q) > 0
      /\ DOMAIN Tail(q) = 1 .. Len(q) - 1
      /\ \A i \in 1 .. Len(q) - 1 : Tail(q)[i] = q[i + 1]
      /\ Head(q) = q[1]
  <2>1. q \in Seq(ToSet(q))
    BY DEF Tame, IsSeq
  <2> QED BY <2>1
<1>3. \A i, j \in DOMAIN Tail(q) : Tail(q)[i].kind = "cont" /\ Tail(q)[j].kind = "cont" => i = j
  <2> SUFFICES ASSUME NEW i \in 1 .. Len(q) - 1, NEW j \in 1 .. Len(q) - 1,
                      q[i + 1].kind = "cont", q[j + 1].kind = "cont"
               PROVE  i = j
    BY <1>2
  <2>1. i + 1 \in DOMAIN q /\ j + 1 \in DOMAIN q
    BY <1>2
  <2>2. i + 1 = j + 1
    BY <2>1 DEF Tame
  <2> QED BY <2>2
<1>4. Tame(Tail(q), id, c)
  BY <1>1, <1>3 DEF Tame
<1>5. ASSUME Head(q) = Cont(id) PROVE Free(Tail(q))
  <2>1. ASSUME NEW i \in 1 .. Len(q) - 1, q[i + 1].kind = "cont" PROVE FALSE
    <3>1. 1 \in DOMAIN q /\ i + 1 \in DOMAIN q /\ i + 1 # 1 /\ q[1].kind = "cont"
      BY <1>2, <1>5, <2>1 DEF Cont
    <3> QED BY <2>1, <3>1 DEF Tame
  <2>2. \A i \in DOMAIN Tail(q) : Tail(q)[i].kind # "cont"
    BY <1>2, <2>1
  <2>3. \A x \in ToSet(Tail(q)) : x.kind # "cont"
    BY <2>2 DEF ToSet
  <2> QED BY <1>4, <2>3 DEF Tame, Free, Cont
<1>6. Free(q) => Free(Tail(q)) /\ Head(q).kind = "user"
  BY <1>1 DEF Free
<1> QED BY <1>1, <1>4, <1>5, <1>6 DEF Tame

LEMMA TameConcat ==
  ASSUME NEW p, NEW id, NEW c, Tame(p, id, c), NEW q, IsSeq(q), Free(q)
  PROVE  Tame(p \o q, id, c) /\ (Free(p) => Free(p \o q))
<1>1. IsSeq(p \o q) /\ ToSet(p \o q) = ToSet(p) \cup ToSet(q)
  BY ConcatIsSeq DEF Tame
<1>2. /\ Len(p) \in Nat /\ DOMAIN p = 1 .. Len(p) /\ Len(q) \in Nat /\ DOMAIN q = 1 .. Len(q)
      /\ DOMAIN (p \o q) = 1 .. Len(p) + Len(q)
      /\ \A i \in 1 .. Len(p) : (p \o q)[i] = p[i]
      /\ \A i \in 1 .. Len(q) : (p \o q)[Len(p) + i] = q[i]
  <2>1. p \in Seq(ToSet(p) \cup ToSet(q)) /\ q \in Seq(ToSet(p) \cup ToSet(q))
    BY DEF Tame, IsSeq
  <2>2. DOMAIN p = 1 .. Len(p) /\ DOMAIN q = 1 .. Len(q)
    BY <2>1
  <2> QED BY <2>1, <2>2
<1>3. \A i \in 1 .. Len(q) : q[i].kind = "user"
  BY <1>2 DEF Free, ToSet
<1>4. ASSUME NEW i \in DOMAIN (p \o q), (p \o q)[i].kind = "cont"
      PROVE  i \in DOMAIN p /\ p[i].kind = "cont"
  <2>1. CASE i <= Len(p)
    BY <1>2, <1>4, <2>1
  <2>2. CASE ~(i <= Len(p))
    <3>1. i - Len(p) \in 1 .. Len(q) /\ Len(p) + (i - Len(p)) = i
      BY <1>2, <2>2
    <3> QED BY <1>2, <1>3, <1>4, <3>1
  <2> QED BY <2>1, <2>2
<1>5. \A i, j \in DOMAIN (p \o q) :
        (p \o q)[i].kind = "cont" /\ (p \o q)[j].kind = "cont" => i = j
  BY <1>4 DEF Tame
<1>6. \A y \in ToSet(p \o q) : y.kind = "user" \/ (y = Cont(id) /\ y \in c)
  BY <1>1 DEF Tame, Free
<1> QED BY <1>1, <1>5, <1>6 DEF Tame, Free

\* What waits beside a continuation that is cancelled.
LEMMA OtherWaitingFree ==
  ASSUME NEW id, NEW c, Tame(waiting, id, c)
  PROVE  IsSeq(OtherWaiting) /\ Free(OtherWaiting)
<1> DEFINE P == {i \in DOMAIN waiting : waiting[i].kind # "cont"}
<1>1. OtherWaiting = Picked(waiting, P) /\ P \in SUBSET DOMAIN waiting
  BY DEF OtherWaiting
<1>2. \A i \in P : waiting[i].kind = "user"
  BY DEF Tame, ToSet, Cont
<1>3. IsSeq(waiting)
  BY DEF Tame
<1> HIDE DEF P
<1>4. \A j \in DOMAIN OtherWaiting : OtherWaiting[j].kind = "user"
  BY <1>1, <1>2, <1>3, PickedElements
<1> QED BY <1>1, <1>3, <1>4, PickedIsSeq DEF Free, ToSet

\* The journal on its way back to the bus.
LEMMA RequeuedFree ==
  ASSUME NEW s, JournalOK(s), NEW b \in Requeued(s.jnl)
  PROVE  IsSeq(b) /\ Free(b)
<1> DEFINE n == Cardinality(s.jnl)
<1>1. n \in Nat
  BY FS_CardinalityType DEF JournalOK
<1>2. b \in [1 .. n -> s.jnl]
  BY DEF Requeued
<1> HIDE DEF n
<1>3. b \in Seq(s.jnl)
  BY <1>1, <1>2
<1>4. IsSeq(b)
  BY <1>3, OwnElements
<1>5. ToSet(b) \subseteq s.jnl
  BY <1>2 DEF ToSet
<1> QED BY <1>4, <1>5 DEF Free, JournalOK

\* What every step below starts from.
Known == IInv /\ MarkInv /\ ConsentInv

LEMMA KnownFacts ==
  ASSUME Known
  PROVE  /\ IsSession(mem) /\ Marked(mem) /\ IsSeq(queue) /\ Free(queue) /\ JournalOK(mem)
         /\ Tame(bus, mem.rec.id, consent) /\ Tame(fresh, mem.rec.id, consent)
         /\ Tame(waiting, mem.rec.id, consent)
         /\ Active /\ Pending(mem) => ContRuns
BY DEF Known, IInv, Shape, MarkInv, ConsentInv, RequestInv, ContRuns

LEMMA AdmittedKnown ==
  ASSUME Known, NEW x
  PROVE  /\ JournalOK(Admitted(x)) /\ Admitted(x).rec.id = mem.rec.id
         /\ Admitted(x).jnl = mem.jnl /\ IsSession(Admitted(x))
         /\ Supersedes(x, mem) => ~Pending(Admitted(x))
         /\ ~Supersedes(x, mem) => Admitted(x) = mem
<1>1. IsSession(mem) /\ Marked(mem) /\ JournalOK(mem)
  BY KnownFacts
<1>2. Admitted(x).jnl = mem.jnl /\ IsSession(Admitted(x))
  BY <1>1, AdmittedExtends DEF Extends
<1> QED BY <1>1, <1>2, AdmittedExtends, AdmittedMarked DEF JournalOK

LEMMA SendConsent == Known /\ Send => ConsentInv'
<1> SUFFICES ASSUME Known, Send PROVE ConsentInv'
  OBVIOUS
<1>1. /\ bus' = Append(bus, User(sent + 1)) /\ up
      /\ UNCHANGED <<up, mem, disk, fresh, waiting, turn, queue, turns, consent>>
  BY DEF Send, files, history
<1>2. Tame(bus', mem.rec.id, consent) /\ (Free(bus) => Free(bus'))
  BY <1>1, KnownFacts, TameAppend DEF User
<1> QED BY <1>1, <1>2 DEF Known, ConsentInv, JournalOK, Free, AllFree, ContRuns, Active

LEMMA SpawnConsent == Known /\ Spawn => ConsentInv'
<1> SUFFICES ASSUME Known, Spawn PROVE ConsentInv'
  OBVIOUS
<1> DEFINE x == Head(bus)
           i == mem.rec.id
<1>1. /\ bus # <<>> /\ bus' = Tail(bus) /\ fresh' = Append(fresh, x) /\ ~Active /\ up
      /\ UNCHANGED <<up, mem, disk, waiting, turn, queue, turns, consent>>
  BY DEF Spawn, files, history, counts
<1>2. /\ Tame(bus', i, consent) /\ x \in ToSet(bus)
      /\ x.kind = "user" \/ (x = Cont(i) /\ x \in consent /\ Free(bus'))
      /\ Free(bus) => Free(bus') /\ x.kind = "user"
  BY <1>1, KnownFacts, TameTail
<1>3. x.kind # "user" => Free(fresh) /\ Free(waiting) /\ ~Free(bus)
  BY <1>2 DEF Known, ConsentInv
<1> HIDE DEF x, i
<1>4. Tame(fresh', i, consent) /\ (Free(fresh) /\ x.kind = "user" => Free(fresh'))
  BY <1>1, <1>2, <1>3, KnownFacts, TameAppend DEF i
<1> QED BY <1>1, <1>2, <1>3, <1>4 DEF Known, ConsentInv, JournalOK, Free, AllFree, ContRuns, Active, i

LEMMA FollowUpConsent == Known /\ FollowUp => ConsentInv'
<1> SUFFICES ASSUME Known, FollowUp PROVE ConsentInv'
  OBVIOUS
<1> DEFINE x == Head(bus)
           a == Admitted(x)
           s == [a EXCEPT !.jnl = @ \cup {x}]
           i == mem.rec.id
<1>1. /\ up /\ up' /\ bus # <<>> /\ bus' = Tail(bus) /\ Active /\ ~Refused(x, mem)
      /\ UNCHANGED <<turn, turns, consent>> /\ mem' = s /\ disk' = s
      /\ waiting' = IF Supersedes(x, mem) THEN OtherWaiting ELSE waiting
      /\ \/ queue' = Append(queue, x) /\ fresh' = fresh
         \/ queue' = queue /\ fresh' = Append(fresh, x)
  BY DEF FollowUp, Journal, Save, counts
<1>2. /\ Tame(bus', i, consent) /\ x \in ToSet(bus)
      /\ x.kind = "user" \/ (x = Cont(i) /\ ~Free(bus))
      /\ Free(bus) => Free(bus')
  BY <1>1, KnownFacts, TameTail DEF Free, Cont
<1>3. x.kind = "user"
  <2>1. ASSUME x = Cont(i), ~Free(bus) PROVE FALSE
    <3>1. mem.rec.status = "resuming"
      BY <1>1, <2>1 DEF Refused, Cont
    <3>2. ContRuns
      BY <1>1, <3>1, KnownFacts DEF Pending
    <3> QED BY <2>1, <3>2 DEF Known, ConsentInv, AllFree
  <2> QED BY <1>2, <2>1
<1>4. /\ JournalOK(a) /\ a.rec.id = i /\ IsSession(a)
      /\ Supersedes(x, mem) => ~Pending(a)
      /\ ~Supersedes(x, mem) => a = mem
  BY AdmittedKnown
<1>5. IsSeq(OtherWaiting) /\ Free(OtherWaiting)
  BY KnownFacts, OtherWaitingFree
<1> HIDE DEF x, a
<1>6. s.rec = a.rec /\ s.jnl = a.jnl \cup {x}
  BY <1>4 DEF IsSession
<1>7. JournalOK(s)
  BY <1>3, <1>4, <1>6, FS_AddElement DEF JournalOK
<1> HIDE DEF s, i
<1>8. /\ Tame(fresh', i, consent) /\ (Free(fresh) => Free(fresh'))
      /\ Free(queue')
  <2>1. Tame(Append(fresh, x), i, consent) /\ (Free(fresh) => Free(Append(fresh, x)))
    BY <1>3, KnownFacts, TameAppend DEF i
  <2>2. Tame(queue, i, consent)
    BY KnownFacts, TameFree
  <2>3. Free(Append(queue, x))
    BY <1>3, <2>2, KnownFacts, TameAppend
  <2> QED BY <1>1, <2>1, <2>3, KnownFacts DEF i
<1>9. Tame(waiting', i, consent) /\ (Free(waiting) => Free(waiting'))
      /\ (Supersedes(x, mem) => Free(waiting'))
  BY <1>1, <1>5, KnownFacts, TameFree DEF i
<1>10. JournalOK(mem)' /\ JournalOK(disk)'
  BY <1>1, <1>7 DEF JournalOK
<1>11. /\ (Free(bus) => Free(bus)') /\ (Free(fresh) => Free(fresh)') /\ (Free(waiting) => Free(waiting)')
       /\ Free(queue)' /\ (Supersedes(x, mem) => Free(waiting)')
  BY <1>2, <1>8, <1>9 DEF Free
<1>12. ContRuns' = ContRuns /\ Active' = Active
  BY <1>1 DEF ContRuns, Active
<1>13. mem'.rec.id = i /\ (mem'.rec.status = mem.rec.status \/ (Supersedes(x, mem) /\ ~Pending(mem')))
  BY <1>1, <1>4, <1>6 DEF Pending
<1>14. mem'.rec.status = "awaiting_user" => mem.rec.status = "awaiting_user"
  BY <1>13 DEF Pending
<1>15. ConsentInv
  BY DEF Known
<1> QED BY <1>1, <1>2, <1>8, <1>9, <1>10, <1>11, <1>12, <1>13, <1>14, <1>15 DEF ConsentInv, AllFree

LEMMA ReleaseConsent ==
  ASSUME Release
  PROVE  ~Active' /\ ~ContRuns' /\ Free(queue)'
BY EmptyFree DEF Release, Idle, Active, ContRuns, Free

\* A turn ends, its queue goes back, and nothing waits that is not free.
LEMMA OvertakeConsent == Known /\ Overtake => ConsentInv'
<1> SUFFICES ASSUME Known, Overtake PROVE ConsentInv'
  OBVIOUS
<1> DEFINE x == Head(bus)
           a == Admitted(x)
           i == mem.rec.id
<1>1. /\ up /\ up' /\ bus # <<>> /\ bus' = Tail(bus) \o queue /\ CancelsTurn(x)
      /\ UNCHANGED <<turns, consent>> /\ mem' = a /\ disk' = a
      /\ waiting' = OtherWaiting /\ fresh' = Append(fresh, x) /\ Release
  BY DEF Overtake, Save, counts
<1>2. x.kind = "user" /\ Supersedes(x, mem) /\ ContRuns
  BY <1>1 DEF CancelsTurn, Supersedes, ContRuns
<1>3. AllFree
  BY <1>2 DEF Known, ConsentInv
<1>4. Tame(Tail(bus), i, consent) /\ Free(Tail(bus))
  BY <1>1, <1>3, KnownFacts, TameTail DEF AllFree
<1>5. Tame(bus', i, consent) /\ Free(bus')
  BY <1>1, <1>4, KnownFacts, TameConcat
<1>6. Tame(waiting', i, consent) /\ Free(waiting')
  BY <1>1, KnownFacts, OtherWaitingFree, TameFree
<1>7. Tame(fresh', i, consent) /\ Free(fresh')
  BY <1>1, <1>2, <1>3, KnownFacts, TameAppend DEF AllFree
<1>8. JournalOK(a) /\ a.rec.id = i /\ ~Pending(a)
  BY <1>2, AdmittedKnown
<1> HIDE DEF x, a
<1>9. JournalOK(mem)' /\ JournalOK(disk)' /\ mem'.rec.id = i /\ mem'.rec.status # "awaiting_user"
  BY <1>1, <1>8 DEF JournalOK, Pending
<1>10. Free(bus)' /\ Free(fresh)' /\ Free(waiting)'
  BY <1>5, <1>6, <1>7 DEF Free
<1>11. turns' \in Nat /\ consent' = consent
  BY <1>1 DEF Known, ConsentInv
<1> QED BY <1>1, <1>5, <1>6, <1>7, <1>9, <1>10, <1>11, ReleaseConsent DEF ConsentInv, AllFree

LEMMA RefuseConsent == Known /\ Refuse => ConsentInv'
<1> SUFFICES ASSUME Known, Refuse PROVE ConsentInv'
  OBVIOUS
<1>1. /\ bus # <<>> /\ bus' = Tail(bus) /\ up
      /\ UNCHANGED <<up, mem, disk, fresh, waiting, turn, queue, turns, consent>>
  BY DEF Refuse, files, counts
<1>2. Tame(bus', mem.rec.id, consent) /\ (Free(bus) => Free(bus'))
  BY <1>1, KnownFacts, TameTail
<1> QED BY <1>1, <1>2 DEF Known, ConsentInv, JournalOK, Free, AllFree, ContRuns, Active

\* A task starts: a continuation that is let through belongs to the recovery in
\* progress, and a message of the user that supersedes it leaves none waiting.
LEMMA StartTaskConsent == Known /\ StartTask => ConsentInv'
<1> SUFFICES ASSUME Known, StartTask PROVE ConsentInv'
  OBVIOUS
<1> DEFINE x == Head(fresh)
           a == Admitted(x)
           w == IF Supersedes(x, mem) THEN OtherWaiting ELSE waiting
           i == mem.rec.id
<1>0. fresh # <<>> /\ fresh' = Tail(fresh) /\ UNCHANGED <<up, turns, consent>> /\ up
  BY DEF StartTask, counts, Known, IInv, Shape
<1>1. /\ Tame(fresh', i, consent) /\ x \in ToSet(fresh)
      /\ x.kind = "user" \/ (x = Cont(i) /\ x \in consent /\ Free(fresh') /\ ~Free(fresh))
      /\ Free(fresh) => Free(fresh')
  BY <1>0, KnownFacts, TameTail DEF Free, Cont
<1>2. CASE Refused(x, mem)
  <2>1. UNCHANGED <<mem, disk, bus, waiting, turn, queue>>
    BY <1>2 DEF StartTask, files
  <2> QED BY <1>0, <1>1, <2>1 DEF Known, ConsentInv, JournalOK, Free, AllFree, ContRuns, Active
<1>3. CASE ~Refused(x, mem)
  <2>1. /\ mem' = a /\ (disk' = a \/ disk' = disk)
        /\ waiting' = Append(w, x)
        /\ IF CancelsTurn(x) THEN Release /\ bus' = bus \o queue
                             ELSE UNCHANGED <<bus, turn, queue>>
    BY <1>3, AdmittedKnown DEF StartTask, Save, files
  <2>2. /\ JournalOK(a) /\ a.rec.id = i
        /\ Supersedes(x, mem) => ~Pending(a)
        /\ ~Supersedes(x, mem) => a = mem
    BY AdmittedKnown
  <2>3. CASE x.kind = "user"
    <3>1. Tame(w, i, consent) /\ (Supersedes(x, mem) => Free(w)) /\ (~Supersedes(x, mem) => w = waiting)
      BY KnownFacts, OtherWaitingFree, TameFree
    <3>2. Tame(bus', i, consent) /\ (Free(bus) => Free(bus'))
      BY <2>1, KnownFacts, TameConcat
    <3> HIDE DEF x, a, w, i
    <3>3. Tame(waiting', i, consent) /\ (Free(w) => Free(waiting'))
      BY <2>1, <2>3, <3>1, TameAppend
    <3>4. JournalOK(mem)' /\ JournalOK(disk)' /\ mem'.rec.id = i
      BY <2>1, <2>2 DEF JournalOK, Known, ConsentInv
    <3>5. /\ (Free(bus) => Free(bus)') /\ (Free(fresh) => Free(fresh)')
          /\ (Free(waiting) => Free(waiting)')
      BY <1>1, <3>1, <3>2, <3>3 DEF Free, Known, ConsentInv
    <3>6. ContRuns' => ContRuns
      BY <2>1, ReleaseConsent DEF ContRuns, Active
    <3>7. Free(queue)' /\ (Active' => turn'.msg.kind \in {"user", "cont"})
      BY <2>1, ReleaseConsent DEF Known, ConsentInv, Active, Free
    <3>8. CASE Supersedes(x, mem)
      <4>1. Free(waiting)' /\ mem'.rec.status \notin {"awaiting_user", "resuming"}
        BY <2>1, <2>2, <3>1, <3>3, <3>8 DEF Free, Pending
      <4> QED BY <1>0, <1>1, <3>2, <3>3, <3>4, <3>5, <3>6, <3>7, <4>1 DEF Known, ConsentInv, AllFree, i
    <3>9. CASE ~Supersedes(x, mem)
      <4>1. mem' = mem
        BY <2>1, <2>2, <3>9
      <4> QED BY <1>0, <1>1, <3>2, <3>3, <3>4, <3>5, <3>6, <3>7, <4>1 DEF Known, ConsentInv, AllFree, i
    <3> QED BY <3>8, <3>9
  <2>4. CASE x.kind # "user"
    <3>1. ~Supersedes(x, mem) /\ ~CancelsTurn(x)
      BY <2>4 DEF Supersedes, CancelsTurn
    <3>2. x = Cont(i) /\ x \in consent /\ Free(fresh') /\ ~Free(fresh)
      BY <1>1, <2>4
    <3>3. mem.rec.status = "resuming"
      BY <1>3, <3>2 DEF Refused, Cont
    <3>4. Free(bus) /\ Free(waiting) /\ ~ContRuns
      BY <3>2 DEF Known, ConsentInv, AllFree
    <3>5. /\ mem' = mem /\ (disk' = mem \/ disk' = disk) /\ UNCHANGED <<bus, turn, queue>>
          /\ waiting' = Append(waiting, x)
      BY <2>1, <2>2, <3>1
    <3> HIDE DEF x, a, w
    <3>6. Tame(waiting', i, consent)
      BY <3>2, <3>4, <3>5, KnownFacts, TameAppend
    <3>7. JournalOK(mem)' /\ JournalOK(disk)'
      BY <3>5 DEF JournalOK, Known, ConsentInv
    <3>8. /\ Free(bus)' /\ Free(fresh)' /\ ~ContRuns' /\ Free(queue)'
          /\ (Active' => turn'.msg.kind \in {"user", "cont"})
      BY <3>2, <3>4, <3>5, KnownFacts DEF Free, ContRuns, Active, Known, ConsentInv
    <3> QED BY <1>0, <1>1, <3>3, <3>5, <3>6, <3>7, <3>8 DEF Known, ConsentInv, AllFree
  <2> QED BY <2>3, <2>4
<1> QED BY <1>2, <1>3

\* A continuation that begins is the only one, and takes its consent with it.
LEMMA BeginConsent ==
  Known /\ BeginTurn =>
    /\ ConsentInv'
    /\ turn'.msg.kind = "cont" =>
         /\ turn'.msg \in consent
         /\ mem.rec.status = "resuming" /\ mem.rec.id = turn'.msg.id
<1> SUFFICES ASSUME Known, BeginTurn
             PROVE  /\ ConsentInv'
                    /\ turn'.msg.kind = "cont" =>
                         /\ turn'.msg \in consent
                         /\ mem.rec.status = "resuming" /\ mem.rec.id = turn'.msg.id
  OBVIOUS
<1> DEFINE x == Head(waiting)
           s == RestoreChk(mem)
           r == RestorePending(s)
           rows == Append(r.rows, <<"user", x>>)
           new == [r EXCEPT !.rows = rows, !.pend = TRUE, !.jnl = @ \ {x}]
           i == mem.rec.id
<1>1. /\ waiting # <<>> /\ waiting' = Tail(waiting) /\ ~Active /\ up /\ up'
      /\ UNCHANGED <<bus, fresh, queue>> /\ turns' = turns + 1 /\ consent' = consent \ {x}
      /\ turn' = [msg |-> x, n |-> turns + 1, k |-> 0, at |-> "model", out |-> <<>>]
  BY DEF BeginTurn, Known, IInv, Shape
<1>2. IF x.kind = "user" THEN mem' = new /\ disk' = new
      ELSE mem' = s /\ (disk' = s \/ disk' = disk)
  BY DEF BeginTurn, Save, files
<1>3. s.rec = mem.rec /\ IsSession(s) /\ s.jnl = mem.jnl
  BY KnownFacts, RestoreChkExtends DEF Extends
<1>4. r.rec = s.rec /\ IsSession(r) /\ r.jnl = s.jnl
  BY <1>3, RestorePendingExtends DEF Extends
<1>5. /\ Tame(waiting', i, consent) /\ x \in ToSet(waiting)
      /\ x.kind = "user" \/ (x = Cont(i) /\ x \in consent /\ Free(waiting') /\ ~Free(waiting))
      /\ Free(waiting) => Free(waiting')
  BY <1>1, KnownFacts, TameTail DEF Free, Cont
<1> HIDE DEF s, r, rows, x
<1>6. new.rec = r.rec /\ new.jnl = r.jnl \ {x}
  BY <1>4 DEF IsSession
<1>7. JournalOK(s) /\ JournalOK(new)
  BY <1>3, <1>4, <1>6, KnownFacts, FS_RemoveElement DEF JournalOK
<1> HIDE DEF new
<1>8. mem'.rec = mem.rec /\ JournalOK(mem)' /\ JournalOK(disk)'
  BY <1>2, <1>3, <1>4, <1>6, <1>7 DEF JournalOK, Known, ConsentInv
<1>9. turn'.msg = x /\ turn'.at = "model" /\ Active' /\ turns' \in Nat
  BY <1>1 DEF Active, Known, ConsentInv
<1>10. CASE x.kind = "user"
  <2>1. \A y \in consent : y.kind = "cont" => y \in consent'
    BY <1>1, <1>10
  <2>2. \A q : Tame(q, i, consent) => Tame(q, i, consent')
    BY <2>1 DEF Tame, Cont
  <2>3. Tame(bus', i, consent') /\ Tame(fresh', i, consent') /\ Tame(waiting', i, consent')
    BY <1>1, <1>5, <2>2, KnownFacts
  <2>4. /\ (Free(bus) => Free(bus)') /\ (Free(fresh) => Free(fresh)')
        /\ (Free(waiting) => Free(waiting)') /\ Free(queue)'
    BY <1>1, <1>5, KnownFacts DEF Free
  <2>5. ~ContRuns'
    BY <1>9, <1>10 DEF ContRuns
  <2>6. ConsentInv'
    BY <1>1, <1>8, <1>9, <1>10, <2>3, <2>4, <2>5 DEF Known, ConsentInv, AllFree
  <2> QED BY <1>9, <1>10, <2>6
<1>11. CASE x.kind # "user"
  <2>1. x = Cont(i) /\ x \in consent /\ Free(waiting') /\ ~Free(waiting)
    BY <1>5, <1>11
  <2>2. mem.rec.status = "resuming" /\ Free(bus) /\ Free(fresh)
    BY <2>1 DEF Known, ConsentInv
  <2>3. Tame(bus', i, consent') /\ Tame(fresh', i, consent') /\ Tame(waiting', i, consent')
    BY <1>1, <1>5, <2>1, <2>2, KnownFacts, TameFree DEF Tame
  <2>4. Free(bus)' /\ Free(fresh)' /\ Free(waiting)' /\ Free(queue)'
    BY <1>1, <2>1, <2>2, KnownFacts DEF Free
  <2>5. turn'.msg.kind = "cont" /\ turn'.msg.id = i
    BY <1>9, <2>1 DEF Cont
  <2>6. ConsentInv'
    BY <1>1, <1>8, <1>9, <2>2, <2>3, <2>4, <2>5 DEF Known, ConsentInv, AllFree
  <2> QED BY <1>9, <2>1, <2>2, <2>5, <2>6
<1> QED BY <1>10, <1>11

\* A step that moves no message and keeps the recovery.
LEMMA PlacesKept ==
  ASSUME Known, UNCHANGED <<up, bus, fresh, waiting, turns, consent>>, mem'.rec = mem.rec,
         JournalOK(mem)', JournalOK(disk)', Free(queue)',
         ContRuns' => ContRuns, Active' => turn'.msg.kind \in {"user", "cont"}
  PROVE  ConsentInv'
BY DEF Known, ConsentInv, AllFree, Free

LEMMA StepConsent ==
  Known /\ (CallTools \/ FinishTools \/ Answer \/ Commit \/ WriteTurnEnd \/ WriteHandle)
    => ConsentInv'
<1> SUFFICES ASSUME Known,
                    CallTools \/ FinishTools \/ Answer \/ Commit \/ WriteTurnEnd \/ WriteHandle
             PROVE  ConsentInv'
  OBVIOUS
<1>0. /\ IsSession(mem) /\ IsTurn(turn) /\ JournalOK(mem) /\ JournalOK(disk) /\ Free(queue)
      /\ Active => turn.msg.kind \in {"user", "cont"}
  BY DEF Known, IInv, Shape, ConsentInv
<1>1. CASE CallTools \/ FinishTools \/ Answer
  <2>1. PICK c : SaveCheckpoint(c)
    BY <1>1 DEF CallTools, FinishTools, Answer
  <2>2. mem'.rec = mem.rec /\ mem'.jnl = mem.jnl /\ disk' = disk
    BY <1>0, <2>1 DEF SaveCheckpoint, IsSession
  <2>4. turn'.msg = turn.msg
    <3> DEFINE more == IF turn.k < MaxSteps THEN Inject ELSE <<>>
               o1 == Append(turn.out, <<"call", turn.n, turn.k + 1>>)
               o2 == Append(turn.out, <<"result", turn.n, turn.k>>) \o Inject
               o3 == Append(turn.out, <<"answer", turn.n, turn.k + 1>>) \o more
               at == IF queue # <<>> /\ turn.k < MaxSteps THEN "model" ELSE "answered"
               k1 == turn.k + 1
    <3>1. \/ turn' = [turn EXCEPT !.at = "tools", !.k = k1, !.out = o1]
          \/ turn' = [turn EXCEPT !.at = "model", !.out = o2]
          \/ turn' = [turn EXCEPT !.k = k1, !.at = at, !.out = o3]
      BY <1>1 DEF CallTools, FinishTools, Answer
    <3> HIDE DEF more, o1, o2, o3, at, k1
    <3>2. [turn EXCEPT !.k = k1, !.at = at, !.out = o3].msg = turn.msg
      BY <1>0 DEF IsTurn
    <3>3. [turn EXCEPT !.at = "tools", !.k = k1, !.out = o1].msg = turn.msg
      BY <1>0 DEF IsTurn
    <3>4. [turn EXCEPT !.at = "model", !.out = o2].msg = turn.msg
      BY <1>0 DEF IsTurn
    <3>5. CASE turn' = [turn EXCEPT !.at = "tools", !.k = k1, !.out = o1]
      BY <3>3, <3>5
    <3>6. CASE turn' = [turn EXCEPT !.at = "model", !.out = o2]
      BY <3>4, <3>6
    <3>7. CASE turn' = [turn EXCEPT !.k = k1, !.at = at, !.out = o3]
      BY <3>2, <3>7
    <3> QED BY <3>1, <3>5, <3>6, <3>7
  <2>5. /\ UNCHANGED <<up, bus, fresh, waiting, turns, consent>> /\ Active
        /\ queue' = queue \/ queue' = <<>>
    BY <1>1 DEF CallTools, FinishTools, Answer, tasks, counts, Active
  <2>6. Free(queue)'
    BY <1>0, <2>5, EmptyFree DEF Free
  <2> QED BY <1>0, <2>2, <2>4, <2>5, <2>6, PlacesKept DEF JournalOK, ContRuns
<1>2. CASE Commit
  <2> DEFINE s == CommitTurn(mem, turn.out)
  <2>1. /\ mem' = s /\ disk' = s /\ turn' = [turn EXCEPT !.at = "committed"] /\ Active
        /\ UNCHANGED <<up, bus, fresh, waiting, queue, turns, consent>>
    BY <1>2 DEF Commit, Save, tasks, counts, history, Active
  <2>2. turn'.msg = turn.msg
    BY <1>0, <2>1 DEF IsTurn
  <2>3. s.rec = mem.rec /\ s.jnl \subseteq mem.jnl
    BY <1>0 DEF CommitTurn, IsSession, Unacked
  <2> HIDE DEF s
  <2>4. JournalOK(s)
    BY <1>0, <2>3, FS_Subset DEF JournalOK
  <2> QED BY <1>0, <2>1, <2>2, <2>3, <2>4, PlacesKept DEF JournalOK, ContRuns, Free
<1>3. CASE WriteTurnEnd \/ WriteHandle
  <2>1. UNCHANGED <<up, mem, disk, turn, queue, bus, fresh, waiting, turns, consent>>
    BY <1>3 DEF WriteTurnEnd, WriteHandle, files, tasks, counts, history
  <2> QED BY <1>0, <2>1, PlacesKept DEF JournalOK, ContRuns, Active, Free
<1> QED BY <1>1, <1>2, <1>3

\* A turn ends or is stopped: what it did not take goes back to the bus.
LEMMA EndConsent == Known /\ (EndTurn \/ TurnRaises \/ Stop) => ConsentInv'
<1> SUFFICES ASSUME Known, EndTurn \/ TurnRaises \/ Stop PROVE ConsentInv'
  OBVIOUS
<1> DEFINE i == mem.rec.id
<1>0. IsSession(mem) /\ Marked(mem) /\ JournalOK(mem) /\ JournalOK(disk) /\ turns \in Nat
  BY KnownFacts DEF Known, ConsentInv
<1>1. /\ bus' = bus \o queue /\ Release /\ up /\ UNCHANGED <<up, turns, consent>>
  BY DEF EndTurn, TurnRaises, Stop, counts, history, Known, IInv, Shape, Active
<1>2. Tame(bus', i, consent) /\ (Free(bus) => Free(bus'))
  BY <1>1, KnownFacts, TameConcat
<1>3. CASE EndTurn \/ TurnRaises
  <2>1. /\ mem' = Resolve(mem) /\ (disk' = Resolve(mem) \/ disk' = disk) /\ Active
        /\ UNCHANGED <<fresh, waiting>>
    BY <1>3 DEF EndTurn, TurnRaises, Save, files, Active
  <2>2. Resolve(mem).rec.id = i /\ Resolve(mem).jnl = mem.jnl
    BY <1>0, ResolveMarked, ResolveExtends DEF Extends
  <2>3. /\ mem.rec.status = "resuming" => AllFree
        /\ Resolve(mem).rec.status = "awaiting_user" => mem.rec.status = "awaiting_user"
    <3>1. mem.rec.status = "resuming" => ContRuns
      BY <2>1, KnownFacts DEF Pending
    <3>2. mem.rec.status = "resuming" => Resolve(mem).rec.status = "recovered"
      BY <1>0, SetStatusExtends DEF Resolve
    <3>3. mem.rec.status # "resuming" => Resolve(mem) = mem
      BY DEF Resolve
    <3> QED BY <3>1, <3>2, <3>3 DEF Known, ConsentInv
  <2>4. Free(waiting)
    BY <2>3 DEF Known, ConsentInv, AllFree
  <2>5. JournalOK(mem)' /\ JournalOK(disk)' /\ mem'.rec.id = i
    BY <1>0, <2>1, <2>2 DEF JournalOK
  <2>6. /\ (Free(bus) => Free(bus)') /\ (Free(fresh) => Free(fresh)') /\ Free(waiting)'
    BY <1>2, <2>1, <2>4 DEF Free
  <2>7. Tame(fresh', i, consent') /\ Tame(waiting', i, consent') /\ Tame(bus', i, consent')
    BY <1>1, <1>2, <2>1, KnownFacts
  <2>8. mem'.rec.status = "awaiting_user" => mem.rec.status = "awaiting_user"
    BY <2>1, <2>3
  <2> HIDE DEF i
  <2> QED BY <1>0, <1>1, <2>5, <2>6, <2>7, <2>8, ReleaseConsent DEF Known, ConsentInv, AllFree
<1>4. CASE Stop
  <2>1. /\ fresh' = <<>> /\ waiting' = <<>>
        /\ \/ mem' = RestoreChk(mem) /\ disk' = RestoreChk(mem)
           \/ mem' = mem /\ disk' = disk
    BY <1>4 DEF Stop, Save, files
  <2>2. RestoreChk(mem).rec = mem.rec /\ RestoreChk(mem).jnl = mem.jnl
    BY <1>0, RestoreChkExtends DEF Extends
  <2>3. mem'.rec = mem.rec /\ JournalOK(mem)' /\ JournalOK(disk)'
    BY <1>0, <2>1, <2>2 DEF JournalOK
  <2>4. Free(fresh)' /\ Free(waiting)' /\ (Free(bus) => Free(bus)')
    BY <1>2, <2>1, EmptyFree DEF Free
  <2>5. Tame(fresh', i, consent') /\ Tame(waiting', i, consent') /\ Tame(bus', i, consent')
    BY <1>1, <1>2, <2>1, EmptyFree, TameFree
  <2> HIDE DEF i
  <2> QED BY <1>0, <1>1, <2>3, <2>4, <2>5, ReleaseConsent DEF Known, ConsentInv, AllFree, i
<1> QED BY <1>3, <1>4

\* The user confirms a recovery on offer, or dismisses it.
LEMMA ChoiceConsent == ~AnyDismiss /\ Known /\ (Continue \/ Dismiss) => ConsentInv'
<1> SUFFICES ASSUME ~AnyDismiss, Known, Continue \/ Dismiss PROVE ConsentInv'
  OBVIOUS
<1>0. /\ mem.rec.status = "awaiting_user" /\ up
      /\ UNCHANGED <<up, fresh, waiting, turn, queue, turns>>
  BY DEF Continue, Dismiss, tasks, counts
<1>1. /\ AllFree /\ ~ContRuns /\ IsSession(mem) /\ Marked(mem) /\ JournalOK(mem) /\ turns \in Nat
      /\ Free(queue) /\ (Active => turn.msg.kind \in {"user", "cont"})
  BY <1>0, KnownFacts DEF Known, ConsentInv
<1>2. ~ContRuns' /\ Free(fresh)' /\ Free(waiting)' /\ Free(queue)' /\ (Active' => turn'.msg.kind \in {"user", "cont"})
  BY <1>0, <1>1 DEF ContRuns, Active, AllFree, Free
<1>3. CASE Continue
  <2> DEFINE s == [mem EXCEPT !.rec.status = "resuming", !.rec.count = Len(mem.rows)]
             c == consent \cup {Cont(mem.rec.id)}
  <2>1. mem' = s /\ disk' = s /\ bus' = Append(bus, Cont(mem.rec.id)) /\ consent' = c
    BY <1>3 DEF Continue, Save
  <2>2. s.rec.status = "resuming" /\ s.rec.id = mem.rec.id /\ s.jnl = mem.jnl
    BY <1>1 DEF IsSession
  <2>3. JournalOK(mem)' /\ JournalOK(disk)'
    BY <1>1, <2>1, <2>2 DEF JournalOK
  <2> HIDE DEF s
  <2>4. \A q : Tame(q, mem.rec.id, consent) => Tame(q, mem.rec.id, c)
    BY DEF Tame
  <2>5. Tame(bus', mem.rec.id, c)
    BY <1>1, <2>1, <2>4, KnownFacts, TameAppend DEF AllFree
  <2>6. Tame(fresh', mem.rec.id, c) /\ Tame(waiting', mem.rec.id, c)
    BY <1>0, <2>4, KnownFacts
  <2> QED BY <1>0, <1>1, <1>2, <2>1, <2>2, <2>3, <2>5, <2>6 DEF ConsentInv
<1>4. CASE Dismiss
  <2> DEFINE r == RestoreChk(mem)
             q == RestorePending(r)
             s == SetStatus(q, "recovered")
  <2>1. mem' = s /\ disk' = s /\ bus' = bus /\ consent' = consent
    BY <1>4 DEF Dismiss, Save, tasks, history
  <2>2. IsSession(r) /\ r.rec = mem.rec /\ r.jnl = mem.jnl
    BY <1>1, RestoreChkExtends DEF Extends
  <2>3. IsSession(q) /\ q.rec = r.rec /\ q.jnl = r.jnl
    BY <2>2, RestorePendingExtends DEF Extends
  <2> HIDE DEF r, q
  <2>4. s.rec.status = "recovered" /\ s.rec.id = mem.rec.id /\ s.jnl = mem.jnl
    BY <2>2, <2>3, SetStatusExtends, SetStatusSame DEF Extends
  <2> HIDE DEF s
  <2>5. JournalOK(mem)' /\ JournalOK(disk)'
    BY <1>1, <2>1, <2>4 DEF JournalOK
  <2>6. Free(bus)'
    BY <1>1, <2>1 DEF AllFree, Free
  <2>7. Tame(bus', mem.rec.id, consent) /\ Tame(fresh', mem.rec.id, consent)
        /\ Tame(waiting', mem.rec.id, consent)
    BY <1>0, <2>1, KnownFacts
  <2> QED BY <1>0, <1>1, <1>2, <2>1, <2>4, <2>5, <2>6, <2>7 DEF ConsentInv, AllFree
<1> QED BY <1>3, <1>4

\* A restart leaves the bus to the journal.
LEMMA UpDownConsent == Known /\ (Crash \/ Shutdown \/ Start) => ConsentInv'
<1> SUFFICES ASSUME Known, Crash \/ Shutdown \/ Start PROVE ConsentInv'
  OBVIOUS
<1>0. IsSession(disk) /\ JournalOK(mem) /\ JournalOK(disk) /\ turns \in Nat
  BY DEF Known, IInv, Shape, ConsentInv
<1>1. CASE Crash \/ Shutdown
  <2>1. /\ mem' = NewSession /\ disk' \in {disk, mem} /\ Release /\ turns' = turns
        /\ bus' = <<>> /\ fresh' = <<>> /\ waiting' = <<>>
    BY <1>1 DEF Crash, Shutdown, Down, files, counts
  <2>2. NewSession.rec.status = "none" /\ NewSession.jnl = {}
    BY DEF NewSession, NoOffer
  <2>3. JournalOK(mem)' /\ JournalOK(disk)' /\ mem'.rec.status = "none"
    BY <1>0, <2>1, <2>2, FS_EmptySet DEF JournalOK
  <2>4. \A id, c : Tame(<<>>, id, c)
    BY EmptyFree, TameFree
  <2>5. Free(bus)' /\ Free(fresh)' /\ Free(waiting)'
    BY <2>1, EmptyFree DEF Free
  <2> QED BY <1>0, <2>1, <2>3, <2>4, <2>5, ReleaseConsent DEF ConsentInv, AllFree
<1>2. CASE Start
  <2>1. ~up /\ up' /\ UNCHANGED <<fresh, waiting, turn, queue, turns, consent>>
    BY <1>2 DEF Start, history
  <2>2. ~Active /\ waiting = <<>> /\ fresh = <<>> /\ Free(bus) /\ IsSeq(bus) /\ Free(queue)
    BY <2>1 DEF Known, IInv, Shape, ConsentInv, Tame
  <2>3. IsSession(Loaded) /\ Loaded.jnl = disk.jnl
    BY <1>0, ChkExtends DEF Loaded, Extends
  <2>4. Recovered(Loaded).jnl = disk.jnl
    BY <2>3, RecoveredExtends DEF Extends
  <2>5. mem'.jnl = disk.jnl /\ (disk' = mem' \/ disk' = disk)
    BY <1>2, <2>3, <2>4 DEF Start, Save, files
  <2>6. JournalOK(mem)' /\ JournalOK(disk)'
    BY <1>0, <2>5 DEF JournalOK
  <2>7. JournalOK(Loaded)
    BY <1>0, <2>3 DEF JournalOK
  <2>8. IsSeq(bus') /\ Free(bus')
    BY <1>2, <2>2, <2>7, RequeuedFree DEF Start
  <2>9. \A q \in {bus', fresh', waiting'} : IsSeq(q) /\ Free(q)
    BY <2>1, <2>2, <2>8, EmptyFree
  <2>10. \A q \in {bus', fresh', waiting'} : Tame(q, mem'.rec.id, consent')
    BY <2>9, TameFree
  <2>11. Free(bus)' /\ Free(fresh)' /\ Free(waiting)' /\ Free(queue)' /\ ~Active' /\ ~ContRuns'
    BY <2>1, <2>2, <2>9 DEF Free, Active, ContRuns
  <2> QED BY <1>0, <2>1, <2>6, <2>10, <2>11 DEF ConsentInv, AllFree
<1> QED BY <1>1, <1>2

LEMMA ConsentUntouched == Known /\ UNCHANGED vars => ConsentInv'
<1> SUFFICES ASSUME Known, UNCHANGED vars PROVE ConsentInv'
  OBVIOUS
<1>1. UNCHANGED <<up, mem, disk, turn, queue, bus, fresh, waiting, turns, consent>>
  BY DEF vars
<1>2. /\ JournalOK(mem) /\ JournalOK(disk) /\ Free(queue)
      /\ Active => turn.msg.kind \in {"user", "cont"}
  BY DEF Known, ConsentInv
<1> QED BY <1>1, <1>2, PlacesKept DEF JournalOK, ContRuns, Active, Free

LEMMA NextConsent == ~AnyDismiss /\ Known /\ [Next]_vars => ConsentInv'
<1> SUFFICES ASSUME ~AnyDismiss, Known, [Next]_vars PROVE ConsentInv'
  OBVIOUS
<1> QED
  BY SendConsent, SpawnConsent, FollowUpConsent, OvertakeConsent, RefuseConsent,
     StartTaskConsent, BeginConsent, StepConsent, EndConsent, ChoiceConsent,
     UpDownConsent, ConsentUntouched
  DEF Next, Run, TurnStep

LEMMA InitConsent == Init => ConsentInv
<1> SUFFICES ASSUME Init PROVE ConsentInv
  OBVIOUS
<1>1. NewSession.rec.status = "none" /\ NewSession.jnl = {}
  BY DEF NewSession, NoOffer
<1>2. JournalOK(mem) /\ JournalOK(disk)
  BY <1>1, FS_EmptySet DEF Init, JournalOK
<1>3. \A id, c : Tame(<<>>, id, c)
  BY EmptyFree, TameFree
<1>4. ~Active
  BY DEF Init, Idle, Active
<1> QED BY <1>1, <1>2, <1>3, <1>4, EmptyFree DEF Init, ConsentInv, AllFree, ContRuns

\* A continuation begins only while its recovery is in progress and once per
\* confirmation of the user, as long as a page dismisses only what is on offer
\* (RecoveryCoordinator.admit and handle_action).
THEOREM ConsentNeeded == ASSUME ~AnyDismiss PROVE Spec => ContinueNeedsConsent
<1> DEFINE Inv == IInv /\ MarkInv /\ ConsentInv
           Consented == turns' > turns /\ turn'.msg.kind = "cont" =>
                          /\ turn'.msg \in consent
                          /\ mem.rec.status = "resuming" /\ mem.rec.id = turn'.msg.id
<1>1. Init => Inv
  BY InitIInv, InitConsent DEF Init, MarkInv, Marked, EndsWith, NewSession, AnsweredInv, Idle
<1>2. Inv /\ [Next]_vars => Inv'
  BY NextIInv, NextMarks, NextConsent DEF Known
<1>3. Inv /\ [Next]_vars => [Consented]_vars
  <2> SUFFICES ASSUME Inv, [Next]_vars PROVE Consented
    OBVIOUS
  <2>1. turns \in Nat /\ Known
    BY DEF ConsentInv, Known
  <2>2. CASE BeginTurn
    BY <2>1, <2>2, BeginConsent
  <2>3. CASE ~BeginTurn
    <3>1. turns' = turns
      BY <2>3 DEF Next, Run, TurnStep, Send, Spawn, FollowUp, Overtake, Refuse, StartTask,
         CallTools, FinishTools, Answer, Commit, EndTurn, TurnRaises, Stop, WriteTurnEnd,
         WriteHandle, Continue, Dismiss, Crash, Shutdown, Start, counts, vars
    <3> QED BY <2>1, <3>1
  <2> QED BY <2>2, <2>3
<1> QED BY <1>1, <1>2, <1>3, PTL DEF Spec, ContinueNeedsConsent
==============================================================================

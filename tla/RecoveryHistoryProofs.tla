------------------------ MODULE RecoveryHistoryProofs ------------------------
(***************************************************************************)
(* For any number of messages, tool rounds, crashes, stops and failures:   *)
(* every variable stays in its type, and the step a turn completed last    *)
(* is where a restart finds it.                                            *)
(***************************************************************************)
EXTENDS TurnRecoveryProofs

----------------------------------------------------------------------------
(* The rows of a materialized checkpoint                                   *)

\* The elements of a suffix.
LEMMA SuffixElements ==
  ASSUME NEW q, IsSeq(q), NEW k \in 1 .. Len(q), NEW r, IsSeq(r), k <= Len(r),
         IsSuffix(SubSeq(q, 1, k), r)
  PROVE  \A i \in 1 .. k : Len(r) - k + i \in DOMAIN r /\ q[i] = r[Len(r) - k + i]
<1>1. q \in Seq(ToSet(q)) /\ r \in Seq(ToSet(r)) /\ Len(q) \in Nat /\ Len(r) \in Nat
      /\ DOMAIN r = 1 .. Len(r)
  BY DEF IsSeq
<1> DEFINE s == SubSeq(q, 1, k)
           a == Reverse(s)
           b == Reverse(r)
           n == Len(r)
<1>2. s \in Seq(ToSet(q)) /\ Len(s) = k /\ \A i \in 1 .. k : s[i] = q[i]
  BY <1>1
<1>3. a = [i \in 1 .. k |-> s[(k - i) + 1]]
  <2> HIDE DEF s
  <2> QED BY <1>2 DEF Reverse
<1>4. b = [i \in 1 .. n |-> r[(n - i) + 1]]
  BY DEF Reverse
<1>5. \A i \in 1 .. k : (k - i) + 1 \in 1 .. k
  OBVIOUS
<1>6. \A i \in 1 .. n : (n - i) + 1 \in 1 .. n
  BY <1>1
<1> HIDE DEF s
<1>7. a \in Seq(ToSet(q)) /\ Len(a) = k
  <2>1. \A i \in 1 .. k : s[(k - i) + 1] \in ToSet(q)
    BY <1>2, <1>5
  <2> QED BY <1>3, <2>1
<1>8. b \in Seq(ToSet(r)) /\ Len(b) = n
  <2>1. \A i \in 1 .. n : r[(n - i) + 1] \in ToSet(r)
    BY <1>1, <1>6
  <2> QED BY <1>1, <1>4, <2>1
<1>9. SubSeq(a, 1, k) = SubSeq(b, 1, k)
  BY <1>7 DEF IsSuffix, IsPrefix, s
<1> SUFFICES ASSUME NEW i \in 1 .. k PROVE n - k + i \in DOMAIN r /\ q[i] = r[n - k + i]
  OBVIOUS
<1> DEFINE j == (k - i) + 1
<1>10. j \in 1 .. k /\ j \in 1 .. n /\ (k - j) + 1 = i /\ (n - j) + 1 = n - k + i
       /\ n - k + i \in 1 .. n
  BY <1>1
<1>11. SubSeq(a, 1, k)[j] = a[j] /\ SubSeq(b, 1, k)[j] = b[j]
  <2> HIDE DEF a, b, j, n
  <2>1. k \in Nat /\ k <= n /\ n \in Nat
    BY <1>1 DEF n
  <2> QED BY <1>7, <1>8, <1>10, <2>1
<1>12. a[j] = q[i] /\ b[j] = r[n - k + i]
  BY <1>2, <1>3, <1>4, <1>10
<1> QED BY <1>1, <1>9, <1>10, <1>11, <1>12

\* A session that takes its checkpoint has its rows and what the checkpoint
\* holds, whatever the two have in common.
LEMMA RestoreChkElements ==
  ASSUME NEW s, IsSession(s)
  PROVE  /\ IsSession(RestoreChk(s)) /\ RestoreChk(s).chk = NoChk
         /\ RestoreChk(s).jnl = s.jnl /\ RestoreChk(s).rec = s.rec
         /\ ToSet(RestoreChk(s).rows) = ToSet(s.rows) \cup ToSet(ChkRows(s.chk))
         /\ s.chk = NoChk => RestoreChk(s) = s
<1> DEFINE more == ChkRows(s.chk)
           k == Overlap(s.rows, more)
           rest == SubSeq(more, k + 1, Len(more))
<1>1. CASE s.chk = NoChk
  <2>1. RestoreChk(s) = s /\ ChkRows(s.chk) = <<>>
    BY <1>1 DEF RestoreChk, ChkRows
  <2> QED BY <1>1, <2>1, EmptyIsSeq
<1>2. CASE s.chk # NoChk
  <2>1. IsSeq(more) /\ Len(more) \in 0 .. 2 /\ IsSeq(s.rows)
    BY ChkRowsIsSeq DEF IsSession
  <2>2. /\ k \in 0 .. Len(more)
        /\ k # 0 => k <= Len(s.rows) /\ IsSuffix(SubSeq(more, 1, k), s.rows)
    BY <2>1, OverlapBound
  <2>3. RestoreChk(s) = [s EXCEPT !.rows = @ \o rest, !.pend = FALSE, !.chk = NoChk]
    BY <1>2 DEF RestoreChk
  <2> HIDE DEF more, k
  <2>4. more \in Seq(ToSet(more)) /\ Len(more) \in Nat /\ DOMAIN more = 1 .. Len(more) /\ k \in Nat
    BY <2>1, <2>2 DEF IsSeq
  <2>5. /\ rest \in Seq(ToSet(more)) /\ DOMAIN rest = 1 .. Len(more) - k
        /\ \A i \in 1 .. Len(more) - k : rest[i] = more[k + i]
    <3>1. CASE k < Len(more)
      BY <2>2, <2>4, <3>1
    <3>2. CASE k = Len(more)
      BY <2>4, <3>2
    <3> QED BY <2>2, <3>1, <3>2
  <2> HIDE DEF rest
  <2>6. IsSeq(rest)
    BY <2>5, OwnElements
  <2>7. \A e \in ToSet(more) : e \in ToSet(s.rows) \/ e \in ToSet(rest)
    <3> SUFFICES ASSUME NEW i \in 1 .. Len(more)
                 PROVE  more[i] \in ToSet(s.rows) \/ more[i] \in ToSet(rest)
      BY <2>4 DEF ToSet
    <3>1. CASE i <= k
      <4>1. k \in 1 .. Len(more) /\ i \in 1 .. k
        BY <2>2, <3>1
      <4>2. k <= Len(s.rows) /\ IsSuffix(SubSeq(more, 1, k), s.rows)
        BY <2>2, <4>1
      <4>3. Len(s.rows) - k + i \in DOMAIN s.rows /\ more[i] = s.rows[Len(s.rows) - k + i]
        BY <2>1, <4>1, <4>2, SuffixElements
      <4> QED BY <4>3 DEF ToSet
    <3>2. CASE i > k
      <4>1. i - k \in 1 .. Len(more) - k /\ k + (i - k) = i
        BY <2>4, <3>2
      <4>2. rest[i - k] = more[i]
        BY <2>5, <4>1
      <4> QED BY <2>5, <4>1, <4>2 DEF ToSet
    <3> QED BY <2>4, <3>1, <3>2
  <2>8. ToSet(rest) \subseteq ToSet(more)
    <3>1. \A i \in 1 .. Len(more) - k : k + i \in DOMAIN more
      BY <2>2, <2>4
    <3> QED BY <2>5, <3>1 DEF ToSet
  <2>9. /\ IsSession(RestoreChk(s)) /\ RestoreChk(s).rows = s.rows \o rest
        /\ RestoreChk(s).chk = NoChk /\ RestoreChk(s).jnl = s.jnl /\ RestoreChk(s).rec = s.rec
    <3>1. IsSeq(s.rows \o rest)
      BY <2>1, <2>6, ConcatIsSeq
    <3> QED BY <2>3, <3>1 DEF IsSession
  <2>10. ToSet(RestoreChk(s).rows) = ToSet(s.rows) \cup ToSet(rest)
    BY <2>1, <2>6, <2>9, ConcatIsSeq
  <2>11. ToSet(s.rows) \cup ToSet(rest) = ToSet(s.rows) \cup ToSet(more)
    BY <2>7, <2>8
  <2> QED BY <1>2, <2>9, <2>10, <2>11 DEF more
<1> QED BY <1>1, <1>2

----------------------------------------------------------------------------
(* How an operation changes the conversation                               *)

\* The recovery or the flag may differ.
SameData(s, t) == IsSession(t) /\ t.rows = s.rows /\ t.chk = s.chk /\ t.jnl = s.jnl

\* At most the note that closes a turn is added.
Closes(s, t) ==
  /\ IsSession(t) /\ t.chk = s.chk /\ t.jnl = s.jnl
  /\ t.rows \in {s.rows, Append(s.rows, Closed)}

\* Maybe the checkpoint is materialized before.
Becomes(s, t) == Closes(s, t) \/ Closes(RestoreChk(s), t)

\* The rows of a session and those its checkpoint stands for.
Content(s) == ToSet(s.rows) \cup ToSet(ChkRows(s.chk))

LEMMA ClosesSelf == ASSUME NEW s, IsSession(s) PROVE Closes(s, s) /\ SameData(s, s)
BY DEF Closes, SameData

LEMMA ClosesSame ==
  ASSUME NEW s, NEW t, NEW u, Closes(s, t), SameData(t, u)
  PROVE  Closes(s, u)
BY DEF Closes, SameData

LEMMA SetStatusData ==
  ASSUME NEW s, IsSession(s), NEW status
  PROVE  SameData(s, SetStatus(s, status))
BY DEF SetStatus, SameData, IsSession

LEMMA ResolveData == ASSUME NEW s, IsSession(s) PROVE SameData(s, Resolve(s))
BY SetStatusData, ClosesSelf DEF Resolve

LEMMA OfferedData ==
  ASSUME NEW s, IsSession(s), NEW id, NEW can
  PROVE  SameData(s, Offered(s, id, can))
<1>1. Offered(s, id, can).rows = s.rows /\ Offered(s, id, can).chk = s.chk
  BY DEF Offered, IsSession
<1> QED BY <1>1, OfferedExtends DEF SameData, Extends

LEMMA ContinueData ==
  ASSUME NEW s, IsSession(s), NEW n
  PROVE  SameData(s, [s EXCEPT !.rec.status = "resuming", !.rec.count = n])
<1> DEFINE t == SetStatus(s, "resuming")
           u == [s EXCEPT !.rec.status = "resuming", !.rec.count = n]
<1>1. SameData(s, t)
  BY SetStatusData
<1>2. u = [t EXCEPT !.rec.count = n]
  BY DEF SetStatus
<1> HIDE DEF t, u
<1>3. SameData(t, u)
  BY <1>1, <1>2 DEF SameData, IsSession
<1> QED BY <1>1, <1>3 DEF SameData, u

LEMMA RestorePendingCloses ==
  ASSUME NEW s, IsSession(s)
  PROVE  Closes(s, RestorePending(s))
<1>1. RestorePending(s).chk = s.chk /\ RestorePending(s).rows \in {s.rows, Append(s.rows, Closed)}
  BY DEF RestorePending, IsSession
<1> QED BY <1>1, RestorePendingExtends DEF Closes, Extends

LEMMA AppendInterruptionCloses ==
  ASSUME NEW s, IsSession(s)
  PROVE  Closes(s, AppendInterruption(s))
<1>1. /\ AppendInterruption(s).chk = s.chk
      /\ AppendInterruption(s).rows \in {s.rows, Append(s.rows, Closed)}
  BY DEF AppendInterruption, IsSession
<1> QED BY <1>1, AppendInterruptionExtends DEF Closes, Extends

LEMMA SupersedeCloses ==
  ASSUME NEW s, IsSession(s)
  PROVE  Closes(RestoreChk(s), Supersede(s))
<1> DEFINE r == RestoreChk(s)
           t == IF r.pend THEN RestorePending(r) ELSE AppendInterruption(r)
<1>1. IsSession(r)
  BY RestoreChkElements
<1>2. Closes(r, t)
  BY <1>1, RestorePendingCloses, AppendInterruptionCloses
<1>3. Supersede(s) = SetStatus(t, "recovered")
  BY DEF Supersede
<1> HIDE DEF t, r
<1>4. SameData(t, Supersede(s))
  BY <1>2, <1>3, SetStatusData DEF Closes
<1> QED BY <1>2, <1>4, ClosesSame DEF r

\* Admitting a message changes nothing, or ends what is on offer.
LEMMA AdmittedBecomes ==
  ASSUME IsSession(mem), NEW x
  PROVE  /\ ~Supersedes(x, mem) => Admitted(x) = mem
         /\ Supersedes(x, mem) => Closes(RestoreChk(mem), Admitted(x))
         /\ Becomes(mem, Admitted(x))
<1> DEFINE r == RestoreChk(mem)
<1>1. IsSession(r) /\ r.chk = NoChk /\ RestoreChk(r) = r
  BY RestoreChkElements
<1>2. Closes(r, Supersede(mem)) /\ Closes(r, Supersede(r))
  BY <1>1, SupersedeCloses
<1>3. Admitted(x) = IF ~Supersedes(x, mem) THEN mem
                    ELSE Supersede(IF CancelsTurn(x) THEN r ELSE mem)
  BY DEF Admitted
<1> HIDE DEF r
<1> QED BY <1>2, <1>3, ClosesSelf DEF Becomes, r

LEMMA RecoveredBecomes ==
  ASSUME NEW s, IsSession(s)
  PROVE  Becomes(s, Recovered(s))
<1> DEFINE r == RestoreChk(s)
           o == Offered(s, offers + 1, HasContext(s.rows))
           p == Offered(r, offers + 1, TRUE)
           q == RestorePending(r)
<1>1. IsSession(r)
  BY RestoreChkElements
<1>2. Closes(r, q) /\ IsSession(q)
  BY <1>1, RestorePendingCloses DEF Closes
<1>3. SameData(s, o) /\ SameData(r, p) /\ IsSession(p)
  BY <1>1, OfferedData DEF SameData
<1>4. SameData(p, SetStatus(p, "recovered")) /\ SameData(q, SetStatus(q, "awaiting_user"))
  BY <1>2, <1>3, SetStatusData
<1>5. /\ SameData(s, s) /\ SameData(s, SetStatus(s, "recovered"))
      /\ SameData(s, SetStatus(s, "awaiting_user"))
  BY ClosesSelf, SetStatusData
<1>6. Recovered(s) \in {s, SetStatus(s, "recovered"), SetStatus(s, "awaiting_user"), o,
                        SetStatus(q, "awaiting_user"), p, SetStatus(p, "recovered")}
  BY DEF Recovered
<1>7. Closes(s, s) /\ Closes(r, r)
  BY <1>1, ClosesSelf
<1> HIDE DEF r, o, p, q
<1>8. \A t : SameData(s, t) => Closes(s, t)
  BY <1>7, ClosesSame
<1>9. Closes(r, p) /\ Closes(r, SetStatus(p, "recovered")) /\ Closes(r, SetStatus(q, "awaiting_user"))
  BY <1>2, <1>3, <1>4, <1>7, ClosesSame
<1> QED BY <1>3, <1>5, <1>6, <1>8, <1>9 DEF Becomes, r

LEMMA DismissBecomes ==
  ASSUME NEW s, IsSession(s)
  PROVE  Becomes(s, SetStatus(RestorePending(RestoreChk(s)), "recovered"))
<1> DEFINE r == RestoreChk(s)
           q == RestorePending(r)
<1>1. IsSession(r)
  BY RestoreChkElements
<1>2. Closes(r, q) /\ IsSession(q)
  BY <1>1, RestorePendingCloses DEF Closes
<1> HIDE DEF q
<1>3. SameData(q, SetStatus(q, "recovered"))
  BY <1>2, SetStatusData
<1>4. Closes(r, SetStatus(q, "recovered"))
  BY <1>2, <1>3, ClosesSame
<1> QED BY <1>4 DEF Becomes, q

LEMMA RestoreChkBecomes == ASSUME NEW s, IsSession(s) PROVE Becomes(s, RestoreChk(s))
BY RestoreChkElements, ClosesSelf DEF Becomes

LEMMA SameBecomes == ASSUME NEW s, IsSession(s), NEW t, SameData(s, t) PROVE Becomes(s, t)
BY ClosesSelf, ClosesSame DEF Becomes

\* No row is lost.
LEMMA BecomesContent ==
  ASSUME NEW s, IsSession(s), NEW t, Becomes(s, t)
  PROVE  IsSession(t) /\ Content(s) \subseteq Content(t) /\ t.jnl = s.jnl
<1> DEFINE r == RestoreChk(s)
<1>1. IsSession(r) /\ Content(s) \subseteq Content(r) /\ r.jnl = s.jnl
  BY RestoreChkElements DEF Content
<1> HIDE DEF r
<1>2. \A u : IsSession(u) /\ Closes(u, t) =>
               IsSession(t) /\ Content(u) \subseteq Content(t) /\ t.jnl = u.jnl
  <2> SUFFICES ASSUME NEW u, IsSession(u), Closes(u, t)
               PROVE  IsSession(t) /\ Content(u) \subseteq Content(t) /\ t.jnl = u.jnl
    OBVIOUS
  <2>1. ToSet(Append(u.rows, Closed)) = ToSet(u.rows) \cup {Closed}
    BY AppendIsSeq DEF IsSession
  <2> QED BY <2>1 DEF Closes, Content
<1> QED BY <1>1, <1>2 DEF Becomes, r

----------------------------------------------------------------------------
(* The step completed last                                                 *)

Holds(s) == latest # <<>> => latest \in Content(s)

\* The step is where each of the session in memory and the files has it; a
\* turn about to commit has it among its rows.
LatestInv ==
  /\ up => Holds(mem)
  /\ Holds(Loaded)
  /\ turn.at = "answered" /\ latest # <<>> => /\ latest \in ToSet(turn.out)
                                              /\ latest[1] = "answer"

\* Session s replaces the one in memory and the files, or is that one.
SavedAs(s) ==
  /\ mem' = s
  /\ \/ disk' = s /\ side' = NoChk
     \/ s = mem /\ UNCHANGED files

LEMMA LatestUntouched ==
  ASSUME LatestInv, UNCHANGED <<up, mem, files, turn, latest>>
  PROVE  LatestInv'
BY DEF LatestInv, Holds, Loaded, files, Content

LEMMA LatestSaved ==
  ASSUME LatestInv, up, UNCHANGED latest, NEW s, SavedAs(s), Holds(s),
         turn' = turn \/ turn'.at # "answered"
  PROVE  LatestInv'
<1>1. (mem' = s /\ Loaded' = s) \/ (mem' = s /\ Loaded' = Loaded)
  BY DEF SavedAs, Loaded, files
<1>2. Holds(mem)'
  BY <1>1 DEF Holds, Content
<1>3. Holds(Loaded)'
  BY <1>1 DEF LatestInv, Holds, Content
<1>4. turn'.at = "answered" => turn' = turn
  OBVIOUS
<1> QED BY <1>2, <1>3, <1>4 DEF LatestInv

LEMMA LatestGrows ==
  ASSUME LatestInv, up, UNCHANGED latest, NEW s, SavedAs(s), Content(mem) \subseteq Content(s),
         turn' = turn \/ turn'.at # "answered"
  PROVE  LatestInv'
<1>1. Holds(s)
  BY DEF LatestInv, Holds
<1> QED BY <1>1, LatestSaved

\* run() and the start of a task.
LEMMA RunLatest == IInv /\ LatestInv /\ (Run \/ StartTask) => LatestInv'
<1> SUFFICES ASSUME IInv, LatestInv, Run \/ StartTask PROVE LatestInv'
  OBVIOUS
<1>0. IsSession(mem) /\ up /\ UNCHANGED latest
  BY DEF IInv, Shape, Run, Spawn, FollowUp, Overtake, Refuse, StartTask, history
<1>1. CASE Spawn \/ Refuse
  BY <1>1, LatestUntouched DEF Spawn, Refuse, files, history
<1>2. \A x : IsSession(Admitted(x)) /\ Content(mem) \subseteq Content(Admitted(x))
  BY <1>0, AdmittedBecomes, BecomesContent
<1>3. CASE FollowUp
  <2> DEFINE a == Admitted(Head(bus))
             s == [a EXCEPT !.jnl = @ \cup {Head(bus)}]
  <2>1. SavedAs(s) /\ turn' = turn
    BY <1>3 DEF FollowUp, Journal, Save, SavedAs
  <2>2. IsSession(a) /\ Content(mem) \subseteq Content(a)
    BY <1>2
  <2>3. Content(s) = Content(a)
    <3> HIDE DEF a
    <3> QED BY <2>2 DEF Content, IsSession
  <2> HIDE DEF a, s
  <2> QED BY <1>0, <2>1, <2>2, <2>3, LatestGrows
<1>4. CASE Overtake
  <2>1. SavedAs(Admitted(Head(bus))) /\ turn'.at # "answered"
    BY <1>4, ReleaseAt DEF Overtake, Save, SavedAs
  <2> QED BY <1>0, <1>2, <2>1, LatestGrows
<1>5. CASE StartTask
  <2> DEFINE x == Head(fresh)
  <2>1. CASE Refused(x, mem)
    BY <1>5, <2>1, LatestUntouched DEF StartTask, files
  <2>2. CASE ~Refused(x, mem)
    <3>1. SavedAs(Admitted(x))
      BY <1>0, <1>5, <2>2, AdmittedBecomes DEF StartTask, Save, SavedAs, files
    <3>2. turn' = turn \/ turn'.at # "answered"
      BY <1>5, <2>2, ReleaseAt DEF StartTask
    <3> QED BY <1>0, <1>2, <3>1, <3>2, LatestGrows
  <2> QED BY <2>1, <2>2
<1> QED BY <1>1, <1>3, <1>4, <1>5 DEF Run

\* What a turn begins with.
LEMMA BegunSession ==
  ASSUME IsSession(mem), BeginTurn
  PROVE  LET x == Head(waiting)
             s == RestoreChk(mem)
             r == RestorePending(s)
             new == [r EXCEPT !.rows = Append(@, <<"user", x>>), !.pend = TRUE, !.jnl = @ \ {x}]
         IN /\ Closes(s, r) /\ IsSession(new)
            /\ new.rows = Append(r.rows, <<"user", x>>) /\ new.chk = NoChk
            /\ new.jnl = mem.jnl \ {x} /\ new.rec = mem.rec
            /\ SavedAs(IF x.kind = "user" THEN new ELSE s)
            /\ turn' = [msg |-> x, n |-> turns + 1, k |-> 0, at |-> "model", out |-> <<>>]
<1> DEFINE x == Head(waiting)
           s == RestoreChk(mem)
           r == RestorePending(s)
           rows == Append(r.rows, <<"user", x>>)
           new == [r EXCEPT !.rows = Append(@, <<"user", x>>), !.pend = TRUE, !.jnl = @ \ {x}]
<1>1. IsSession(s) /\ s.chk = NoChk /\ s.jnl = mem.jnl /\ s.rec = mem.rec
  BY RestoreChkElements
<1>2. Closes(s, r) /\ r.rec = s.rec
  BY <1>1, RestorePendingCloses, RestorePendingExtends
<1>3. SavedAs(IF x.kind = "user" THEN new ELSE s)
  BY DEF BeginTurn, Save, SavedAs, files
<1>4. turn' = [msg |-> x, n |-> turns + 1, k |-> 0, at |-> "model", out |-> <<>>]
  BY DEF BeginTurn
<1> HIDE DEF r, s, x
<1>5. IsSession(r) /\ IsSeq(rows)
  BY <1>2, AppendIsSeq DEF Closes, IsSession
<1>6. /\ new.rows = rows /\ new.chk = r.chk /\ new.jnl = r.jnl \ {x} /\ new.rec = r.rec
      /\ IsSession(new)
  <2>1. PICK a, p, c, q, j : r = [rows |-> a, pend |-> p, chk |-> c, rec |-> q, jnl |-> j]
    BY <1>5, SessionFields
  <2>2. /\ q = [status |-> q.status, id |-> q.id, can |-> q.can, count |-> q.count]
        /\ rows = Append(a, <<"user", x>>)
    BY <1>5, <2>1 DEF IsSession
  <2>3. new = [r EXCEPT !.rows = rows, !.pend = TRUE, !.jnl = r.jnl \ {x}]
    BY <2>1
  <2> HIDE DEF new, rows
  <2> QED BY <1>5, <2>3 DEF IsSession
<1>7. r.chk = s.chk /\ r.jnl = s.jnl
  BY <1>2 DEF Closes
<1> HIDE DEF new
<1> QED BY <1>1, <1>2, <1>3, <1>4, <1>6, <1>7 DEF x, s, r, new

LEMMA BeginLatest == IInv /\ LatestInv /\ BeginTurn => LatestInv'
<1> SUFFICES ASSUME IInv, LatestInv, BeginTurn PROVE LatestInv'
  OBVIOUS
<1>0. IsSession(mem) /\ up /\ UNCHANGED latest
  BY DEF IInv, Shape, BeginTurn
<1> DEFINE x == Head(waiting)
           s == RestoreChk(mem)
           r == RestorePending(s)
           new == [r EXCEPT !.rows = Append(@, <<"user", x>>), !.pend = TRUE, !.jnl = @ \ {x}]
           t == IF x.kind = "user" THEN new ELSE s
<1>1. /\ Closes(s, r) /\ new.rows = Append(r.rows, <<"user", x>>)
      /\ SavedAs(t) /\ turn'.at = "model"
  BY <1>0, BegunSession
<1>2. Becomes(mem, r) /\ Becomes(mem, s)
  BY <1>0, <1>1, RestoreChkBecomes DEF Becomes
<1>3. r.chk = NoChk
  BY <1>0, <1>1, RestoreChkElements DEF Closes
<1> HIDE DEF s, r, new, x
<1>4. Content(mem) \subseteq Content(r) /\ Content(mem) \subseteq Content(s) /\ IsSession(r)
  BY <1>0, <1>2, BecomesContent
<1>5. ToSet(new.rows) = ToSet(r.rows) \cup {<<"user", x>>}
  BY <1>1, <1>4, AppendIsSeq DEF IsSession
<1>6. ToSet(ChkRows(r.chk)) = {}
  BY <1>3, EmptyIsSeq DEF ChkRows
<1>7. Content(mem) \subseteq Content(t)
  BY <1>4, <1>5, <1>6 DEF Content
<1> HIDE DEF t
<1> QED BY <1>0, <1>1, <1>7, LatestGrows

\* A checkpoint holds the step it is made of.
LEMMA CheckpointHolds ==
  ASSUME IInv, NEW p, NEW n, NEW k, SaveCheckpoint(<<p, n, k>>),
         NEW row, row \in ToSet(ChkRows(<<p, n, k>>))
  PROVE  row \in Content(mem') /\ row \in Content(Loaded')
<1> DEFINE c == <<p, n, k>>
<1>1. c # NoChk
  BY DEF NoChk
<1> HIDE DEF c
<1>2. mem' = [mem EXCEPT !.chk = c] /\ side' = c /\ disk' = disk
  BY DEF SaveCheckpoint, c
<1>3. Loaded' = [disk EXCEPT !.chk = c]
  BY <1>1, <1>2 DEF Loaded
<1>4. IsSession(mem) /\ IsSession(disk)
  BY DEF IInv, Shape
<1>5. mem'.chk = c /\ Loaded'.chk = c
  BY <1>2, <1>3, <1>4 DEF IsSession
<1> QED BY <1>5 DEF Content, c

LEMMA TwoElements == ASSUME NEW a, NEW b PROVE ToSet(<<a>>) = {a} /\ ToSet(<<a, b>>) = {a, b}
<1>1. DOMAIN <<a>> = 1 .. 1 /\ DOMAIN <<a, b>> = 1 .. 2 /\ 1 .. 1 = {1} /\ 1 .. 2 = {1, 2}
  OBVIOUS
<1> QED BY <1>1 DEF ToSet

LEMMA StepLatest == IInv /\ LatestInv /\ (CallTools \/ FinishTools \/ Answer) => LatestInv'
<1> SUFFICES ASSUME IInv, LatestInv, CallTools \/ FinishTools \/ Answer PROVE LatestInv'
  OBVIOUS
<1>0. IsTurn(turn) /\ IsSeq(turn.out) /\ IsSeq(queue)
  BY DEF IInv, Shape
<1>1. CASE CallTools
  <2>1. latest' = <<>>
    BY <1>1 DEF CallTools
  <2> QED BY <2>1 DEF LatestInv, Holds
<1>2. CASE FinishTools
  <2> DEFINE row == <<"result", turn.n, turn.k>>
             c == <<"tools_completed", turn.n, turn.k>>
  <2>1. latest' = row /\ SaveCheckpoint(c) /\ turn'.at = "model"
    BY <1>0, <1>2 DEF FinishTools, IsTurn
  <2>2. c # NoChk /\ c[1] = "tools_completed" /\ c[2] = turn.n /\ c[3] = turn.k
    BY DEF NoChk
  <2>3. PICK call : ChkRows(c) = <<call, row>>
    BY <2>2 DEF ChkRows
  <2>4. row \in ToSet(ChkRows(c))
    <3> HIDE DEF row, c
    <3>1. ToSet(<<call, row>>) = {call, row}
      BY TwoElements
    <3> QED BY <2>3, <3>1
  <2>5. row \in Content(mem') /\ row \in Content(Loaded')
    BY <2>1, <2>4, CheckpointHolds
  <2> HIDE DEF row, c
  <2>6. Holds(mem)' /\ Holds(Loaded)'
    BY <2>1, <2>5 DEF Holds, Content
  <2> QED BY <2>1, <2>6 DEF LatestInv
<1>3. CASE Answer
  <2> DEFINE k1 == turn.k + 1
             row == <<"answer", turn.n, k1>>
             c == <<"final_response", turn.n, k1>>
             one == Append(turn.out, row)
             more == IF turn.k < MaxSteps THEN Inject ELSE <<>>
             out == one \o more
             at == IF queue # <<>> /\ turn.k < MaxSteps THEN "model" ELSE "answered"
  <2>1. latest' = row /\ SaveCheckpoint(c) /\ turn' = [turn EXCEPT !.k = k1, !.at = at, !.out = out]
    BY <1>3 DEF Answer
  <2>2. c # NoChk /\ c[1] = "final_response" /\ c[2] = turn.n /\ c[3] = k1
    BY DEF NoChk
  <2>3. ChkRows(c) = <<row>>
    BY <2>2 DEF ChkRows
  <2>4. row \in ToSet(ChkRows(c))
    BY <2>3, TwoElements
  <2>5. row \in Content(mem') /\ row \in Content(Loaded')
    BY <2>1, <2>4, CheckpointHolds
  <2>6. IsSeq(one) /\ IsSeq(more) /\ row \in ToSet(one)
    BY <1>0, AppendIsSeq, InjectIsSeq, EmptyIsSeq
  <2>7. row[1] = "answer"
    OBVIOUS
  <2> HIDE DEF row, c, one, more, at
  <2>8. row \in ToSet(out)
    BY <2>6, ConcatIsSeq
  <2> HIDE DEF out, k1
  <2>9. turn'.out = out
    BY <1>0, <2>1 DEF IsTurn
  <2>10. Holds(mem)' /\ Holds(Loaded)'
    BY <2>1, <2>5 DEF Holds, Content
  <2> QED BY <2>1, <2>7, <2>8, <2>9, <2>10 DEF LatestInv
<1> QED BY <1>1, <1>2, <1>3

\* A commit writes every row that is not a result, the answer among them.
LEMMA CommitRows ==
  ASSUME NEW s, IsSession(s), NEW out, IsSeq(out)
  PROVE  LET t == CommitTurn(s, out) IN
         /\ IsSession(t) /\ IsSeq(Saved(s.rows, out))
         /\ t.rows = s.rows \o Saved(s.rows, out) /\ t.chk = NoChk /\ ~t.pend
         /\ t.jnl = Unacked(s, Saved(s.rows, out)) /\ t.rec = s.rec
<1> DEFINE rows == Saved(s.rows, out)
           t == CommitTurn(s, out)
<1>1. IsSeq(rows)
  BY PickedIsSeq DEF Saved
<1> HIDE DEF rows
<1>2. t = [s EXCEPT !.rows = @ \o rows, !.jnl = Unacked(s, rows), !.pend = FALSE, !.chk = NoChk]
  BY DEF CommitTurn, rows
<1>3. IsSeq(s.rows \o rows)
  BY <1>1, ConcatIsSeq DEF IsSession
<1>4. /\ IsSession(t) /\ t.rows = s.rows \o rows /\ t.chk = NoChk /\ ~t.pend
      /\ t.jnl = Unacked(s, rows) /\ t.rec = s.rec
  BY <1>2, <1>3 DEF IsSession
<1> QED BY <1>1, <1>4 DEF rows

\* Every element at a place is picked.
LEMMA PickedHits ==
  ASSUME NEW q, IsSeq(q), NEW places \in SUBSET DOMAIN q, NEW i \in places
  PROVE  q[i] \in ToSet(Picked(q, places))
<1> DEFINE p == Picked(q, places)
           c == Cardinality(places)
           At(j) == CHOOSE h \in places : Rank(places, h) = j
<1>1. Len(q) \in Nat /\ DOMAIN q = 1 .. Len(q)
  BY DEF IsSeq
<1>2. c \in Nat /\ \A j \in 1 .. c : \E h \in places : Rank(places, h) = j
  BY <1>1, RankHit
<1>3. Rank(places, i) \in 1 .. c /\ \A h \in places : Rank(places, h) = Rank(places, i) => h = i
  BY <1>1, RankHit
<1>4. At(Rank(places, i)) = i
  BY <1>2, <1>3
<1>5. p = [j \in 1 .. c |-> q[At(j)]]
  BY DEF Picked, Rank
<1>6. DOMAIN p = 1 .. c /\ p[Rank(places, i)] = q[i]
  <2> HIDE DEF p, c
  <2> QED BY <1>3, <1>4, <1>5
<1> QED BY <1>3, <1>6 DEF ToSet

\* The ends of a turn, and the user's choice.
LEMMA EndLatest ==
  IInv /\ LatestInv /\ (Commit \/ EndTurn \/ TurnRaises \/ Stop \/ Continue \/ Dismiss)
    => LatestInv'
<1> SUFFICES ASSUME IInv, LatestInv,
                    Commit \/ EndTurn \/ TurnRaises \/ Stop \/ Continue \/ Dismiss
             PROVE  LatestInv'
  OBVIOUS
<1>0. IsSession(mem) /\ IsTurn(turn) /\ IsSeq(turn.out) /\ up /\ UNCHANGED latest
  BY DEF IInv, Shape, Active, Commit, EndTurn, TurnRaises, Stop, Continue, Dismiss, history
<1>1. CASE Commit
  <2> DEFINE t == CommitTurn(mem, turn.out)
             rows == Saved(mem.rows, turn.out)
  <2>1. SavedAs(t) /\ turn' = [turn EXCEPT !.at = "committed"] /\ turn.at = "answered"
    BY <1>1 DEF Commit, Save, SavedAs
  <2>2. turn'.at = "committed"
    BY <1>0, <2>1 DEF IsTurn
  <2>3. IsSeq(rows) /\ t.rows = mem.rows \o rows
    BY <1>0, CommitRows
  <2>4. ASSUME latest # <<>> PROVE latest \in ToSet(rows)
    <3> DEFINE out == turn.out
               had == {<<r[2], r[3]>> : r \in {x \in ToSet(mem.rows) : x[1] \in {"result", "broken"}}}
               P == {i \in DOMAIN out : out[i][1] = "result" => <<out[i][2], out[i][3]>> \notin had}
    <3>1. latest \in ToSet(out) /\ latest[1] = "answer"
      BY <2>1, <2>4 DEF LatestInv
    <3>2. PICK i \in DOMAIN out : out[i] = latest
      BY <3>1 DEF ToSet
    <3>3. i \in P /\ P \in SUBSET DOMAIN out
      BY <3>1, <3>2
    <3>4. rows = Picked(out, P)
      BY DEF Saved
    <3> HIDE DEF rows, P
    <3> QED BY <1>0, <3>2, <3>3, <3>4, PickedHits
  <2> HIDE DEF t, rows
  <2>5. ToSet(t.rows) = ToSet(mem.rows) \cup ToSet(rows)
    BY <1>0, <2>3, ConcatIsSeq DEF IsSession
  <2>6. Holds(t)
    BY <2>4, <2>5 DEF Holds, Content
  <2> QED BY <1>0, <2>1, <2>2, <2>6, LatestSaved
<1>2. CASE EndTurn \/ TurnRaises
  <2>1. SavedAs(Resolve(mem)) /\ Release
    BY <1>2 DEF EndTurn, TurnRaises, Save, SavedAs, files
  <2>2. Content(mem) \subseteq Content(Resolve(mem))
    BY <1>0, ResolveData, SameBecomes, BecomesContent
  <2> QED BY <1>0, <2>1, <2>2, ReleaseAt, LatestGrows
<1>3. CASE Stop
  <2>1. (SavedAs(RestoreChk(mem)) \/ SavedAs(mem)) /\ Release
    BY <1>3 DEF Stop, Save, SavedAs, files
  <2>2. Content(mem) \subseteq Content(RestoreChk(mem))
    BY <1>0, RestoreChkBecomes, BecomesContent
  <2> QED BY <1>0, <2>1, <2>2, ReleaseAt, LatestGrows
<1>4. CASE Continue
  <2> DEFINE n == Len(mem.rows)
             s == [mem EXCEPT !.rec.status = "resuming", !.rec.count = n]
  <2>1. SavedAs(s) /\ turn' = turn
    BY <1>4 DEF Continue, Save, SavedAs
  <2> HIDE DEF n
  <2>2. SameData(mem, s)
    BY <1>0, ContinueData
  <2> HIDE DEF s
  <2>3. Content(mem) \subseteq Content(s)
    BY <1>0, <2>2, SameBecomes, BecomesContent
  <2> QED BY <1>0, <2>1, <2>3, LatestGrows
<1>5. CASE Dismiss
  <2> DEFINE s == SetStatus(RestorePending(RestoreChk(mem)), "recovered")
  <2>1. SavedAs(s) /\ turn' = turn
    BY <1>5 DEF Dismiss, Save, SavedAs
  <2>2. Content(mem) \subseteq Content(s)
    BY <1>0, DismissBecomes, BecomesContent
  <2> HIDE DEF s
  <2> QED BY <1>0, <2>1, <2>2, LatestGrows
<1> QED BY <1>1, <1>2, <1>3, <1>4, <1>5

LEMMA UpDownLatest == IInv /\ LatestInv /\ (Crash \/ Shutdown \/ Start) => LatestInv'
<1> SUFFICES ASSUME IInv, LatestInv, Crash \/ Shutdown \/ Start PROVE LatestInv'
  OBVIOUS
<1>1. CASE Crash
  <2>1. ~up' /\ turn'.at = "idle" /\ UNCHANGED <<files, latest>>
    BY <1>1, ReleaseAt DEF Crash, Down
  <2> QED BY <2>1 DEF LatestInv, Holds, Loaded, files, Content
<1>2. CASE Shutdown
  <2>1. up /\ ~up' /\ turn'.at = "idle" /\ disk' = mem /\ side' = NoChk /\ latest' = latest
    BY <1>2, ReleaseAt DEF Shutdown, Down
  <2> QED BY <2>1 DEF LatestInv, Holds, Loaded, Content
<1>3. CASE Start
  <2>1. IsSession(Loaded)
    BY ChkExtends DEF Loaded, IInv, Shape, Extends
  <2>2. Content(Loaded) \subseteq Content(Recovered(Loaded))
    BY <2>1, RecoveredBecomes, BecomesContent
  <2>3. UNCHANGED <<turn, latest>>
    BY <1>3 DEF Start, history
  <2>4. \/ mem' = Recovered(Loaded) /\ disk' = Recovered(Loaded) /\ side' = NoChk
        \/ (mem' = Recovered(Loaded) \/ mem' = Loaded) /\ UNCHANGED files
    BY <1>3 DEF Start, Save
  <2>5. (mem' = Recovered(Loaded) \/ mem' = Loaded) /\ (Loaded' = Recovered(Loaded) \/ Loaded' = Loaded)
    BY <2>4 DEF Loaded, files
  <2>6. Holds(mem)' /\ Holds(Loaded)'
    <3> DEFINE l == Loaded
               r == Recovered(Loaded)
    <3>1. latest # <<>> => latest \in Content(l) /\ latest \in Content(r)
      BY <2>2 DEF LatestInv, Holds
    <3> HIDE DEF l, r
    <3>2. latest # <<>> => latest \in Content(mem') /\ latest \in Content(Loaded')
      BY <2>5, <3>1 DEF l, r
    <3> QED BY <2>3, <3>2 DEF Holds, Content
  <2> QED BY <2>3, <2>6 DEF LatestInv
<1> QED BY <1>1, <1>2, <1>3

LEMMA NextLatest == IInv /\ LatestInv /\ [Next]_vars => LatestInv'
<1> SUFFICES ASSUME IInv, LatestInv, [Next]_vars PROVE LatestInv'
  OBVIOUS
<1>1. CASE Send \/ WriteTurnEnd
  BY <1>1, LatestUntouched DEF Send, WriteTurnEnd, files, history
<1>2. CASE WriteHandle
  <2>1. latest' = <<>>
    BY <1>2 DEF WriteHandle
  <2> QED BY <2>1 DEF LatestInv, Holds
<1>3. CASE UNCHANGED vars
  BY <1>3, LatestUntouched DEF vars, files, history
<1> QED BY <1>1, <1>2, <1>3, RunLatest, BeginLatest, StepLatest, EndLatest, UpDownLatest
        DEF Next, TurnStep

\* The step a turn completed last survives whatever ends the turn: it is in the
\* saved history, or in the checkpoint that a restart materializes
\* (save_runtime_checkpoint, restore_runtime_checkpoint, _persist_turn).
THEOREM LatestStepStays == Spec => []LatestStepSurvives
<1>1. Init => LatestInv
  BY DEF Init, LatestInv, Holds
<1>2. IInv /\ LatestInv => LatestStepSurvives
  <2> SUFFICES ASSUME IInv, LatestInv PROVE LatestStepSurvives
    OBVIOUS
  <2>1. IsSession(Loaded)
    BY ChkExtends DEF Loaded, IInv, Shape, Extends
  <2>2. ToSet(RestoreChk(Loaded).rows) = Content(Loaded)
    BY <2>1, RestoreChkElements DEF Content
  <2> QED BY <2>2 DEF LatestInv, Holds, LatestStepSurvives
<1> QED BY <1>1, <1>2, NextLatest, IInvAlways, PTL DEF Spec

----------------------------------------------------------------------------
(* Types                                                                   *)

SessionOK(s) ==
  /\ ToSet(s.rows) \subseteq Row /\ s.pend \in BOOLEAN /\ s.chk \in Chk
  /\ s.rec \in Offer /\ s.jnl \subseteq Msg /\ IsFiniteSet(s.jnl)

QueueOK(q) == IsSeq(q) /\ ToSet(q) \subseteq Msg

SessionsTyped == SessionOK(mem) /\ SessionOK(disk) /\ side \in Chk

PlacesTyped ==
  /\ QueueOK(bus) /\ QueueOK(fresh) /\ QueueOK(waiting) /\ QueueOK(queue)
  /\ Len(queue) <= QueueCap

TurnTyped ==
  /\ ~Active => queue = <<>>
  /\ turn.msg \in Msg /\ turn.n \in 0 .. turns /\ turn.k \in 0 .. MaxSteps + 1
  /\ turn.at \in {"idle", "model", "tools", "answered", "committed"}
  /\ ToSet(turn.out) \subseteq Row

RestTyped ==
  /\ up \in BOOLEAN /\ tail \in {"closed", "open", "ending"}
  /\ sent \in 0 .. MaxUsers /\ turns \in Nat /\ offers \in Nat
  /\ consent \subseteq Msg /\ journaled \subseteq Msg /\ dropped \subseteq Msg

TypeInv == SessionsTyped /\ PlacesTyped /\ TurnTyped /\ RestTyped

LEMMA ChkRowsTyped == ASSUME NEW c \in Chk PROVE ToSet(ChkRows(c)) \subseteq Row
<1>1. CASE c = NoChk
  BY <1>1, EmptyIsSeq DEF ChkRows
<1>2. CASE c # NoChk
  <2>1. c[1] \in {"awaiting_tools", "tools_completed", "final_response"} /\ c[2] \in Nat /\ c[3] \in Nat
    BY <1>2 DEF Chk
  <2>2. \A kind \in {"call", "result", "broken", "answer"} : <<kind, c[2], c[3]>> \in Row
    BY <2>1 DEF Row
  <2>3. CASE c[1] = "final_response"
    <3>1. ChkRows(c) = <<<<"answer", c[2], c[3]>>>>
      BY <1>2, <2>3 DEF ChkRows
    <3>2. ToSet(<<<<"answer", c[2], c[3]>>>>) = {<<"answer", c[2], c[3]>>}
      BY TwoElements
    <3> QED BY <2>2, <3>1, <3>2
  <2>4. CASE c[1] # "final_response"
    <3>1. PICK a \in Row, b \in Row : ChkRows(c) = <<a, b>>
      BY <1>2, <2>1, <2>2, <2>4 DEF ChkRows
    <3>2. ToSet(<<a, b>>) = {a, b}
      BY TwoElements
    <3> QED BY <3>1, <3>2
  <2> QED BY <2>3, <2>4
<1> QED BY <1>1, <1>2

LEMMA ClosesTyped ==
  ASSUME NEW s, IsSession(s), SessionOK(s), NEW t, Closes(s, t),
         t.pend \in BOOLEAN, t.rec \in Offer
  PROVE  SessionOK(t)
<1>1. ToSet(Append(s.rows, Closed)) = ToSet(s.rows) \cup {Closed} /\ Closed \in Row
  BY AppendIsSeq DEF IsSession, Row
<1> QED BY <1>1 DEF SessionOK, Closes

LEMMA RestoreChkTyped ==
  ASSUME NEW s, IsSession(s), SessionOK(s)
  PROVE  SessionOK(RestoreChk(s)) /\ IsSession(RestoreChk(s))
<1>1. /\ IsSession(RestoreChk(s)) /\ RestoreChk(s).chk = NoChk
      /\ RestoreChk(s).jnl = s.jnl /\ RestoreChk(s).rec = s.rec
      /\ ToSet(RestoreChk(s).rows) = ToSet(s.rows) \cup ToSet(ChkRows(s.chk))
  BY RestoreChkElements
<1>2. ToSet(ChkRows(s.chk)) \subseteq Row
  BY ChkRowsTyped DEF SessionOK
<1>3. RestoreChk(s).pend \in BOOLEAN
  BY DEF RestoreChk, SessionOK, IsSession
<1> QED BY <1>1, <1>2, <1>3 DEF SessionOK, Chk

LEMMA SetStatusTyped ==
  ASSUME NEW s, IsSession(s), SessionOK(s),
         NEW status \in {"none", "resuming", "awaiting_user", "recovered"}
  PROVE  SessionOK(SetStatus(s, status)) /\ IsSession(SetStatus(s, status))
<1>1. SetStatus(s, status).pend = s.pend
  BY DEF SetStatus, IsSession
<1>2. SetStatus(s, status).rec = [s.rec EXCEPT !.status = status]
  BY DEF SetStatus, IsSession
<1>3. SetStatus(s, status).rec \in Offer
  BY <1>2 DEF Offer, SessionOK
<1> QED BY <1>1, <1>3, SetStatusData DEF SessionOK, SameData

LEMMA RestorePendingTyped ==
  ASSUME NEW s, IsSession(s), SessionOK(s)
  PROVE  SessionOK(RestorePending(s)) /\ IsSession(RestorePending(s))
<1>1. RestorePending(s).pend \in BOOLEAN /\ RestorePending(s).rec = s.rec
  BY DEF RestorePending, IsSession, SessionOK
<1> QED BY <1>1, RestorePendingCloses, ClosesTyped DEF Closes, SessionOK

LEMMA AppendInterruptionTyped ==
  ASSUME NEW s, IsSession(s), SessionOK(s)
  PROVE  SessionOK(AppendInterruption(s)) /\ IsSession(AppendInterruption(s))
<1>1. AppendInterruption(s).pend = s.pend /\ AppendInterruption(s).rec = s.rec
  BY DEF AppendInterruption, IsSession
<1> QED BY <1>1, AppendInterruptionCloses, ClosesTyped DEF Closes, SessionOK

LEMMA SupersedeTyped ==
  ASSUME NEW s, IsSession(s), SessionOK(s)
  PROVE  SessionOK(Supersede(s)) /\ IsSession(Supersede(s))
<1> DEFINE r == RestoreChk(s)
           t == IF r.pend THEN RestorePending(r) ELSE AppendInterruption(r)
<1>1. IsSession(r) /\ SessionOK(r)
  BY RestoreChkTyped
<1>2. IsSession(t) /\ SessionOK(t)
  BY <1>1, RestorePendingTyped, AppendInterruptionTyped
<1>3. Supersede(s) = SetStatus(t, "recovered")
  BY DEF Supersede
<1> HIDE DEF t, r
<1> QED BY <1>2, <1>3, SetStatusTyped

LEMMA ResolveTyped ==
  ASSUME NEW s, IsSession(s), SessionOK(s)
  PROVE  SessionOK(Resolve(s)) /\ IsSession(Resolve(s))
BY SetStatusTyped DEF Resolve

LEMMA OfferFlag ==
  ASSUME NEW s, IsSession(s), NEW can
  PROVE  LET t == [s EXCEPT !.rec.can = can] IN
         t.pend = s.pend /\ t.rec = [s.rec EXCEPT !.can = can]
BY DEF IsSession

LEMMA OfferedTyped ==
  ASSUME NEW s, IsSession(s), SessionOK(s), NEW id \in Nat, NEW can \in BOOLEAN
  PROVE  SessionOK(Offered(s, id, can)) /\ IsSession(Offered(s, id, can))
<1> DEFINE t1 == SetStatus(s, "awaiting_user")
           t2 == [t1 EXCEPT !.rec.id = id]
           t3 == [t2 EXCEPT !.rec.can = can]
<1>1. Offered(s, id, can) = t3
  BY DEF Offered, SetStatus
<1>2. IsSession(t1) /\ SessionOK(t1)
  BY SetStatusTyped
<1> HIDE DEF t1
<1>3. IsSession(t2) /\ t2.pend = t1.pend /\ t2.rec = [t1.rec EXCEPT !.id = id]
  BY <1>2 DEF IsSession
<1>4. t2.rec \in Offer
  BY <1>2, <1>3 DEF SessionOK, Offer
<1> HIDE DEF t2
<1>5. IsSession(t3) /\ t3.pend = t2.pend /\ t3.rec = [t2.rec EXCEPT !.can = can]
  BY <1>1, <1>3, OfferedExtends, OfferFlag DEF Extends
<1>6. t3.rec \in Offer
  BY <1>4, <1>5 DEF Offer
<1>7. t3.pend \in BOOLEAN
  BY <1>2, <1>3, <1>5 DEF SessionOK
<1>8. SameData(s, t3)
  BY <1>1, OfferedData
<1> HIDE DEF t3
<1> QED BY <1>1, <1>5, <1>6, <1>7, <1>8 DEF SessionOK, SameData

LEMMA ContinueTyped ==
  ASSUME NEW s, IsSession(s), SessionOK(s)
  PROVE  SessionOK([s EXCEPT !.rec.status = "resuming", !.rec.count = Len(s.rows)])
<1> DEFINE n == Len(s.rows)
           t == SetStatus(s, "resuming")
           u == [s EXCEPT !.rec.status = "resuming", !.rec.count = n]
<1>1. u = [t EXCEPT !.rec.count = n]
  BY DEF SetStatus
<1>2. n \in Nat
  BY DEF IsSession, IsSeq
<1> HIDE DEF n
<1>3. SessionOK(t) /\ IsSession(t)
  BY SetStatusTyped
<1>4. SameData(s, u)
  BY ContinueData
<1> HIDE DEF t, u
<1>5. u.pend = t.pend /\ u.rec = [t.rec EXCEPT !.count = n]
  BY <1>1, <1>3 DEF IsSession
<1>6. u.rec \in Offer
  BY <1>2, <1>3, <1>5 DEF SessionOK, Offer
<1>7. SessionOK(u)
  BY <1>3, <1>4, <1>5, <1>6 DEF SessionOK, SameData
<1> QED BY <1>7 DEF u, n

LEMMA RecoveredTyped ==
  ASSUME NEW s, IsSession(s), SessionOK(s), offers \in Nat
  PROVE  SessionOK(Recovered(s)) /\ IsSession(Recovered(s))
<1> DEFINE r == RestoreChk(s)
           o == Offered(s, offers + 1, HasContext(s.rows))
           p == Offered(r, offers + 1, TRUE)
           q == RestorePending(r)
<1>1. IsSession(r) /\ SessionOK(r)
  BY RestoreChkTyped
<1>2. IsSession(q) /\ SessionOK(q)
  BY <1>1, RestorePendingTyped
<1>3. HasContext(s.rows) \in BOOLEAN /\ offers + 1 \in Nat
  BY DEF HasContext
<1>4. /\ IsSession(o) /\ SessionOK(o)
      /\ IsSession(p) /\ SessionOK(p)
  BY <1>1, <1>3, OfferedTyped
<1>5. Recovered(s) \in {s, SetStatus(s, "recovered"), SetStatus(s, "awaiting_user"), o,
                        SetStatus(q, "awaiting_user"), p, SetStatus(p, "recovered")}
  BY DEF Recovered
<1> HIDE DEF r, o, p, q
<1> QED BY <1>1, <1>2, <1>4, <1>5, SetStatusTyped

LEMMA AdmittedTyped ==
  ASSUME IsSession(mem), SessionOK(mem), NEW x
  PROVE  SessionOK(Admitted(x)) /\ IsSession(Admitted(x))
<1> DEFINE r == IF CancelsTurn(x) THEN RestoreChk(mem) ELSE mem
<1>1. IsSession(r) /\ SessionOK(r)
  BY RestoreChkTyped
<1>2. Admitted(x) = IF ~Supersedes(x, mem) THEN mem ELSE Supersede(r)
  BY DEF Admitted
<1> HIDE DEF r
<1> QED BY <1>1, <1>2, SupersedeTyped

\* What is picked is among the elements.
LEMMA PickedSubset ==
  ASSUME NEW q, IsSeq(q), NEW places \in SUBSET DOMAIN q
  PROVE  IsSeq(Picked(q, places)) /\ ToSet(Picked(q, places)) \subseteq ToSet(q)
<1>1. \A j \in DOMAIN Picked(q, places) : \E i \in places : Picked(q, places)[j] = q[i]
  BY PickedElements
<1>2. \A j \in DOMAIN Picked(q, places) : Picked(q, places)[j] \in ToSet(q)
  BY <1>1 DEF ToSet
<1> QED BY <1>2, PickedIsSeq DEF ToSet

LEMMA SavedSubset ==
  ASSUME NEW rows, NEW out, IsSeq(out)
  PROVE  IsSeq(Saved(rows, out)) /\ ToSet(Saved(rows, out)) \subseteq ToSet(out)
BY PickedSubset DEF Saved

LEMMA CommitTurnTyped ==
  ASSUME NEW s, IsSession(s), SessionOK(s), NEW out, IsSeq(out), ToSet(out) \subseteq Row
  PROVE  SessionOK(CommitTurn(s, out))
<1> DEFINE t == CommitTurn(s, out)
           rows == Saved(s.rows, out)
<1>1. /\ IsSession(t) /\ IsSeq(rows) /\ t.rows = s.rows \o rows /\ t.chk = NoChk /\ ~t.pend
      /\ t.jnl = Unacked(s, rows) /\ t.rec = s.rec
  BY CommitRows
<1>2. t.pend = FALSE
  <2>1. t = [s EXCEPT !.rows = @ \o rows, !.jnl = Unacked(s, rows), !.pend = FALSE, !.chk = NoChk]
    BY DEF CommitTurn
  <2> QED BY <2>1 DEF IsSession
<1>3. ToSet(rows) \subseteq Row
  BY SavedSubset
<1> HIDE DEF rows, t
<1>4. ToSet(t.rows) = ToSet(s.rows) \cup ToSet(rows)
  BY <1>1, ConcatIsSeq DEF IsSession
<1>5. Unacked(s, rows) \subseteq s.jnl
  BY DEF Unacked
<1>6. IsFiniteSet(t.jnl) /\ t.jnl \subseteq Msg
  BY <1>1, <1>5, FS_Subset DEF SessionOK
<1> QED BY <1>1, <1>2, <1>3, <1>4, <1>6 DEF SessionOK, Chk, t

\* Queues of messages.
LEMMA QueueOps ==
  /\ QueueOK(<<>>)
  /\ \A q, x : QueueOK(q) /\ x \in Msg => QueueOK(Append(q, x))
  /\ \A q : QueueOK(q) /\ q # <<>> => QueueOK(Tail(q)) /\ Head(q) \in Msg
  /\ \A p, q : QueueOK(p) /\ QueueOK(q) => QueueOK(p \o q)
  /\ \A q : \A places \in SUBSET DOMAIN q : QueueOK(q) => QueueOK(Picked(q, places))
<1>1. QueueOK(<<>>)
  BY EmptyIsSeq DEF QueueOK
<1>2. ASSUME NEW q, NEW x \in Msg, QueueOK(q) PROVE QueueOK(Append(q, x))
  BY <1>2, AppendIsSeq DEF QueueOK
<1>3. ASSUME NEW q, QueueOK(q), q # <<>> PROVE QueueOK(Tail(q)) /\ Head(q) \in Msg
  BY <1>3, TailIsSeq DEF QueueOK
<1>4. ASSUME NEW p, NEW q, QueueOK(p), QueueOK(q) PROVE QueueOK(p \o q)
  BY <1>4, ConcatIsSeq DEF QueueOK
<1>5. ASSUME NEW q, NEW places \in SUBSET DOMAIN q, QueueOK(q) PROVE QueueOK(Picked(q, places))
  BY <1>5, PickedSubset DEF QueueOK
<1> QED BY <1>1, <1>2, <1>3, <1>4, <1>5

LEMMA OtherWaitingTyped == ASSUME QueueOK(waiting) PROVE QueueOK(OtherWaiting)
<1>1. {i \in DOMAIN waiting : waiting[i].kind # "cont"} \in SUBSET DOMAIN waiting
  OBVIOUS
<1> QED BY <1>1, QueueOps DEF OtherWaiting

\* A row of the user holds a message.
LEMMA UserRow == ASSUME NEW r \in Row, r[1] = "user" PROVE r[2] \in Msg /\ r = <<"user", r[2]>>
BY DEF Row, Closed

LEMMA InjectedTyped == ASSUME ToSet(turn.out) \subseteq Row PROVE Injected \subseteq Msg
BY UserRow DEF Injected

\* The rows a turn makes of its queue.
LEMMA InjectElements ==
  ASSUME IsSeq(queue)
  PROVE  /\ IsSeq(Inject) /\ ToSet(Inject) = {<<"user", x>> : x \in ToSet(queue)}
         /\ DOMAIN Inject = DOMAIN queue /\ \A i \in DOMAIN queue : Inject[i] = <<"user", queue[i]>>
BY InjectIsSeq DEF Inject, ToSet

LEMMA ReleaseTyped ==
  ASSUME Release, turns' \in Nat
  PROVE  TurnTyped' /\ queue' = <<>> /\ Len(queue') <= QueueCap
<1>1. /\ turn'.msg \in Msg /\ turn'.n = 0 /\ turn'.k = 0 /\ turn'.at = "idle" /\ turn'.out = <<>>
      /\ queue' = <<>>
  BY DEF Release, Idle, User, Msg
<1>2. QueueCap \in Nat /\ MaxSteps \in Nat
  BY RecoveryAssumption
<1> QED BY <1>1, <1>2, EmptyIsSeq DEF TurnTyped, Active

LEMMA SavedTyped ==
  ASSUME SessionsTyped, NEW s, SessionOK(s), SavedAs(s)
  PROVE  SessionsTyped'
BY DEF SessionsTyped, SessionOK, SavedAs, files, Chk

LEMMA SendTyped == IInv /\ TypeInv /\ Send => TypeInv'
<1> SUFFICES ASSUME IInv, TypeInv, Send PROVE TypeInv'
  OBVIOUS
<1>1. /\ sent < MaxUsers /\ sent' = sent + 1 /\ bus' = Append(bus, User(sent + 1))
      /\ tail' = "closed" /\ sent \in Nat /\ MaxUsers \in Nat
      /\ UNCHANGED <<up, mem, disk, side, fresh, waiting, turn, queue, turns, offers, consent,
                     journaled, dropped>>
  BY RecoveryAssumption DEF Send, files, history, TypeInv, RestTyped
<1>2. User(sent + 1) \in Msg
  BY <1>1 DEF User, Msg
<1>3. QueueOK(bus')
  BY <1>1, <1>2, QueueOps DEF TypeInv, PlacesTyped
<1> QED BY <1>1, <1>3 DEF TypeInv, SessionsTyped, SessionOK, PlacesTyped, QueueOK, IsSeq,
                          TurnTyped, RestTyped, Active

\* run() and the start of a task.
LEMMA RunTyped == IInv /\ TypeInv /\ (Run \/ StartTask) => TypeInv'
<1> SUFFICES ASSUME IInv, TypeInv, Run \/ StartTask PROVE TypeInv'
  OBVIOUS
<1>0. /\ IsSession(mem) /\ SessionOK(mem) /\ QueueOK(bus) /\ QueueOK(fresh) /\ QueueOK(waiting)
      /\ QueueOK(queue) /\ QueueOK(OtherWaiting) /\ Injected \subseteq Msg /\ turn.msg \in Msg
      /\ turns \in Nat /\ QueueCap \in Nat
  BY OtherWaitingTyped, InjectedTyped, RecoveryAssumption
     DEF IInv, Shape, TypeInv, SessionsTyped, PlacesTyped, TurnTyped, RestTyped
<1>1. UNCHANGED <<up, tail, sent, turns, offers, consent>>
  BY DEF Run, Spawn, FollowUp, Overtake, Refuse, StartTask, counts, history
<1>2. \A x : SessionOK(Admitted(x)) /\ IsSession(Admitted(x))
  BY <1>0, AdmittedTyped
<1>3. CASE Spawn
  <2>1. /\ bus # <<>> /\ bus' = Tail(bus) /\ fresh' = Append(fresh, Head(bus))
        /\ UNCHANGED <<mem, disk, side, waiting, turn, queue, journaled, dropped>>
    BY <1>3 DEF Spawn, files, history
  <2>2. QueueOK(bus') /\ QueueOK(fresh')
    BY <1>0, <2>1, QueueOps
  <2> QED BY <1>1, <2>1, <2>2 DEF TypeInv, SessionsTyped, SessionOK, PlacesTyped, QueueOK, IsSeq,
                                  TurnTyped, RestTyped, Active
<1>4. CASE FollowUp
  <2> DEFINE x == Head(bus)
             a == Admitted(x)
             s == [a EXCEPT !.jnl = @ \cup {x}]
  <2>1. /\ bus # <<>> /\ bus' = Tail(bus) /\ SavedAs(s) /\ turn' = turn /\ Active
        /\ journaled' = journaled \cup {x} /\ dropped' = dropped
        /\ waiting' = IF Supersedes(x, mem) THEN OtherWaiting ELSE waiting
        /\ \/ Len(queue) < QueueCap /\ queue' = Append(queue, x) /\ fresh' = fresh
           \/ queue' = queue /\ fresh' = Append(fresh, x)
    BY <1>4 DEF FollowUp, Journal, Save, SavedAs
  <2>2. QueueOK(bus') /\ x \in Msg
    BY <1>0, <2>1, QueueOps
  <2>3. IsSession(a) /\ SessionOK(a)
    BY <1>2
  <2> HIDE DEF x, a
  <2>4. SessionOK(s)
    <3>1. s.rows = a.rows /\ s.chk = a.chk /\ s.pend = a.pend /\ s.rec = a.rec /\ s.jnl = a.jnl \cup {x}
      BY <2>3 DEF IsSession
    <3> QED BY <2>2, <2>3, <3>1, FS_AddElement DEF SessionOK
  <2> HIDE DEF s
  <2>5. SessionsTyped'
    BY <2>1, <2>4, SavedTyped DEF TypeInv
  <2>6. QueueOK(fresh') /\ QueueOK(waiting') /\ QueueOK(queue')
    BY <1>0, <2>1, <2>2, QueueOps
  <2>7. Len(queue') <= QueueCap
    <3>1. Len(queue) \in Nat /\ Len(Append(queue, x)) = Len(queue) + 1
      <4>1. queue \in Seq(ToSet(queue) \cup {x})
        BY <1>0 DEF QueueOK, IsSeq
      <4> QED BY <4>1
    <3> QED BY <1>0, <2>1, <3>1 DEF TypeInv, PlacesTyped
  <2> QED BY <1>1, <2>1, <2>2, <2>5, <2>6, <2>7
          DEF TypeInv, PlacesTyped, QueueOK, IsSeq, TurnTyped, RestTyped, Active
<1>5. CASE Overtake
  <2>1. /\ bus # <<>> /\ bus' = Tail(bus) \o queue /\ SavedAs(Admitted(Head(bus))) /\ Release
        /\ journaled' = journaled /\ dropped' = dropped \cup {turn.msg} \cup Injected
        /\ waiting' = OtherWaiting /\ fresh' = Append(fresh, Head(bus))
    BY <1>5 DEF Overtake, Save, SavedAs
  <2>2. SessionsTyped'
    BY <1>2, <2>1, SavedTyped DEF TypeInv
  <2>3. QueueOK(bus') /\ QueueOK(fresh') /\ QueueOK(waiting') /\ QueueOK(<<>>)
    BY <1>0, <2>1, QueueOps
  <2>4. TurnTyped' /\ queue' = <<>> /\ Len(queue') <= QueueCap
    BY <1>0, <1>1, <2>1, ReleaseTyped
  <2> QED BY <1>0, <1>1, <2>1, <2>2, <2>3, <2>4 DEF TypeInv, PlacesTyped, QueueOK, IsSeq, RestTyped
<1>6. CASE Refuse
  <2>1. /\ bus # <<>> /\ bus' = Tail(bus) /\ dropped' = dropped \cup {Head(bus)}
        /\ UNCHANGED <<mem, disk, side, fresh, waiting, turn, queue, journaled>>
    BY <1>6 DEF Refuse, files
  <2>2. QueueOK(bus') /\ Head(bus) \in Msg
    BY <1>0, <2>1, QueueOps
  <2> QED BY <1>1, <2>1, <2>2 DEF TypeInv, SessionsTyped, SessionOK, PlacesTyped, QueueOK, IsSeq,
                                  TurnTyped, RestTyped, Active
<1>7. CASE StartTask
  <2> DEFINE x == Head(fresh)
             w == IF Supersedes(x, mem) THEN OtherWaiting ELSE waiting
  <2>1. fresh # <<>> /\ fresh' = Tail(fresh) /\ journaled' = journaled
    BY <1>7 DEF StartTask
  <2>2. QueueOK(fresh') /\ x \in Msg
    BY <1>0, <2>1, QueueOps
  <2>3. CASE Refused(x, mem)
    <3>1. /\ dropped' = dropped \cup {x}
          /\ UNCHANGED <<mem, disk, side, bus, waiting, turn, queue>>
      BY <1>7, <2>3 DEF StartTask, files
    <3> QED BY <1>1, <2>1, <2>2, <3>1 DEF TypeInv, SessionsTyped, SessionOK, PlacesTyped, QueueOK,
                                          IsSeq, TurnTyped, RestTyped, Active
  <2>4. CASE ~Refused(x, mem)
    <3>1. /\ SavedAs(Admitted(x)) /\ waiting' = Append(w, x)
          /\ IF CancelsTurn(x) THEN /\ Release /\ bus' = bus \o queue
                                    /\ dropped' = dropped \cup {turn.msg} \cup Injected
                               ELSE UNCHANGED <<bus, turn, queue, dropped>>
      BY <1>0, <1>7, <2>4, AdmittedBecomes DEF StartTask, Save, SavedAs, files
    <3>2. SessionsTyped'
      BY <1>2, <3>1, SavedTyped DEF TypeInv
    <3>3. QueueOK(waiting') /\ QueueOK(bus \o queue) /\ QueueOK(<<>>)
      BY <1>0, <2>2, <3>1, QueueOps
    <3>4. TurnTyped' /\ QueueOK(queue') /\ Len(queue') <= QueueCap /\ QueueOK(bus')
          /\ dropped' \subseteq Msg
      <4>1. CASE CancelsTurn(x)
        BY <1>0, <1>1, <3>1, <3>3, <4>1, ReleaseTyped DEF TypeInv, RestTyped
      <4>2. CASE ~CancelsTurn(x)
        BY <1>1, <3>1, <4>2 DEF TypeInv, PlacesTyped, TurnTyped, RestTyped, Active
      <4> QED BY <4>1, <4>2
    <3> HIDE DEF x, w
    <3> QED BY <1>1, <2>1, <2>2, <3>2, <3>3, <3>4 DEF TypeInv, PlacesTyped, QueueOK, IsSeq, RestTyped
  <2> QED BY <2>3, <2>4
<1> QED BY <1>3, <1>4, <1>5, <1>6, <1>7 DEF Run

LEMMA BeginTyped == IInv /\ TypeInv /\ BeginTurn => TypeInv'
<1> SUFFICES ASSUME IInv, TypeInv, BeginTurn PROVE TypeInv'
  OBVIOUS
<1> DEFINE x == Head(waiting)
           s == RestoreChk(mem)
           r == RestorePending(s)
           new == [r EXCEPT !.rows = Append(@, <<"user", x>>), !.pend = TRUE, !.jnl = @ \ {x}]
           t == IF x.kind = "user" THEN new ELSE s
<1>0. /\ IsSession(mem) /\ SessionOK(mem) /\ QueueOK(waiting) /\ QueueOK(queue)
      /\ turns \in Nat /\ MaxSteps \in Nat /\ consent \subseteq Msg
  BY RecoveryAssumption
     DEF IInv, Shape, TypeInv, SessionsTyped, PlacesTyped, RestTyped
<1>1. /\ waiting # <<>> /\ waiting' = Tail(waiting) /\ turns' = turns + 1 /\ consent' = consent \ {x}
      /\ UNCHANGED <<up, bus, fresh, queue, tail, sent, offers, journaled, dropped>> /\ ~Active
  BY DEF BeginTurn
<1>2. /\ IsSession(new) /\ new.rows = Append(r.rows, <<"user", x>>) /\ new.chk = NoChk
      /\ new.jnl = mem.jnl \ {x} /\ new.rec = mem.rec /\ SavedAs(t)
      /\ turn' = [msg |-> x, n |-> turns + 1, k |-> 0, at |-> "model", out |-> <<>>]
  BY <1>0, BegunSession
<1>3. SessionOK(s) /\ IsSession(s)
  BY <1>0, RestoreChkTyped
<1>4. SessionOK(r) /\ IsSession(r)
  BY <1>3, RestorePendingTyped
<1>5. QueueOK(waiting') /\ x \in Msg
  BY <1>0, <1>1, QueueOps
<1> HIDE DEF s, r, x
<1>6. new.pend = TRUE
  BY <1>4 DEF IsSession
<1>7. SessionOK(new)
  <2>1. ToSet(new.rows) = ToSet(r.rows) \cup {<<"user", x>>}
    BY <1>2, <1>4, AppendIsSeq DEF IsSession
  <2>2. x.kind = "user" => <<"user", x>> \in Row
    BY <1>5 DEF Row
  <2>3. <<"user", x>> \in Row
    BY <1>5 DEF Row
  <2>4. IsFiniteSet(mem.jnl \ {x})
    BY <1>0, FS_RemoveElement DEF SessionOK
  <2> HIDE DEF new
  <2> QED BY <1>0, <1>2, <1>4, <1>6, <2>1, <2>3, <2>4 DEF SessionOK, Chk
<1> HIDE DEF new
<1>8. SessionsTyped'
  BY <1>2, <1>3, <1>7, SavedTyped DEF TypeInv
<1> HIDE DEF t
<1>9. TurnTyped'
  <2>1. turn'.msg = x /\ turn'.n = turns + 1 /\ turn'.k = 0 /\ turn'.at = "model" /\ turn'.out = <<>>
    BY <1>2
  <2> QED BY <1>0, <1>1, <1>5, <2>1, EmptyIsSeq DEF TurnTyped, Active
<1> QED BY <1>1, <1>5, <1>8, <1>9 DEF TypeInv, PlacesTyped, QueueOK, IsSeq, RestTyped

\* A checkpoint of the turn that runs.
LEMMA CheckpointTyped ==
  ASSUME IInv, TypeInv, Active, UNCHANGED <<up, bus, fresh, waiting, sent, turns, offers, consent,
                                            journaled, dropped>>,
         tail' \in {tail, "open"}, NEW c \in Chk, SaveCheckpoint(c),
         QueueOK(queue'), Len(queue') <= QueueCap, turn'.msg = turn.msg, turn'.n = turn.n,
         turn'.k \in 0 .. MaxSteps + 1, turn'.at \in {"model", "tools", "answered"},
         ToSet(turn'.out) \subseteq Row
  PROVE  TypeInv'
<1> DEFINE s == [mem EXCEPT !.chk = c]
<1>1. mem' = s /\ side' = c /\ disk' = disk
  BY DEF SaveCheckpoint
<1>2. IsSession(mem) /\ SessionOK(mem)
  BY DEF IInv, Shape, TypeInv, SessionsTyped
<1>3. SessionOK(s)
  <2>1. s.rows = mem.rows /\ s.chk = c /\ s.pend = mem.pend /\ s.rec = mem.rec /\ s.jnl = mem.jnl
    BY <1>2 DEF IsSession
  <2> HIDE DEF s
  <2> QED BY <1>2, <2>1 DEF SessionOK
<1> HIDE DEF s
<1>4. SessionsTyped'
  BY <1>1, <1>3 DEF TypeInv, SessionsTyped, SessionOK
<1>5. PlacesTyped'
  BY DEF TypeInv, PlacesTyped, QueueOK, IsSeq
<1>6. TurnTyped'
  BY DEF TypeInv, TurnTyped, Active
<1>7. RestTyped'
  BY DEF TypeInv, RestTyped
<1> QED BY <1>4, <1>5, <1>6, <1>7 DEF TypeInv

LEMMA StepTyped == IInv /\ TypeInv /\ (CallTools \/ FinishTools \/ Answer) => TypeInv'
<1> SUFFICES ASSUME IInv, TypeInv, CallTools \/ FinishTools \/ Answer PROVE TypeInv'
  OBVIOUS
<1>0. /\ IsTurn(turn) /\ IsSeq(turn.out) /\ QueueOK(queue) /\ Active /\ ToSet(turn.out) \subseteq Row
      /\ turn.n \in Nat /\ turn.k \in Nat /\ MaxSteps \in Nat /\ turn.k <= MaxSteps + 1
      /\ QueueCap \in Nat /\ Len(queue) <= QueueCap
  BY RecoveryAssumption
     DEF IInv, Shape, TypeInv, PlacesTyped, TurnTyped, RestTyped, Active, CallTools, FinishTools, Answer
<1>1. UNCHANGED <<up, bus, fresh, waiting, sent, turns, offers, consent, journaled, dropped>>
      /\ tail' \in {tail, "open"}
  BY DEF CallTools, FinishTools, Answer, tasks, counts
<1>2. \A k \in Nat : /\ \A kind \in {"call", "result", "answer"} : <<kind, turn.n, k>> \in Row
                     /\ \A ph \in {"awaiting_tools", "tools_completed", "final_response"} :
                          <<ph, turn.n, k>> \in Chk
  BY <1>0 DEF Row, Chk
<1>3. IsSeq(Inject) /\ ToSet(Inject) \subseteq Row
  <2>1. \A x \in Msg : <<"user", x>> \in Row
    BY DEF Row
  <2> QED BY <1>0, <2>1, InjectElements DEF QueueOK
<1>4. QueueOK(<<>>) /\ Len(<<>>) <= QueueCap /\ IsSeq(<<>>) /\ ToSet(<<>>) = {}
  BY <1>0, QueueOps, EmptyIsSeq
<1>5. CASE CallTools
  <2> DEFINE k1 == turn.k + 1
             row == <<"call", turn.n, k1>>
             out == Append(turn.out, row)
             c == <<"awaiting_tools", turn.n, k1>>
  <2>1. /\ turn' = [turn EXCEPT !.at = "tools", !.k = k1, !.out = out] /\ SaveCheckpoint(c)
        /\ turn.k < MaxSteps /\ queue' = queue
    BY <1>5 DEF CallTools
  <2>2. k1 \in 0 .. MaxSteps + 1 /\ k1 \in Nat
    BY <1>0, <2>1
  <2>3. row \in Row /\ c \in Chk
    BY <1>2, <2>2
  <2> HIDE DEF row, c, k1
  <2>4. ToSet(out) \subseteq Row
    BY <1>0, <2>3, AppendIsSeq
  <2> HIDE DEF out
  <2>5. turn'.msg = turn.msg /\ turn'.n = turn.n /\ turn'.k = k1 /\ turn'.at = "tools" /\ turn'.out = out
    BY <1>0, <2>1 DEF IsTurn
  <2> QED BY <1>0, <1>1, <2>1, <2>2, <2>3, <2>4, <2>5, CheckpointTyped
<1>6. CASE FinishTools
  <2> DEFINE row == <<"result", turn.n, turn.k>>
             one == Append(turn.out, row)
             out == one \o Inject
             c == <<"tools_completed", turn.n, turn.k>>
  <2>1. /\ turn' = [turn EXCEPT !.at = "model", !.out = out] /\ SaveCheckpoint(c) /\ queue' = <<>>
    BY <1>6 DEF FinishTools
  <2>3. row \in Row /\ c \in Chk
    BY <1>0, <1>2
  <2> HIDE DEF row, c
  <2>4. IsSeq(one) /\ ToSet(one) \subseteq Row
    BY <1>0, <2>3, AppendIsSeq
  <2> HIDE DEF one
  <2>6. ToSet(out) \subseteq Row
    BY <1>3, <2>4, ConcatIsSeq
  <2> HIDE DEF out
  <2>7. turn'.msg = turn.msg /\ turn'.n = turn.n /\ turn'.k = turn.k /\ turn'.at = "model" /\ turn'.out = out
    BY <1>0, <2>1 DEF IsTurn
  <2>8. turn'.k \in 0 .. MaxSteps + 1
    BY <1>0, <2>7
  <2> QED BY <1>0, <1>1, <1>4, <2>1, <2>3, <2>6, <2>7, <2>8, CheckpointTyped
<1>7. CASE Answer
  <2> DEFINE k1 == turn.k + 1
             row == <<"answer", turn.n, k1>>
             c == <<"final_response", turn.n, k1>>
             one == Append(turn.out, row)
             more == IF turn.k < MaxSteps THEN Inject ELSE <<>>
             out == one \o more
             at == IF queue # <<>> /\ turn.k < MaxSteps THEN "model" ELSE "answered"
  <2>1. /\ turn' = [turn EXCEPT !.k = k1, !.at = at, !.out = out] /\ SaveCheckpoint(c)
        /\ turn.k < MaxSteps + 1 /\ queue' \in {queue, <<>>}
    BY <1>7 DEF Answer
  <2>2. k1 \in 0 .. MaxSteps + 1 /\ k1 \in Nat
    BY <1>0, <2>1
  <2>3. row \in Row /\ c \in Chk
    BY <1>2, <2>2
  <2>4. IsSeq(more) /\ ToSet(more) \subseteq Row /\ at \in {"model", "answered"}
    BY <1>3, <1>4
  <2> HIDE DEF row, c, k1, more, at
  <2>5. IsSeq(one) /\ ToSet(one) \subseteq Row
    BY <1>0, <2>3, AppendIsSeq
  <2> HIDE DEF one
  <2>6. ToSet(out) \subseteq Row
    BY <2>4, <2>5, ConcatIsSeq
  <2> HIDE DEF out
  <2>7. turn'.msg = turn.msg /\ turn'.n = turn.n /\ turn'.k = k1 /\ turn'.at = at /\ turn'.out = out
    BY <1>0, <2>1 DEF IsTurn
  <2>8. QueueOK(queue') /\ Len(queue') <= QueueCap
    BY <1>0, <1>4, <2>1
  <2> QED BY <1>0, <1>1, <2>1, <2>2, <2>3, <2>4, <2>6, <2>7, <2>8, CheckpointTyped
<1> QED BY <1>5, <1>6, <1>7

\* The ends of a turn, and the user's choice.
LEMMA EndTyped ==
  IInv /\ TypeInv /\ (Commit \/ EndTurn \/ TurnRaises \/ Stop \/ Continue \/ Dismiss) => TypeInv'
<1> SUFFICES ASSUME IInv, TypeInv, Commit \/ EndTurn \/ TurnRaises \/ Stop \/ Continue \/ Dismiss
             PROVE  TypeInv'
  OBVIOUS
<1>0. /\ IsSession(mem) /\ SessionOK(mem) /\ IsTurn(turn) /\ IsSeq(turn.out)
      /\ QueueOK(bus) /\ QueueOK(fresh) /\ QueueOK(waiting) /\ QueueOK(queue)
      /\ turn.msg \in Msg /\ Injected \subseteq Msg /\ ToSet(turn.out) \subseteq Row
      /\ consent \subseteq Msg /\ journaled \subseteq Msg /\ dropped \subseteq Msg /\ turns \in Nat
  BY InjectedTyped
     DEF IInv, Shape, TypeInv, SessionsTyped, PlacesTyped, TurnTyped, RestTyped
<1>1. UNCHANGED <<up, sent, turns, offers, journaled>>
  BY DEF Commit, EndTurn, TurnRaises, Stop, Continue, Dismiss, counts, history
<1>2. QueueOK(bus \o queue) /\ QueueOK(<<>>)
  BY <1>0, QueueOps
<1>3. CASE Commit
  <2>1. /\ SavedAs(CommitTurn(mem, turn.out)) /\ turn' = [turn EXCEPT !.at = "committed"]
        /\ UNCHANGED <<bus, fresh, waiting, queue, tail, consent, dropped>> /\ Active
    BY <1>3 DEF Commit, Save, SavedAs, tasks, history, Active
  <2>2. SessionsTyped'
    BY <1>0, <2>1, CommitTurnTyped, SavedTyped DEF TypeInv
  <2>3. turn'.msg = turn.msg /\ turn'.n = turn.n /\ turn'.k = turn.k /\ turn'.at = "committed"
        /\ turn'.out = turn.out
    BY <1>0, <2>1 DEF IsTurn
  <2>4. TurnTyped'
    BY <1>1, <2>1, <2>3 DEF TypeInv, TurnTyped, Active
  <2> QED BY <1>1, <2>1, <2>2, <2>4 DEF TypeInv, PlacesTyped, QueueOK, IsSeq, RestTyped
<1>4. CASE EndTurn \/ TurnRaises
  <2>1. /\ SavedAs(Resolve(mem)) /\ Release /\ bus' = bus \o queue /\ tail' = "ending"
        /\ UNCHANGED <<fresh, waiting, consent>>
        /\ dropped' \in {dropped, dropped \cup {turn.msg} \cup Injected}
    BY <1>4 DEF EndTurn, TurnRaises, Save, SavedAs, files, history
  <2>2. SessionsTyped'
    BY <1>0, <2>1, ResolveTyped, SavedTyped DEF TypeInv
  <2>3. TurnTyped' /\ queue' = <<>> /\ Len(queue') <= QueueCap
    BY <1>0, <1>1, <2>1, ReleaseTyped
  <2> QED BY <1>0, <1>1, <1>2, <2>1, <2>2, <2>3 DEF TypeInv, PlacesTyped, QueueOK, IsSeq, RestTyped
<1>5. CASE Stop
  <2>1. /\ SavedAs(RestoreChk(mem)) \/ SavedAs(mem)
        /\ Release /\ bus' = bus \o queue /\ tail' = "closed" /\ fresh' = <<>> /\ waiting' = <<>>
        /\ dropped' = dropped \cup ToSet(fresh) \cup ToSet(waiting) \cup Injected
                        \cup (IF Active THEN {turn.msg} ELSE {})
        /\ consent' = consent
    BY <1>5 DEF Stop, Save, SavedAs, files
  <2>2. SessionsTyped'
    BY <1>0, <2>1, RestoreChkTyped, SavedTyped DEF TypeInv
  <2>3. TurnTyped' /\ queue' = <<>> /\ Len(queue') <= QueueCap
    BY <1>0, <1>1, <2>1, ReleaseTyped
  <2>4. dropped' \subseteq Msg
    BY <1>0, <2>1 DEF QueueOK
  <2> QED BY <1>0, <1>1, <1>2, <2>1, <2>2, <2>3, <2>4
          DEF TypeInv, PlacesTyped, QueueOK, IsSeq, RestTyped
<1>6. CASE Continue
  <2> DEFINE s == [mem EXCEPT !.rec.status = "resuming", !.rec.count = Len(mem.rows)]
             x == Cont(mem.rec.id)
  <2>1. /\ SavedAs(s) /\ bus' = Append(bus, x) /\ consent' = consent \cup {x}
        /\ UNCHANGED <<fresh, waiting, turn, queue, tail, dropped>>
    BY <1>6 DEF Continue, Save, SavedAs, counts
  <2>2. SessionOK(s)
    BY <1>0, ContinueTyped
  <2>3. x \in Msg
    BY <1>0 DEF SessionOK, Offer, Cont, Msg
  <2> HIDE DEF s, x
  <2>4. SessionsTyped'
    BY <2>1, <2>2, SavedTyped DEF TypeInv
  <2>5. QueueOK(bus')
    BY <1>0, <2>1, <2>3, QueueOps
  <2> QED BY <1>0, <1>1, <2>1, <2>3, <2>4, <2>5
          DEF TypeInv, PlacesTyped, QueueOK, IsSeq, TurnTyped, RestTyped, Active
<1>7. CASE Dismiss
  <2> DEFINE r == RestoreChk(mem)
             q == RestorePending(r)
             s == SetStatus(q, "recovered")
  <2>1. SavedAs(s) /\ UNCHANGED <<bus, fresh, waiting, turn, queue, tail, consent, dropped>>
    BY <1>7 DEF Dismiss, Save, SavedAs, tasks, history
  <2>2. SessionOK(r) /\ IsSession(r)
    BY <1>0, RestoreChkTyped
  <2> HIDE DEF r
  <2>3. SessionOK(q) /\ IsSession(q)
    BY <2>2, RestorePendingTyped
  <2> HIDE DEF q
  <2>4. SessionOK(s)
    BY <2>3, SetStatusTyped
  <2> HIDE DEF s
  <2>5. SessionsTyped'
    BY <2>1, <2>4, SavedTyped DEF TypeInv
  <2> QED BY <1>1, <2>1, <2>5 DEF TypeInv, PlacesTyped, QueueOK, IsSeq, TurnTyped, RestTyped, Active
<1> QED BY <1>3, <1>4, <1>5, <1>6, <1>7

\* The gateway goes down and comes back.
LEMMA UpDownTyped == IInv /\ TypeInv /\ (Crash \/ Shutdown \/ Start) => TypeInv'
<1> SUFFICES ASSUME IInv, TypeInv, Crash \/ Shutdown \/ Start PROVE TypeInv'
  OBVIOUS
<1>0. /\ IsSession(disk) /\ SessionOK(disk) /\ SessionOK(mem) /\ side \in Chk /\ offers \in Nat
      /\ turns \in Nat
  BY DEF IInv, Shape, TypeInv, SessionsTyped, RestTyped
<1>1. CASE Crash \/ Shutdown
  <2>1. /\ up' = FALSE /\ mem' = NewSession /\ bus' = <<>> /\ fresh' = <<>> /\ waiting' = <<>>
        /\ Release /\ consent' = {} /\ UNCHANGED <<sent, turns, offers, journaled, dropped>>
        /\ disk' \in {disk, mem} /\ side' \in {side, NoChk} /\ tail' \in {tail, "open", "closed"}
    BY <1>1 DEF Crash, Shutdown, Down, files, counts
  <2>2. SessionOK(NewSession)
    <3>1. NewSession.rows = <<>> /\ NewSession.pend = FALSE /\ NewSession.chk = NoChk
          /\ NewSession.rec = NoOffer /\ NewSession.jnl = {}
      BY DEF NewSession
    <3>2. NoOffer \in Offer
      BY DEF NoOffer, Offer
    <3> QED BY <3>1, <3>2, EmptyIsSeq, FS_EmptySet DEF SessionOK, Chk
  <2>3. SessionsTyped'
    BY <1>0, <2>1, <2>2 DEF SessionsTyped, SessionOK, Chk
  <2>4. TurnTyped' /\ queue' = <<>> /\ Len(queue') <= QueueCap
    BY <1>0, <2>1, ReleaseTyped
  <2>5. QueueOK(<<>>)
    BY QueueOps
  <2> QED BY <2>1, <2>3, <2>4, <2>5 DEF TypeInv, PlacesTyped, QueueOK, IsSeq, RestTyped
<1>2. CASE Start
  <2>1. /\ up' = TRUE
        /\ UNCHANGED <<fresh, waiting, turn, queue, tail, sent, turns, consent, journaled, dropped>>
    BY <1>2 DEF Start, history
  <2>2. Loaded.rows = disk.rows /\ Loaded.pend = disk.pend /\ Loaded.rec = disk.rec
        /\ Loaded.jnl = disk.jnl /\ Loaded.chk \in {disk.chk, side} /\ IsSession(Loaded)
    BY <1>0 DEF Loaded, IsSession
  <2>3. SessionOK(Loaded)
    BY <1>0, <2>2 DEF SessionOK
  <2>4. SessionOK(Recovered(Loaded))
    BY <1>0, <2>2, <2>3, RecoveredTyped
  <2>5. \/ mem' = Recovered(Loaded) /\ disk' = Recovered(Loaded) /\ side' = NoChk
        \/ (mem' = Recovered(Loaded) \/ mem' = Loaded) /\ UNCHANGED files
    BY <1>2 DEF Start, Save
  <2>6. SessionOK(mem') /\ SessionOK(disk') /\ side' \in Chk
    BY <1>0, <2>3, <2>4, <2>5 DEF files, Chk
  <2>7. SessionsTyped'
    BY <2>6 DEF SessionsTyped, SessionOK
  <2>8. offers' \in Nat
    BY <1>0, <1>2 DEF Start
  <2>9. QueueOK(bus')
    <3>1. CASE bus' \in Requeued(Loaded.jnl)
      <4> DEFINE n == Cardinality(Loaded.jnl)
                 j == Loaded.jnl
      <4>1. n \in Nat
        BY <2>3, FS_CardinalityType DEF SessionOK
      <4>2. bus' \in [1 .. n -> j]
        BY <3>1 DEF Requeued
      <4>3. j \subseteq Msg
        BY <2>3 DEF SessionOK
      <4> HIDE DEF n, j
      <4>4. bus' \in Seq(j)
        BY <4>1, <4>2
      <4>5. IsSeq(bus')
        BY <4>4, OwnElements
      <4>6. ToSet(bus') \subseteq j
        BY <4>2 DEF ToSet
      <4> QED BY <4>3, <4>5, <4>6 DEF QueueOK
    <3>2. CASE bus' = bus
      BY <3>2 DEF TypeInv, PlacesTyped
    <3> QED BY <1>2, <3>1, <3>2 DEF Start
  <2> QED BY <2>1, <2>7, <2>8, <2>9 DEF TypeInv, PlacesTyped, QueueOK, IsSeq, TurnTyped, RestTyped, Active
<1> QED BY <1>1, <1>2

LEMMA RestOfTyped == TypeInv /\ (WriteTurnEnd \/ WriteHandle \/ UNCHANGED vars) => TypeInv'
<1> SUFFICES ASSUME TypeInv, WriteTurnEnd \/ WriteHandle \/ UNCHANGED vars PROVE TypeInv'
  OBVIOUS
<1>1. /\ UNCHANGED <<up, mem, disk, bus, fresh, waiting, turn, queue, sent, turns, offers, consent,
                     journaled, dropped>>
      /\ side' \in {side, NoChk} /\ tail' \in {tail, "closed"}
  BY DEF WriteTurnEnd, WriteHandle, vars, files, tasks, counts, history
<1>2. NoChk \in Chk
  BY DEF Chk
<1>3. SessionsTyped'
  BY <1>1, <1>2 DEF TypeInv, SessionsTyped, SessionOK
<1>4. PlacesTyped'
  BY <1>1 DEF TypeInv, PlacesTyped, QueueOK, IsSeq
<1>5. TurnTyped' /\ RestTyped'
  BY <1>1 DEF TypeInv, TurnTyped, RestTyped, Active
<1> QED BY <1>3, <1>4, <1>5 DEF TypeInv

LEMMA InitTyped == Init => TypeInv
<1> SUFFICES ASSUME Init PROVE TypeInv
  OBVIOUS
<1>1. /\ NewSession.rows = <<>> /\ NewSession.pend = FALSE /\ NewSession.chk = NoChk
      /\ NewSession.rec = NoOffer /\ NewSession.jnl = {} /\ NoOffer \in Offer
  BY DEF NewSession, NoOffer, Offer
<1>2. SessionOK(NewSession)
  BY <1>1, EmptyIsSeq, FS_EmptySet DEF SessionOK, Chk
<1>3. QueueOK(<<>>) /\ Len(<<>>) = 0
  BY QueueOps
<1>4. /\ turn.msg \in Msg /\ turn.n = 0 /\ turn.k = 0 /\ turn.at = "idle" /\ turn.out = <<>>
  BY DEF Init, Idle, User, Msg
<1>5. QueueCap \in Nat /\ MaxSteps \in Nat /\ MaxUsers \in Nat
  BY RecoveryAssumption
<1>6. TurnTyped
  BY <1>4, <1>5, EmptyIsSeq DEF Init, TurnTyped, Active
<1> QED BY <1>2, <1>3, <1>5, <1>6 DEF Init, TypeInv, SessionsTyped, PlacesTyped, RestTyped, Chk

LEMMA NextTyped == IInv /\ TypeInv /\ [Next]_vars => TypeInv'
<1> SUFFICES ASSUME IInv, TypeInv, [Next]_vars PROVE TypeInv'
  OBVIOUS
<1> QED BY SendTyped, RunTyped, BeginTyped, StepTyped, EndTyped, UpDownTyped, RestOfTyped
        DEF Next, TurnStep

\* Every variable stays in its type, and no turn leaves a pending queue behind
\* or lets it grow past its size (the puts of loop.py and the finally block of
\* _dispatch).
THEOREM RecoveryTypes == Spec => []TypeOK
<1>1. TypeInv => TypeOK
  BY DEF TypeInv, SessionsTyped, SessionOK, PlacesTyped, QueueOK, TurnTyped, RestTyped, TypeOK
<1> QED BY <1>1, InitTyped, NextTyped, IInvAlways, PTL DEF Spec
==============================================================================

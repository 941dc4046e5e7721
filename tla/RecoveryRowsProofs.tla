------------------------- MODULE RecoveryRowsProofs --------------------------
(***************************************************************************)
(* For any number of messages, tool rounds, crashes, stops and failures,   *)
(* when a page dismisses only a recovery that waits for the user: no step  *)
(* of a turn and no message of the user is twice in the history, and every *)
(* tool call in it has its result.                                         *)
(***************************************************************************)
EXTENDS RecoveryHistoryProofs

----------------------------------------------------------------------------
(* Rows that are once in a history and calls with their results            *)

Steps == {"call", "result", "broken", "answer"}

\* No step of turn n is among the rows.
Clean(rows, n) == \A r \in ToSet(rows) : r[1] \in Steps => r[2] # n

Once(rows) == \A i, j \in DOMAIN rows : rows[i] = rows[j] /\ rows[i] # Closed => i = j

Paired(rows) ==
  \A i \in DOMAIN rows :
    LET r == rows[i] IN
    /\ r[1] = "call" =>
         /\ i < Len(rows)
         /\ rows[i + 1] \in {<<"result", r[2], r[3]>>, <<"broken", r[2], r[3]>>}
    /\ r[1] \in {"result", "broken"} =>
         i > 1 /\ rows[i - 1] = <<"call", r[2], r[3]>>

\* The rows are as they should be, and none is of a turn after the n-th.
RowsOK(rows, n) ==
  /\ Once(rows) /\ Paired(rows)
  /\ \A r \in ToSet(rows) : r[1] \in Steps => r[2] \in 1 .. n

\* The messages that have their row.
Rowed(rows) == {r[2] : r \in {x \in ToSet(rows) : x[1] = "user"}}

\* Joined sequences, element by element.
LEMMA ConcatAt ==
  ASSUME NEW p, NEW q, IsSeq(p), IsSeq(q)
  PROVE  /\ Len(p) \in Nat /\ DOMAIN p = 1 .. Len(p) /\ Len(q) \in Nat /\ DOMAIN q = 1 .. Len(q)
         /\ DOMAIN (p \o q) = 1 .. Len(p) + Len(q) /\ Len(p \o q) = Len(p) + Len(q)
         /\ \A i \in 1 .. Len(p) : (p \o q)[i] = p[i]
         /\ \A i \in 1 .. Len(q) : (p \o q)[Len(p) + i] = q[i]
         /\ \A i \in 1 .. Len(p) + Len(q) :
              i \in 1 .. Len(p) \/ (i - Len(p) \in 1 .. Len(q) /\ Len(p) + (i - Len(p)) = i)
<1>1. p \in Seq(ToSet(p) \cup ToSet(q)) /\ q \in Seq(ToSet(p) \cup ToSet(q))
  BY DEF IsSeq
<1> QED BY <1>1

LEMMA OnceConcat ==
  ASSUME NEW p, NEW q, IsSeq(p), IsSeq(q), Once(p), Once(q),
         \A r \in ToSet(p) \cap ToSet(q) : r = Closed
  PROVE  Once(p \o q)
<1> DEFINE m == Len(p)
           n == Len(q)
           c == p \o q
<1>1. /\ m \in Nat /\ DOMAIN p = 1 .. m /\ n \in Nat /\ DOMAIN q = 1 .. n
      /\ DOMAIN c = 1 .. m + n
      /\ \A i \in 1 .. m : c[i] = p[i]
      /\ \A i \in 1 .. n : c[m + i] = q[i]
      /\ \A i \in 1 .. m + n : i \in 1 .. m \/ (i - m \in 1 .. n /\ m + (i - m) = i)
  BY ConcatAt
<1> HIDE DEF m, n, c
<1>2. ASSUME NEW i \in 1 .. m, NEW j \in 1 .. n, p[i] = q[j] PROVE p[i] = Closed
  <2>1. p[i] \in ToSet(p) /\ q[j] \in ToSet(q)
    BY <1>1 DEF ToSet
  <2> QED BY <1>2, <2>1
<1>3. ASSUME NEW i \in 1 .. m + n, NEW j \in 1 .. m + n, c[i] = c[j], c[i] # Closed PROVE i = j
  <2>1. CASE i \in 1 .. m /\ j \in 1 .. m
    BY <1>1, <1>3, <2>1 DEF Once
  <2>2. CASE i - m \in 1 .. n /\ j - m \in 1 .. n
    <3>1. c[m + (i - m)] = q[i - m] /\ c[m + (j - m)] = q[j - m]
      BY <1>1, <2>2
    <3>2. m + (i - m) = i /\ m + (j - m) = j
      BY <1>1
    <3>3. i - m = j - m
      BY <1>1, <1>3, <2>2, <3>1, <3>2 DEF Once
    <3> QED BY <3>2, <3>3
  <2>3. CASE i \in 1 .. m /\ j - m \in 1 .. n
    <3>1. c[m + (j - m)] = q[j - m] /\ m + (j - m) = j /\ c[i] = p[i]
      BY <1>1, <2>3
    <3> QED BY <1>2, <1>3, <2>3, <3>1
  <2>4. CASE i - m \in 1 .. n /\ j \in 1 .. m
    <3>1. c[m + (i - m)] = q[i - m] /\ m + (i - m) = i /\ c[j] = p[j]
      BY <1>1, <2>4
    <3> QED BY <1>2, <1>3, <2>4, <3>1
  <2> QED BY <1>1, <2>1, <2>2, <2>3, <2>4
<1>4. Once(c)
  BY <1>1, <1>3 DEF Once
<1> QED BY <1>4 DEF c

LEMMA PairedConcat ==
  ASSUME NEW p, NEW q, IsSeq(p), IsSeq(q), Paired(p), Paired(q)
  PROVE  Paired(p \o q)
<1> DEFINE m == Len(p)
           n == Len(q)
           c == p \o q
<1>1. /\ m \in Nat /\ DOMAIN p = 1 .. m /\ n \in Nat /\ DOMAIN q = 1 .. n
      /\ DOMAIN c = 1 .. m + n /\ Len(c) = m + n
      /\ \A i \in 1 .. m : c[i] = p[i]
      /\ \A i \in 1 .. n : c[m + i] = q[i]
      /\ \A i \in 1 .. m + n : i \in 1 .. m \/ (i - m \in 1 .. n /\ m + (i - m) = i)
  BY ConcatAt
<1>2. m = Len(p) /\ n = Len(q)
  OBVIOUS
<1> HIDE DEF m, n, c
<1>3. ASSUME NEW i \in 1 .. m
      PROVE  LET r == c[i] IN
             /\ r[1] = "call" =>
                  /\ i < Len(c)
                  /\ c[i + 1] \in {<<"result", r[2], r[3]>>, <<"broken", r[2], r[3]>>}
             /\ r[1] \in {"result", "broken"} => i > 1 /\ c[i - 1] = <<"call", r[2], r[3]>>
  <2> DEFINE r == p[i]
  <2>1. c[i] = r
    BY <1>1
  <2>2. ASSUME r[1] = "call"
        PROVE  i < Len(c) /\ c[i + 1] \in {<<"result", r[2], r[3]>>, <<"broken", r[2], r[3]>>}
    <3>1. i < m /\ p[i + 1] \in {<<"result", r[2], r[3]>>, <<"broken", r[2], r[3]>>}
      BY <1>1, <1>2, <2>2 DEF Paired
    <3>2. i + 1 \in 1 .. m
      BY <1>1, <3>1
    <3> QED BY <1>1, <3>1, <3>2
  <2>3. ASSUME r[1] \in {"result", "broken"}
        PROVE  i > 1 /\ c[i - 1] = <<"call", r[2], r[3]>>
    <3>1. i > 1 /\ p[i - 1] = <<"call", r[2], r[3]>>
      BY <1>1, <1>2, <2>3 DEF Paired
    <3>2. i - 1 \in 1 .. m
      BY <1>1, <3>1
    <3> QED BY <1>1, <3>1, <3>2
  <2> HIDE DEF r
  <2> QED BY <2>1, <2>2, <2>3
<1>4. ASSUME NEW i \in 1 .. n
      PROVE  LET r == c[m + i] IN
             /\ r[1] = "call" =>
                  /\ m + i < Len(c)
                  /\ c[(m + i) + 1] \in {<<"result", r[2], r[3]>>, <<"broken", r[2], r[3]>>}
             /\ r[1] \in {"result", "broken"} => m + i > 1 /\ c[(m + i) - 1] = <<"call", r[2], r[3]>>
  <2> DEFINE r == q[i]
  <2>1. c[m + i] = r
    BY <1>1
  <2>2. ASSUME r[1] = "call"
        PROVE  m + i < Len(c) /\ c[(m + i) + 1] \in {<<"result", r[2], r[3]>>, <<"broken", r[2], r[3]>>}
    <3>1. i < n /\ q[i + 1] \in {<<"result", r[2], r[3]>>, <<"broken", r[2], r[3]>>}
      BY <1>1, <1>2, <2>2 DEF Paired
    <3>2. i + 1 \in 1 .. n /\ m + (i + 1) = (m + i) + 1
      BY <1>1, <3>1
    <3>3. c[m + (i + 1)] = q[i + 1]
      BY <1>1, <3>2
    <3> QED BY <1>1, <3>1, <3>2, <3>3
  <2>3. ASSUME r[1] \in {"result", "broken"}
        PROVE  m + i > 1 /\ c[(m + i) - 1] = <<"call", r[2], r[3]>>
    <3>1. i > 1 /\ q[i - 1] = <<"call", r[2], r[3]>>
      BY <1>1, <1>2, <2>3 DEF Paired
    <3>2. i - 1 \in 1 .. n /\ m + (i - 1) = (m + i) - 1
      BY <1>1, <3>1
    <3>3. c[m + (i - 1)] = q[i - 1]
      BY <1>1, <3>2
    <3> QED BY <1>1, <3>1, <3>2, <3>3
  <2> HIDE DEF r
  <2> QED BY <2>1, <2>2, <2>3
<1>5. ASSUME NEW i \in 1 .. m + n
      PROVE  LET r == c[i] IN
             /\ r[1] = "call" =>
                  /\ i < Len(c)
                  /\ c[i + 1] \in {<<"result", r[2], r[3]>>, <<"broken", r[2], r[3]>>}
             /\ r[1] \in {"result", "broken"} => i > 1 /\ c[i - 1] = <<"call", r[2], r[3]>>
  <2>1. CASE i \in 1 .. m
    BY <1>3, <2>1
  <2>2. CASE i - m \in 1 .. n
    <3> DEFINE j == i - m
    <3>1. j \in 1 .. n /\ m + j = i
      BY <1>1, <2>2
    <3> HIDE DEF j
    <3> QED BY <1>4, <3>1
  <2> QED BY <1>1, <2>1, <2>2
<1>6. Paired(c)
  BY <1>1, <1>5 DEF Paired
<1> QED BY <1>6 DEF c

\* An element put behind a sequence is a sequence of one put behind it.
LEMMA AppendOne ==
  ASSUME NEW q, IsSeq(q), NEW e, NEW o, o = <<e>>
  PROVE  IsSeq(o) /\ Append(q, e) = q \o o
<1>1. q \in Seq(ToSet(q) \cup {e})
  BY DEF IsSeq
<1>2. Append(q, e) = q \o o
  BY <1>1
<1>3. <<e>> \in Seq({e}) /\ Len(<<e>>) = 1 /\ <<e>>[1] = e
  OBVIOUS
<1>4. IsSeq(o)
  BY <1>3, OwnElements
<1> QED BY <1>2, <1>4

LEMMA AppendTwo ==
  ASSUME NEW q, IsSeq(q), NEW a, NEW b, NEW o, o = <<a, b>>
  PROVE  IsSeq(o) /\ Append(Append(q, a), b) = q \o o
<1>1. <<a, b>> \in Seq({a, b})
  OBVIOUS
<1>2. IsSeq(o)
  BY <1>1, OwnElements
<1> DEFINE T == ToSet(q) \cup {a, b}
<1>3. q \in Seq(T) /\ <<a, b>> \in Seq(T) /\ a \in T /\ b \in T
  BY DEF IsSeq
<1> HIDE DEF T
<1> DEFINE l == Append(Append(q, a), b)
           r == q \o o
           n == Len(q)
<1>4. n \in Nat /\ l \in Seq(T) /\ r \in Seq(T) /\ Len(l) = n + 2 /\ Len(r) = n + 2
  BY <1>3
<1>5. \A i \in 1 .. n : l[i] = q[i] /\ r[i] = q[i]
  BY <1>3
<1>6. l[n + 1] = a /\ l[n + 2] = b /\ r[n + 1] = a /\ r[n + 2] = b
  BY <1>3
<1>7. \A i \in 1 .. n + 2 : l[i] = r[i]
  BY <1>4, <1>5, <1>6
<1> HIDE DEF l, r
<1>8. l = r
  BY <1>4, <1>7
<1> QED BY <1>2, <1>8 DEF l, r

\* A single row that needs no other, and a call with its result.
LEMMA OneRow == ASSUME NEW r PROVE Once(<<r>>) /\ (r[1] \notin {"call", "result", "broken"} => Paired(<<r>>))
<1>1. DOMAIN <<r>> = 1 .. 1 /\ <<r>>[1] = r
  OBVIOUS
<1> QED BY <1>1 DEF Once, Paired

LEMMA CallAndResult ==
  ASSUME NEW n, NEW k, NEW kind \in {"result", "broken"}
  PROVE  Once(<<<<"call", n, k>>, <<kind, n, k>>>>) /\ Paired(<<<<"call", n, k>>, <<kind, n, k>>>>)
<1> DEFINE a == <<"call", n, k>>
           b == <<kind, n, k>>
           s == <<a, b>>
<1>1. a[1] = "call" /\ a[2] = n /\ a[3] = k /\ b[1] = kind /\ b[2] = n /\ b[3] = k
  OBVIOUS
<1>2. a # b /\ a = <<"call", b[2], b[3]>> /\ b \in {<<"result", a[2], a[3]>>, <<"broken", a[2], a[3]>>}
  BY <1>1
<1> HIDE DEF a, b
<1>3. DOMAIN s = 1 .. 2 /\ Len(s) = 2 /\ s[1] = a /\ s[2] = b
  OBVIOUS
<1> HIDE DEF s
<1>4. Once(s)
  BY <1>2, <1>3 DEF Once
<1>5. Paired(s)
  <2> SUFFICES ASSUME NEW i \in 1 .. 2
               PROVE  /\ s[i][1] = "call" =>
                          /\ i < Len(s)
                          /\ s[i + 1] \in {<<"result", s[i][2], s[i][3]>>, <<"broken", s[i][2], s[i][3]>>}
                      /\ s[i][1] \in {"result", "broken"} =>
                           i > 1 /\ s[i - 1] = <<"call", s[i][2], s[i][3]>>
    BY <1>3 DEF Paired
  <2>1. CASE i = 1
    <3>1. s[i] = a /\ s[i + 1] = b
      BY <1>3, <2>1
    <3> QED BY <1>1, <1>2, <1>3, <2>1, <3>1
  <2>2. CASE i = 2
    <3>1. s[i] = b /\ s[i - 1] = a
      BY <1>3, <2>2
    <3> QED BY <1>1, <1>2, <1>3, <2>2, <3>1
  <2> QED BY <2>1, <2>2
<1> QED BY <1>4, <1>5 DEF s, a, b

LEMMA RowsConcat ==
  ASSUME NEW n, NEW p, NEW q, IsSeq(p), IsSeq(q), RowsOK(p, n), RowsOK(q, n),
         \A r \in ToSet(p) \cap ToSet(q) : r = Closed
  PROVE  RowsOK(p \o q, n) /\ Rowed(p \o q) = Rowed(p) \cup Rowed(q)
<1>1. ToSet(p \o q) = ToSet(p) \cup ToSet(q)
  BY ConcatIsSeq
<1>2. Once(p \o q) /\ Paired(p \o q)
  BY OnceConcat, PairedConcat DEF RowsOK
<1> QED BY <1>1, <1>2 DEF RowsOK, Rowed

\* A row that is no step.
LEMMA RowsAppend ==
  ASSUME NEW n, NEW q, IsSeq(q), RowsOK(q, n), NEW r, r[1] \in {"user", "closed"},
         r = Closed \/ r \notin ToSet(q)
  PROVE  /\ RowsOK(Append(q, r), n)
         /\ ToSet(Append(q, r)) = ToSet(q) \cup {r}
         /\ Rowed(Append(q, r)) = Rowed(q) \cup (IF r[1] = "user" THEN {r[2]} ELSE {})
         /\ \A m : Clean(q, m) => Clean(Append(q, r), m)
<1>0. PICK o : o = <<r>>
  OBVIOUS
<1>a. IsSeq(o) /\ Append(q, r) = q \o o
  BY <1>0, AppendOne
<1>b. ToSet(<<r>>) = {r} /\ Once(<<r>>) /\ (r[1] \notin {"call", "result", "broken"} => Paired(<<r>>))
  BY TwoElements, OneRow
<1>1. ToSet(o) = {r} /\ Once(o) /\ (r[1] \notin {"call", "result", "broken"} => Paired(o))
  BY <1>0, <1>b
<1>2. RowsOK(o, n)
  BY <1>1 DEF RowsOK, Steps
<1>3. \A x \in ToSet(q) \cap ToSet(o) : x = Closed
  BY <1>1
<1>c. RowsOK(q \o o, n) /\ Rowed(q \o o) = Rowed(q) \cup Rowed(o)
  <2>1. IsSeq(o) /\ IsSeq(q)
    BY <1>a
  <2> QED BY <1>2, <1>3, <2>1, RowsConcat
<1>4. RowsOK(Append(q, r), n) /\ Rowed(Append(q, r)) = Rowed(q) \cup Rowed(o)
  BY <1>a, <1>c
<1>5. Rowed(o) = IF r[1] = "user" THEN {r[2]} ELSE {}
  BY <1>1 DEF Rowed
<1>6. ToSet(Append(q, r)) = ToSet(q) \cup {r}
  BY AppendIsSeq
<1>7. \A m : Clean(q, m) => Clean(Append(q, r), m)
  BY <1>6 DEF Clean, Steps
<1> QED BY <1>4, <1>5, <1>6, <1>7

LEMMA ChkRowsOK ==
  ASSUME NEW n, NEW c \in Chk, c # NoChk, c[2] \in 1 .. n
  PROVE  /\ RowsOK(ChkRows(c), n)
         /\ \A r \in ToSet(ChkRows(c)) : r[1] \in Steps /\ r[2] = c[2]
         /\ Rowed(ChkRows(c)) = {}
<1>1. c[1] \in {"awaiting_tools", "tools_completed", "final_response"}
  BY DEF Chk
<1>2. CASE c[1] = "final_response"
  <2> DEFINE r == <<"answer", c[2], c[3]>>
  <2>1. ChkRows(c) = <<r>>
    BY <1>2 DEF ChkRows
  <2>2. r[1] = "answer" /\ r[2] = c[2]
    OBVIOUS
  <2> HIDE DEF r
  <2>3. ToSet(<<r>>) = {r}
    BY TwoElements
  <2>4. Once(<<r>>) /\ Paired(<<r>>)
    BY <2>2, OneRow
  <2> QED BY <2>1, <2>2, <2>3, <2>4 DEF RowsOK, Steps, Rowed
<1>3. CASE c[1] # "final_response"
  <2>1. PICK kind \in {"result", "broken"} : ChkRows(c) = <<<<"call", c[2], c[3]>>, <<kind, c[2], c[3]>>>>
    BY <1>1, <1>3 DEF ChkRows
  <2> DEFINE a == <<"call", c[2], c[3]>>
             b == <<kind, c[2], c[3]>>
  <2>2. a[1] = "call" /\ a[2] = c[2] /\ b[1] = kind /\ b[2] = c[2]
    OBVIOUS
  <2>3. Once(<<a, b>>) /\ Paired(<<a, b>>)
    BY CallAndResult
  <2> HIDE DEF a, b
  <2>4. ToSet(<<a, b>>) = {a, b}
    BY TwoElements
  <2>5. ChkRows(c) = <<a, b>>
    BY <2>1 DEF a, b
  <2> QED BY <2>2, <2>3, <2>4, <2>5 DEF RowsOK, Steps, Rowed
<1> QED BY <1>2, <1>3

----------------------------------------------------------------------------
(* The rows of a session                                                   *)

\* The history is as it should be and stays so when the checkpoint is
\* materialized.
SessRows(s, n) ==
  /\ RowsOK(s.rows, n)
  /\ s.chk # NoChk => s.chk[2] \in 1 .. n /\ Clean(s.rows, s.chk[2])

\* With a checkpoint of a turn the history does not know there is no overlap.
LEMMA CleanRestore ==
  ASSUME NEW s, IsSession(s), s.chk \in Chk, s.chk # NoChk, Clean(s.rows, s.chk[2]),
         NEW n, s.chk[2] \in 1 .. n
  PROVE  RestoreChk(s).rows = s.rows \o ChkRows(s.chk)
<1> DEFINE more == ChkRows(s.chk)
           k == Overlap(s.rows, more)
<1>1. IsSeq(more) /\ Len(more) \in 0 .. 2 /\ IsSeq(s.rows)
  BY ChkRowsIsSeq DEF IsSession
<1>2. \A r \in ToSet(more) : r[1] \in Steps /\ r[2] = s.chk[2]
  BY ChkRowsOK
<1>3. /\ k \in 0 .. Len(more)
      /\ k # 0 => k <= Len(s.rows) /\ IsSuffix(SubSeq(more, 1, k), s.rows)
  BY <1>1, OverlapBound
<1>4. RestoreChk(s) = [s EXCEPT !.rows = @ \o SubSeq(more, k + 1, Len(more)), !.pend = FALSE, !.chk = NoChk]
  BY DEF RestoreChk
<1> HIDE DEF more, k
<1>5. k = 0
  <2> SUFFICES ASSUME k # 0 PROVE FALSE
    BY <1>3
  <2>1. k \in 1 .. Len(more) /\ 1 \in 1 .. k
    BY <1>1, <1>3
  <2>2. Len(s.rows) - k + 1 \in DOMAIN s.rows /\ more[1] = s.rows[Len(s.rows) - k + 1]
    BY <1>1, <1>3, <2>1, SuffixElements
  <2>3. more[1] \in ToSet(more) /\ more[1] \in ToSet(s.rows)
    BY <1>1, <2>1, <2>2 DEF ToSet, IsSeq
  <2> QED BY <1>2, <2>3 DEF Clean
<1>6. SubSeq(more, 1, Len(more)) = more
  BY <1>1 DEF IsSeq
<1>7. RestoreChk(s).rows = s.rows \o more
  BY <1>4, <1>5, <1>6 DEF IsSession
<1> QED BY <1>7 DEF more

LEMMA SessRowsLater ==
  ASSUME NEW s, NEW n \in Nat, SessRows(s, n), NEW m \in Nat, n <= m
  PROVE  SessRows(s, m)
<1>1. 1 .. n \subseteq 1 .. m
  OBVIOUS
<1> QED BY <1>1 DEF SessRows, RowsOK

LEMMA RestoreChkRows ==
  ASSUME NEW s, IsSession(s), s.chk \in Chk, NEW n, SessRows(s, n)
  PROVE  /\ SessRows(RestoreChk(s), n) /\ RestoreChk(s).chk = NoChk
         /\ Rowed(RestoreChk(s).rows) = Rowed(s.rows)
<1>1. IsSession(RestoreChk(s)) /\ RestoreChk(s).chk = NoChk /\ (s.chk = NoChk => RestoreChk(s) = s)
  BY RestoreChkElements
<1>2. CASE s.chk = NoChk
  BY <1>1, <1>2
<1>3. CASE s.chk # NoChk
  <2> DEFINE c == s.chk
             more == ChkRows(c)
  <2>1. c \in Chk /\ c # NoChk /\ c[2] \in 1 .. n /\ Clean(s.rows, c[2]) /\ RowsOK(s.rows, n)
    BY <1>3 DEF SessRows
  <2>2. /\ RowsOK(more, n) /\ Rowed(more) = {}
        /\ \A r \in ToSet(more) : r[1] \in Steps /\ r[2] = c[2]
    BY <2>1, ChkRowsOK
  <2>3. RestoreChk(s).rows = s.rows \o more
    BY <1>3, <2>1, CleanRestore
  <2>4. IsSeq(s.rows) /\ IsSeq(more)
    BY ChkRowsIsSeq DEF IsSession
  <2> HIDE DEF c, more
  <2>5. \A r \in ToSet(s.rows) \cap ToSet(more) : r = Closed
    BY <2>1, <2>2 DEF Clean
  <2>6. RowsOK(s.rows \o more, n) /\ Rowed(s.rows \o more) = Rowed(s.rows) \cup Rowed(more)
    <3>1. RowsOK(s.rows, n) /\ RowsOK(more, n)
      BY <2>1, <2>2
    <3> QED BY <2>4, <2>5, <3>1, RowsConcat
  <2> QED BY <1>1, <2>2, <2>3, <2>6 DEF SessRows
<1> QED BY <1>2, <1>3

LEMMA ClosesRows ==
  ASSUME NEW s, IsSession(s), NEW n, SessRows(s, n), NEW t, Closes(s, t)
  PROVE  SessRows(t, n) /\ Rowed(t.rows) = Rowed(s.rows)
<1>1. CASE t.rows = s.rows
  BY <1>1 DEF Closes, SessRows
<1>2. CASE t.rows = Append(s.rows, Closed)
  <2>1. IsSeq(s.rows) /\ RowsOK(s.rows, n) /\ t.chk = s.chk
    BY DEF IsSession, SessRows, Closes
  <2>2. Closed[1] = "closed"
    BY DEF Closed
  <2>3. PICK r : r = Closed
    OBVIOUS
  <2>4. r[1] \in {"user", "closed"} /\ r[1] # "user"
    BY <2>2, <2>3
  <2>5. /\ RowsOK(Append(s.rows, r), n)
        /\ Rowed(Append(s.rows, r)) = Rowed(s.rows) \cup (IF r[1] = "user" THEN {r[2]} ELSE {})
        /\ \A m : Clean(s.rows, m) => Clean(Append(s.rows, r), m)
    BY <2>1, <2>3, <2>4, RowsAppend
  <2> QED BY <1>2, <2>1, <2>3, <2>4, <2>5 DEF SessRows
<1> QED BY <1>1, <1>2 DEF Closes

LEMMA BecomesRows ==
  ASSUME NEW s, IsSession(s), s.chk \in Chk, NEW n, SessRows(s, n), NEW t, Becomes(s, t)
  PROVE  SessRows(t, n) /\ Rowed(t.rows) = Rowed(s.rows) /\ t.jnl = s.jnl
<1>1. SessRows(RestoreChk(s), n) /\ Rowed(RestoreChk(s).rows) = Rowed(s.rows)
  BY RestoreChkRows
<1>2. IsSession(RestoreChk(s)) /\ RestoreChk(s).jnl = s.jnl
  BY RestoreChkElements
<1>3. CASE Closes(s, t)
  BY <1>3, ClosesRows DEF Closes
<1>4. CASE Closes(RestoreChk(s), t)
  BY <1>1, <1>2, <1>4, ClosesRows DEF Closes
<1> QED BY <1>3, <1>4 DEF Becomes

----------------------------------------------------------------------------
(* Where the rows of a turn are                                            *)

\* What the files say of the session in memory.
FilesInv ==
  /\ up => mem.rows = disk.rows /\ mem.jnl = disk.jnl
  /\ ~up => mem = NewSession

\* The history in the file, with the checkpoint that counts, and the one in
\* memory.
SessInv ==
  /\ FilesInv
  /\ SessRows(disk, turns) /\ SessRows(Loaded, turns)
  /\ up => SessRows(mem, turns)

\* A turn whose rows are not in the history yet.
Working == turn.at \in {"model", "tools", "answered"}

\* The rows of the turn, with the result it waits for.
Expected == IF turn.at = "tools" THEN Append(turn.out, <<"result", turn.n, turn.k>>) ELSE turn.out

\* The turn is the last one; its rows are its own steps and the follow-ups it
\* took, each once.
OutInv ==
  Working =>
    /\ turn.n = turns /\ turn.n > 0 /\ Clean(disk.rows, turn.n)
    /\ Once(turn.out) /\ Paired(Expected)
    /\ \A r \in ToSet(turn.out) :
         \/ r[1] = "user"
         \/ /\ r[1] \in {"call", "result", "answer"} /\ r[2] = turn.n /\ r[3] \in 1 .. turn.k
            /\ r[1] = "result" /\ turn.at = "tools" => r[3] < turn.k

\* A step that leaves the sessions alone.
LEMMA SessUntouched ==
  ASSUME SessInv, UNCHANGED <<up, mem, files>>, turns \in Nat, turns' \in Nat, turns <= turns'
  PROVE  SessInv'
<1>1. Loaded' = Loaded /\ mem' = mem /\ disk' = disk
  BY DEF files, Loaded
<1>2. /\ SessRows(disk, turns') /\ SessRows(Loaded, turns')
      /\ up => SessRows(mem, turns')
  BY SessRowsLater DEF SessInv
<1> QED BY <1>1, <1>2 DEF SessInv, FilesInv

\* A session with such a history takes the place of the one in memory.
LEMMA SessSaved ==
  ASSUME SessInv, up, up', NEW s, SavedAs(s), turns \in Nat, turns' \in Nat, turns <= turns',
         SessRows(s, turns')
  PROVE  SessInv'
<1>1. CASE s = mem /\ UNCHANGED files
  BY <1>1, SessUntouched DEF SavedAs
<1>2. CASE disk' = s /\ side' = NoChk
  <2>1. mem' = s /\ disk' = s /\ Loaded' = s
    BY <1>2 DEF SavedAs, Loaded
  <2> QED BY <2>1 DEF SessInv, FilesInv
<1> QED BY <1>1, <1>2 DEF SavedAs

\* A checkpoint of the turn at hand is written.
LEMMA SessCheckpoint ==
  ASSUME IInv, SessInv, up, up', turns' = turns, NEW c \in Chk, SaveCheckpoint(c), c # NoChk,
         c[2] \in 1 .. turns, Clean(disk.rows, c[2])
  PROVE  SessInv'
<1>1. IsSession(mem) /\ IsSession(disk)
  BY DEF IInv, Shape
<1>2. mem' = [mem EXCEPT !.chk = c] /\ disk' = disk /\ Loaded' = [disk EXCEPT !.chk = c]
  BY DEF SaveCheckpoint, Loaded
<1>3. /\ mem'.rows = mem.rows /\ mem'.jnl = mem.jnl /\ mem'.chk = c
      /\ Loaded'.rows = disk.rows /\ Loaded'.chk = c
  BY <1>1, <1>2 DEF IsSession
<1>4. mem.rows = disk.rows /\ mem.jnl = disk.jnl
  BY DEF SessInv, FilesInv
<1>5. FilesInv'
  BY <1>2, <1>3, <1>4 DEF FilesInv
<1>6. SessRows(disk', turns') /\ SessRows(Loaded', turns') /\ SessRows(mem', turns')
  BY <1>2, <1>3, <1>4 DEF SessInv, SessRows
<1> QED BY <1>5, <1>6 DEF SessInv

----------------------------------------------------------------------------
(* The rows of a turn                                                      *)

\* Nothing is left out of what is picked from everywhere.
LEMMA PickedAll == ASSUME NEW q, IsSeq(q) PROVE Picked(q, DOMAIN q) = q
<1> DEFINE n == Len(q)
           P == 1 .. n
<1>1. n \in Nat /\ DOMAIN q = P /\ q = [j \in P |-> q[j]]
  BY DEF IsSeq
<1>2. ASSUME NEW j \in P
      PROVE  Cardinality({h \in P : h <= j}) = j
  <2>1. {h \in P : h <= j} = 1 .. j /\ j \in Nat
    BY <1>1
  <2>2. Cardinality(1 .. j) = j
    BY <2>1, FS_Interval
  <2> QED BY <2>1, <2>2
<1>3. Cardinality(P) = n
  BY <1>1, FS_Interval
<1> HIDE DEF P
<1>4. ASSUME NEW j \in P
      PROVE  (CHOOSE i \in P : Cardinality({h \in P : h <= i}) = j) = j
  <2>1. \A i \in P : Cardinality({h \in P : h <= i}) = j <=> i = j
    BY <1>2
  <2> DEFINE F(i) == Cardinality({h \in P : h <= i})
  <2>2. \A i \in P : F(i) = j <=> i = j
    BY <2>1
  <2> HIDE DEF F
  <2>3. (CHOOSE i \in P : F(i) = j) = j
    BY <2>2
  <2> QED BY <2>3 DEF F
<1>5. Picked(q, P) = [j \in 1 .. n |-> q[CHOOSE i \in P : Cardinality({h \in P : h <= i}) = j]]
  BY <1>3 DEF Picked
<1>6. 1 .. n = P
  BY DEF P
<1>7. [j \in P |-> q[CHOOSE i \in P : Cardinality({h \in P : h <= i}) = j]] = [j \in P |-> q[j]]
  <2> DEFINE C(j) == CHOOSE i \in P : Cardinality({h \in P : h <= i}) = j
  <2>1. \A j \in P : C(j) = j
    BY <1>4
  <2> HIDE DEF C
  <2>2. [j \in P |-> q[C(j)]] = [j \in P |-> q[j]]
    BY <2>1
  <2> QED BY <2>2 DEF C
<1> QED BY <1>1, <1>5, <1>6, <1>7

\* A turn whose steps the history does not know is committed with all its rows.
LEMMA SavedAll ==
  ASSUME NEW rows, NEW out, IsSeq(out), NEW n, Clean(rows, n),
         \A r \in ToSet(out) : r[1] = "result" => r[2] = n
  PROVE  Saved(rows, out) = out
<1> DEFINE had == {<<r[2], r[3]>> : r \in {x \in ToSet(rows) : x[1] \in {"result", "broken"}}}
           places == {i \in DOMAIN out : out[i][1] = "result" => <<out[i][2], out[i][3]>> \notin had}
<1>1. ASSUME NEW i \in DOMAIN out, out[i][1] = "result", <<out[i][2], out[i][3]>> \in had
      PROVE  FALSE
  <2>1. PICK r \in ToSet(rows) : /\ r[1] \in {"result", "broken"}
                                 /\ <<out[i][2], out[i][3]>> = <<r[2], r[3]>>
    BY <1>1
  <2>2. out[i] \in ToSet(out)
    BY DEF ToSet
  <2>3. out[i][2] = n /\ out[i][2] = r[2]
    BY <1>1, <2>1, <2>2
  <2>4. r[2] # n
    BY <2>1 DEF Clean, Steps
  <2> QED BY <2>3, <2>4
<1>2. places = DOMAIN out
  BY <1>1
<1>3. Saved(rows, out) = Picked(out, places)
  BY DEF Saved
<1> HIDE DEF places
<1> QED BY <1>2, <1>3, PickedAll

\* Rows of the user, each once.
LEMMA UserRows ==
  ASSUME NEW q, IsSeq(q), NEW rows, IsSeq(rows), DOMAIN rows = DOMAIN q,
         \A i \in DOMAIN q : rows[i] = <<"user", q[i]>>,
         \A i, j \in DOMAIN q : q[i] = q[j] => i = j
  PROVE  Once(rows) /\ Paired(rows)
<1>1. \A i \in DOMAIN rows : rows[i][1] = "user" /\ rows[i][2] = q[i]
  OBVIOUS
<1>2. Once(rows)
  BY <1>1 DEF Once
<1>3. Paired(rows)
  BY <1>1 DEF Paired
<1> QED BY <1>2, <1>3

\* The rows a turn has when its steps are taken and follow-ups injected.
LEMMA InjectMore ==
  ASSUME IsSeq(queue), \A i, j \in DOMAIN queue : queue[i] = queue[j] => i = j,
         NEW out, IsSeq(out), Once(out), Paired(out), Rowed(out) \cap ToSet(queue) = {}
  PROVE  /\ IsSeq(out \o Inject) /\ Once(out \o Inject) /\ Paired(out \o Inject)
         /\ \A r \in ToSet(out \o Inject) : r \in ToSet(out) \/ r[1] = "user"
         /\ Rowed(out \o Inject) = Rowed(out) \cup ToSet(queue)
<1>1. /\ IsSeq(Inject) /\ ToSet(Inject) = {<<"user", x>> : x \in ToSet(queue)}
      /\ DOMAIN Inject = DOMAIN queue /\ \A i \in DOMAIN queue : Inject[i] = <<"user", queue[i]>>
  BY InjectElements
<1>2. Once(Inject) /\ Paired(Inject)
  BY <1>1, UserRows
<1>3. \A r \in ToSet(Inject) : r[1] = "user" /\ r[2] \in ToSet(queue)
  BY <1>1
<1>4. \A r \in ToSet(out) \cap ToSet(Inject) : r = Closed
  BY <1>3 DEF Rowed
<1>5. Once(out \o Inject) /\ Paired(out \o Inject)
  <2>1. IsSeq(Inject)
    BY <1>1
  <2>2. Once(out \o Inject)
    BY <1>2, <1>4, <2>1, OnceConcat
  <2>3. Paired(out \o Inject)
    BY <1>2, <2>1, PairedConcat
  <2> QED BY <2>2, <2>3
<1>6. IsSeq(out \o Inject) /\ ToSet(out \o Inject) = ToSet(out) \cup ToSet(Inject)
  BY <1>1, ConcatIsSeq
<1>7. \A x \in ToSet(queue) : <<"user", x>> \in ToSet(Inject)
  BY <1>1
<1>8. Rowed(out \o Inject) = Rowed(out) \cup ToSet(queue)
  <2> DEFINE I == ToSet(Inject)
  <2>1. \A r \in I : r[1] = "user" /\ r[2] \in ToSet(queue)
    BY <1>3
  <2>2. \A x \in ToSet(queue) : \E r \in I : r[1] = "user" /\ r[2] = x
    BY <1>7
  <2>3. ToSet(out \o Inject) = ToSet(out) \cup I
    BY <1>6
  <2> HIDE DEF I
  <2> QED BY <2>1, <2>2, <2>3 DEF Rowed
<1> QED BY <1>3, <1>5, <1>6, <1>8

LEMMA CallRows ==
  ASSUME OutInv, turn.at = "model", IsSeq(turn.out), NEW k, k = turn.k + 1, turn.k \in Nat
  PROVE  LET out == Append(turn.out, <<"call", turn.n, k>>)
         IN /\ Once(out) /\ Paired(Append(out, <<"result", turn.n, k>>))
            /\ ToSet(out) = ToSet(turn.out) \cup {<<"call", turn.n, k>>}
            /\ Rowed(out) = Rowed(turn.out)
<1> DEFINE call == <<"call", turn.n, k>>
           result == <<"result", turn.n, k>>
           o == turn.out
<1>1. call[1] = "call" /\ call[2] = turn.n /\ call[3] = k /\ k \notin 1 .. turn.k
  OBVIOUS
<1>2. Once(o) /\ Paired(o) /\ call \notin ToSet(o)
  BY <1>1 DEF OutInv, Working, Expected
<1>3. PICK two : two = <<call, result>>
  OBVIOUS
<1>4. Paired(two)
  <2>1. Paired(<<call, result>>)
    BY CallAndResult
  <2> QED BY <1>3, <2>1
<1> HIDE DEF call, result, o
<1>5. IsSeq(two) /\ Append(Append(o, call), result) = o \o two
  BY <1>3, AppendTwo DEF o
<1>6. Paired(o \o two)
  BY <1>2, <1>4, <1>5, PairedConcat DEF o
<1>7. PICK one : one = <<call>>
  OBVIOUS
<1>8. IsSeq(one) /\ Append(o, call) = o \o one
  BY <1>7, AppendOne DEF o
<1>9. Once(one) /\ ToSet(one) = {call}
  <2>1. Once(<<call>>) /\ ToSet(<<call>>) = {call}
    BY OneRow, TwoElements
  <2> QED BY <1>7, <2>1
<1>10. Once(o \o one)
  <2>1. IsSeq(o) /\ IsSeq(one) /\ Once(o) /\ Once(one)
    BY <1>2, <1>8, <1>9 DEF o
  <2>2. \A r \in ToSet(o) \cap ToSet(one) : r = Closed
    BY <1>2, <1>9
  <2> QED BY <2>1, <2>2, OnceConcat
<1>11. ToSet(Append(o, call)) = ToSet(o) \cup {call}
  BY AppendIsSeq DEF o
<1>12. Rowed(Append(o, call)) = Rowed(o)
  BY <1>1, <1>11 DEF Rowed
<1> QED BY <1>5, <1>6, <1>8, <1>10, <1>11, <1>12 DEF o, call, result

----------------------------------------------------------------------------
(* Where a message of the user is                                          *)

Users(q) == {x \in ToSet(q) : x.kind = "user"}
Single(q) == \A i, j \in DOMAIN q : q[i] = q[j] /\ q[i].kind = "user" => i = j

\* The follow-ups whose rows the turn will commit.
Taken == IF Working THEN Rowed(turn.out) ELSE {}

Apart(b, f, w, q, t, r) ==
  /\ b \cap (f \cup w \cup q \cup t \cup r) = {}
  /\ f \cap (w \cup q \cup t \cup r) = {}
  /\ w \cap (q \cup t \cup r) = {}
  /\ q \cap (t \cup r) = {}
  /\ t \cap r = {}

Everyone == Users(bus) \cup Users(fresh) \cup Users(waiting) \cup Users(queue) \cup Taken
              \cup Rowed(disk.rows) \cup disk.jnl

\* A message of the user is in one place: on the bus, in one task, in the
\* pending queue, among the rows of the turn or in the history; the journal has
\* none that is in the history.
UserInv ==
  /\ Single(bus) /\ Single(fresh) /\ Single(waiting) /\ Single(queue)
  /\ Apart(Users(bus), Users(fresh), Users(waiting), Users(queue), Taken, Rowed(disk.rows))
  /\ disk.jnl \cap Rowed(disk.rows) = {}
  /\ \A x \in Everyone : x.id \in 0 .. sent

LEMMA EmptyUsers == Users(<<>>) = {} /\ Single(<<>>)
BY EmptyIsSeq DEF Users, Single

LEMMA AppendUsers ==
  ASSUME NEW q, IsSeq(q), Single(q), NEW x, x.kind = "user" => x \notin Users(q)
  PROVE  /\ Single(Append(q, x)) /\ IsSeq(Append(q, x))
         /\ Users(Append(q, x)) = Users(q) \cup (IF x.kind = "user" THEN {x} ELSE {})
<1>1. IsSeq(Append(q, x)) /\ ToSet(Append(q, x)) = ToSet(q) \cup {x}
  BY AppendIsSeq
<1> DEFINE n == Len(q)
           r == Append(q, x)
<1>2. /\ n \in Nat /\ DOMAIN q = 1 .. n /\ DOMAIN r = 1 .. n + 1 /\ r[n + 1] = x
      /\ \A i \in 1 .. n : r[i] = q[i]
  <2>1. q \in Seq(ToSet(q) \cup {x})
    BY DEF IsSeq
  <2> QED BY <2>1
<1>3. \A i \in 1 .. n : q[i] \in ToSet(q)
  BY <1>2 DEF ToSet
<1> HIDE DEF r, n
<1>4. ASSUME NEW i \in 1 .. n + 1, NEW j \in 1 .. n + 1, r[i] = r[j], r[i].kind = "user" PROVE i = j
  <2>1. CASE i \in 1 .. n /\ j \in 1 .. n
    BY <1>2, <1>4, <2>1 DEF Single
  <2>2. \A h \in 1 .. n : ~(q[h] = x /\ x.kind = "user")
    BY <1>3 DEF Users
  <2>3. CASE i \in 1 .. n /\ j = n + 1
    BY <1>2, <1>4, <2>2, <2>3
  <2>4. CASE i = n + 1 /\ j \in 1 .. n
    BY <1>2, <1>4, <2>2, <2>4
  <2> QED BY <1>2, <2>1, <2>3, <2>4
<1>5. Single(r)
  BY <1>2, <1>4 DEF Single
<1>6. Users(r) = Users(q) \cup (IF x.kind = "user" THEN {x} ELSE {})
  BY <1>1 DEF Users, r
<1> QED BY <1>1, <1>5, <1>6 DEF r

LEMMA TailUsers ==
  ASSUME NEW q, IsSeq(q), Single(q), q # <<>>
  PROVE  /\ Single(Tail(q)) /\ IsSeq(Tail(q)) /\ Head(q) \in ToSet(q)
         /\ Users(Tail(q)) = Users(q) \ {Head(q)}
         /\ Head(q).kind = "user" => Head(q) \in Users(q)
<1>1. IsSeq(Tail(q)) /\ ToSet(Tail(q)) \subseteq ToSet(q) /\ Head(q) \in ToSet(q)
  BY TailIsSeq
<1> DEFINE n == Len(q)
           t == Tail(q)
<1>2. /\ n \in Nat \ {0} /\ DOMAIN q = 1 .. n /\ DOMAIN t = 1 .. n - 1 /\ Head(q) = q[1]
      /\ \A i \in 1 .. n - 1 : t[i] = q[i + 1] /\ i + 1 \in 1 .. n
  BY DEF IsSeq
<1> HIDE DEF t, n
<1>3. Single(t)
  <2> SUFFICES ASSUME NEW i \in 1 .. n - 1, NEW j \in 1 .. n - 1, t[i] = t[j], t[i].kind = "user"
               PROVE  i = j
    BY <1>2 DEF Single
  <2>1. t[i] = q[i + 1] /\ t[j] = q[j + 1] /\ i + 1 \in DOMAIN q /\ j + 1 \in DOMAIN q
    BY <1>2
  <2>2. i + 1 = j + 1
    BY <2>1 DEF Single
  <2> QED BY <1>2, <2>2
<1>4. ASSUME NEW x \in Users(q), x # Head(q) PROVE x \in ToSet(t)
  <2>1. PICK i \in 1 .. n : q[i] = x
    BY <1>2 DEF Users, ToSet
  <2>2. i # 1 /\ i - 1 \in 1 .. n - 1 /\ (i - 1) + 1 = i
    BY <1>2, <1>4, <2>1
  <2>3. t[i - 1] = x
    BY <1>2, <2>1, <2>2
  <2> QED BY <1>2, <2>2, <2>3 DEF ToSet
<1>5. ASSUME Head(q).kind = "user" PROVE Head(q) \notin ToSet(t)
  <2> SUFFICES ASSUME NEW i \in 1 .. n - 1, t[i] = q[1] PROVE FALSE
    BY <1>2 DEF ToSet
  <2>1. i + 1 = 1
    BY <1>2, <1>5 DEF Single
  <2> QED BY <1>2, <2>1
<1>6. Users(t) = Users(q) \ {Head(q)}
  BY <1>1, <1>4, <1>5 DEF Users, t
<1> QED BY <1>1, <1>3, <1>6 DEF Users, t

LEMMA ConcatUsers ==
  ASSUME NEW p, NEW q, IsSeq(p), IsSeq(q), Single(p), Single(q), Users(p) \cap Users(q) = {}
  PROVE  Single(p \o q) /\ IsSeq(p \o q) /\ Users(p \o q) = Users(p) \cup Users(q)
<1> DEFINE m == Len(p)
           n == Len(q)
           c == p \o q
<1>1. /\ m \in Nat /\ DOMAIN p = 1 .. m /\ n \in Nat /\ DOMAIN q = 1 .. n
      /\ DOMAIN c = 1 .. m + n
      /\ \A i \in 1 .. m : c[i] = p[i]
      /\ \A i \in 1 .. n : c[m + i] = q[i]
      /\ \A i \in 1 .. m + n : i \in 1 .. m \/ (i - m \in 1 .. n /\ m + (i - m) = i)
  BY ConcatAt
<1>2. IsSeq(c) /\ ToSet(c) = ToSet(p) \cup ToSet(q)
  BY ConcatIsSeq
<1> HIDE DEF m, n, c
<1>3. ASSUME NEW i \in 1 .. m, NEW j \in 1 .. n, p[i] = q[j] PROVE p[i].kind # "user"
  <2>1. p[i] \in ToSet(p) /\ q[j] \in ToSet(q)
    BY <1>1 DEF ToSet
  <2> QED BY <1>3, <2>1 DEF Users
<1>4. ASSUME NEW i \in 1 .. m + n, NEW j \in 1 .. m + n, c[i] = c[j], c[i].kind = "user" PROVE i = j
  <2>1. CASE i \in 1 .. m /\ j \in 1 .. m
    BY <1>1, <1>4, <2>1 DEF Single
  <2>2. CASE i - m \in 1 .. n /\ j - m \in 1 .. n
    <3>1. c[m + (i - m)] = q[i - m] /\ c[m + (j - m)] = q[j - m]
      BY <1>1, <2>2
    <3>2. m + (i - m) = i /\ m + (j - m) = j
      BY <1>1
    <3>3. /\ i - m \in DOMAIN q /\ j - m \in DOMAIN q
          /\ q[i - m] = q[j - m] /\ q[i - m].kind = "user"
      BY <1>1, <1>4, <2>2, <3>1, <3>2
    <3>4. i - m = j - m
      BY <3>3 DEF Single
    <3> QED BY <1>1, <3>2, <3>4
  <2>3. CASE i \in 1 .. m /\ j - m \in 1 .. n
    <3>1. c[m + (j - m)] = q[j - m] /\ m + (j - m) = j /\ c[i] = p[i]
      BY <1>1, <2>3
    <3> QED BY <1>3, <1>4, <2>3, <3>1
  <2>4. CASE i - m \in 1 .. n /\ j \in 1 .. m
    <3>1. c[m + (i - m)] = q[i - m] /\ m + (i - m) = i /\ c[j] = p[j]
      BY <1>1, <2>4
    <3> QED BY <1>3, <1>4, <2>4, <3>1
  <2> QED BY <1>1, <2>1, <2>2, <2>3, <2>4
<1>5. Single(c)
  BY <1>1, <1>4 DEF Single
<1>6. Users(c) = Users(p) \cup Users(q)
  BY <1>2 DEF Users
<1> QED BY <1>2, <1>5, <1>6 DEF c

LEMMA PickedUsers ==
  ASSUME NEW q, IsSeq(q), Single(q), NEW P \in SUBSET DOMAIN q
  PROVE  Single(Picked(q, P)) /\ IsSeq(Picked(q, P)) /\ Users(Picked(q, P)) \subseteq Users(q)
<1> DEFINE n == Len(q)
           m == Cardinality(P)
           F(j) == CHOOSE i \in P : Rank(P, i) = j
           r == Picked(q, P)
<1>1. n \in Nat /\ DOMAIN q = 1 .. n
  BY DEF IsSeq
<1>2. /\ m \in Nat
      /\ \A a, b \in P : Rank(P, a) = Rank(P, b) => a = b
      /\ \A j \in 1 .. m : \E i \in P : Rank(P, i) = j
  BY <1>1, RankHit
<1>3. \A j \in 1 .. m : F(j) \in P /\ Rank(P, F(j)) = j
  BY <1>2
<1>4. r = [j \in 1 .. m |-> q[F(j)]]
  BY DEF Picked, Rank
<1> HIDE DEF F, r
<1>5. ASSUME NEW i \in 1 .. m, NEW j \in 1 .. m, r[i] = r[j], r[i].kind = "user" PROVE i = j
  <2>1. F(i) = F(j)
    BY <1>3, <1>4, <1>5 DEF Single
  <2> QED BY <1>3, <2>1
<1>6. Single(r)
  BY <1>4, <1>5 DEF Single
<1>7. IsSeq(r) /\ ToSet(r) \subseteq ToSet(q)
  BY PickedSubset DEF r
<1> QED BY <1>6, <1>7 DEF Users, r

LEMMA RequeuedUsers ==
  ASSUME NEW s, JournalOK(s), s.jnl \subseteq Msg, NEW b \in Requeued(s.jnl)
  PROVE  Single(b) /\ IsSeq(b) /\ Users(b) \subseteq s.jnl
<1>1. IsSeq(b)
  BY RequeuedFree
<1> DEFINE n == Cardinality(s.jnl)
<1>2. n \in Nat
  BY FS_CardinalityType DEF JournalOK
<1>3. b \in [1 .. n -> s.jnl] /\ \A i, j \in DOMAIN b : i < j => b[i].id < b[j].id
  BY DEF Requeued
<1> HIDE DEF n
<1>4. Single(b)
  <2> SUFFICES ASSUME NEW i \in 1 .. n, NEW j \in 1 .. n, b[i] = b[j] PROVE i = j
    BY <1>3 DEF Single
  <2>1. b[i].id \in Nat
    BY <1>3 DEF Msg
  <2>2. ~(i < j) /\ ~(j < i)
    BY <1>3, <2>1
  <2> QED BY <1>2, <2>2
<1>5. Users(b) \subseteq s.jnl
  BY <1>3 DEF Users, ToSet
<1> QED BY <1>1, <1>4, <1>5

----------------------------------------------------------------------------
(* Every step                                                              *)

HistInv == SessInv /\ OutInv /\ UserInv

\* What the steps below start from.
Sound == Known /\ TypeInv /\ HistInv

LEMMA SoundFacts ==
  ASSUME Sound
  PROVE  /\ IsSession(mem) /\ IsSession(disk) /\ mem.chk \in Chk /\ JournalOK(mem) /\ turns \in Nat
         /\ IsSeq(bus) /\ IsSeq(fresh) /\ IsSeq(waiting) /\ IsSeq(queue) /\ IsSeq(turn.out)
         /\ Users(queue) = ToSet(queue)
         /\ turn.at \in {"idle", "model", "tools", "answered", "committed"}
         /\ Working => Active
         /\ Active => up
         /\ Active /\ Pending(mem) => ContRuns
         /\ Single(OtherWaiting) /\ IsSeq(OtherWaiting) /\ Users(OtherWaiting) \subseteq Users(waiting)
<1>1. /\ IsSession(mem) /\ IsSession(disk) /\ mem.chk \in Chk /\ JournalOK(mem) /\ turns \in Nat
      /\ IsSeq(bus) /\ IsSeq(fresh) /\ IsSeq(waiting) /\ IsSeq(queue) /\ IsSeq(turn.out)
      /\ Free(queue) /\ turn.at \in {"idle", "model", "tools", "answered", "committed"}
      /\ (Active => up) /\ (Active /\ Pending(mem) => ContRuns) /\ Single(waiting)
  BY KnownFacts DEF Sound, Known, IInv, Shape, TypeInv, SessionsTyped, SessionOK, PlacesTyped, QueueOK,
                    TurnTyped, RestTyped, HistInv, UserInv
<1>2. Users(queue) = ToSet(queue)
  BY <1>1 DEF Users, Free
<1>3. Working => Active
  BY DEF Working, Active
<1>4. Single(OtherWaiting) /\ IsSeq(OtherWaiting) /\ Users(OtherWaiting) \subseteq Users(waiting)
  <2>1. {i \in DOMAIN waiting : waiting[i].kind # "cont"} \in SUBSET DOMAIN waiting
    OBVIOUS
  <2> QED BY <1>1, <2>1, PickedUsers DEF OtherWaiting
<1> QED BY <1>1, <1>2, <1>3, <1>4

\* No message is new.
LEMMA UserStep ==
  ASSUME UserInv, sent' = sent,
         Single(bus') /\ Single(fresh') /\ Single(waiting') /\ Single(queue'),
         Apart(Users(bus'), Users(fresh'), Users(waiting'), Users(queue'), Taken', Rowed(disk'.rows)),
         disk'.jnl \cap Rowed(disk'.rows) = {}, Everyone' \subseteq Everyone
  PROVE  UserInv'
BY DEF UserInv

\* The sessions and the turn stay as they are.
LEMMA HistUntouched ==
  ASSUME SessInv, OutInv, turns \in Nat, UNCHANGED <<up, mem, files, turn, turns>>
  PROVE  SessInv' /\ OutInv' /\ disk' = disk /\ Taken' = Taken
<1>1. SessInv' /\ disk' = disk
  BY SessUntouched DEF files
<1> QED BY <1>1 DEF OutInv, Working, Expected, Taken

LEMMA NoTurnOut == ASSUME turn'.at \in {"idle", "committed"} PROVE OutInv' /\ Taken' = {}
BY DEF OutInv, Working, Taken

\* A session with the same messages of the user takes the place of the one in
\* memory.
LEMMA SavedHist ==
  ASSUME Sound, up, up', turns' = turns, NEW s, SavedAs(s), SessRows(s, turns),
         Rowed(s.rows) = Rowed(mem.rows)
  PROVE  /\ SessInv' /\ Rowed(disk'.rows) = Rowed(disk.rows) /\ disk'.jnl = s.jnl
         /\ s.rows = mem.rows => disk'.rows = disk.rows
<1>1. SessInv'
  BY SoundFacts, SessSaved DEF Sound, HistInv
<1>2. mem.rows = disk.rows /\ mem.jnl = disk.jnl
  BY DEF Sound, HistInv, SessInv, FilesInv
<1> QED BY <1>1, <1>2 DEF SavedAs, files

\* A session that becomes another keeps all of that.
LEMMA BecomesHist ==
  ASSUME Sound, up, up', turns' = turns, NEW s, SavedAs(s), Becomes(mem, s)
  PROVE  SessInv' /\ Rowed(disk'.rows) = Rowed(disk.rows) /\ disk'.jnl = disk.jnl
<1>1. SessRows(mem, turns) /\ mem.jnl = disk.jnl
  BY DEF Sound, HistInv, SessInv, FilesInv
<1>2. SessRows(s, turns) /\ Rowed(s.rows) = Rowed(mem.rows) /\ s.jnl = mem.jnl
  BY <1>1, SoundFacts, BecomesRows
<1> QED BY <1>1, <1>2, SavedHist

LEMMA SendHist == Sound /\ Send => HistInv'
<1> SUFFICES ASSUME Sound, Send PROVE HistInv'
  OBVIOUS
<1> DEFINE x == User(sent')
<1>1. /\ bus' = Append(bus, x) /\ sent' = sent + 1 /\ x.kind = "user" /\ x.id = sent'
      /\ UNCHANGED <<up, mem, files, turn, turns, fresh, waiting, queue>>
  BY DEF Send, User
<1>2. SessInv' /\ OutInv' /\ disk' = disk /\ Taken' = Taken
  BY <1>1, SoundFacts, HistUntouched DEF Sound, HistInv
<1>3. sent \in Nat
  BY DEF Sound, TypeInv, RestTyped
<1>4. UserInv /\ x \notin Everyone
  BY <1>1, <1>3 DEF Sound, HistInv, UserInv
<1>5. IsSeq(bus) /\ Single(bus) /\ x \notin Users(bus)
  BY <1>4, SoundFacts DEF UserInv, Everyone
<1> HIDE DEF x
<1>6. Single(bus') /\ Users(bus') = Users(bus) \cup {x}
  BY <1>1, <1>5, AppendUsers
<1>7. Everyone' = Everyone \cup {x}
  BY <1>1, <1>2, <1>6 DEF Everyone
<1>8. \A y \in Everyone' : y.id \in 0 .. sent'
  BY <1>1, <1>3, <1>4, <1>7 DEF UserInv
<1>9. Apart(Users(bus'), Users(fresh'), Users(waiting'), Users(queue'), Taken', Rowed(disk'.rows))
  BY <1>1, <1>2, <1>4, <1>6 DEF UserInv, Apart, Everyone
<1> QED BY <1>1, <1>2, <1>4, <1>6, <1>8, <1>9 DEF HistInv, UserInv

LEMMA SpawnHist == Sound /\ Spawn => HistInv'
<1> SUFFICES ASSUME Sound, Spawn PROVE HistInv'
  OBVIOUS
<1> DEFINE x == Head(bus)
<1>1. /\ bus # <<>> /\ bus' = Tail(bus) /\ fresh' = Append(fresh, x)
      /\ UNCHANGED <<up, mem, files, turn, turns, waiting, queue, sent>>
  BY DEF Spawn, counts
<1>2. SessInv' /\ OutInv' /\ disk' = disk /\ Taken' = Taken
  BY <1>1, SoundFacts, HistUntouched DEF Sound, HistInv
<1>3. UserInv /\ IsSeq(bus) /\ IsSeq(fresh) /\ Single(bus) /\ Single(fresh)
  BY SoundFacts DEF Sound, HistInv, UserInv
<1>4. Single(bus') /\ Users(bus') = Users(bus) \ {x} /\ (x.kind = "user" => x \in Users(bus))
  BY <1>1, <1>3, TailUsers
<1>5. x.kind = "user" => x \notin Users(fresh)
  BY <1>3, <1>4 DEF UserInv, Apart
<1> HIDE DEF x
<1>6. Single(fresh') /\ Users(fresh') = Users(fresh) \cup (IF x.kind = "user" THEN {x} ELSE {})
  BY <1>1, <1>3, <1>5, AppendUsers
<1>7. Everyone' \subseteq Everyone
  BY <1>1, <1>2, <1>4, <1>6 DEF Everyone
<1>8. Apart(Users(bus'), Users(fresh'), Users(waiting'), Users(queue'), Taken', Rowed(disk'.rows))
  BY <1>1, <1>2, <1>3, <1>4, <1>6 DEF UserInv, Apart
<1>9. UserInv'
  <2>1. Single(waiting') /\ Single(queue') /\ disk'.jnl \cap Rowed(disk'.rows) = {} /\ sent' = sent
    BY <1>1, <1>2, <1>3 DEF UserInv
  <2> QED BY <1>3, <1>4, <1>6, <1>7, <1>8, <2>1, UserStep
<1> QED BY <1>2, <1>9 DEF HistInv

LEMMA FollowUpHist == Sound /\ FollowUp => HistInv'
<1> SUFFICES ASSUME Sound, FollowUp PROVE HistInv'
  OBVIOUS
<1> DEFINE x == Head(bus)
           s == [mem EXCEPT !.jnl = @ \cup {x}]
<1>0. UserInv /\ OutInv /\ SessInv /\ IsSeq(bus) /\ Single(bus) /\ Tame(bus, mem.rec.id, consent) /\ IsSession(mem)
  BY SoundFacts, KnownFacts DEF Sound, HistInv, UserInv
<1>1. /\ bus # <<>> /\ bus' = Tail(bus) /\ Active /\ up
      /\ ~Refused(x, mem) /\ ~CancelsTurn(x) /\ Save([Admitted(x) EXCEPT !.jnl = @ \cup {x}])
      /\ waiting' = IF Supersedes(x, mem) THEN OtherWaiting ELSE waiting
      /\ \/ queue' = Append(queue, x) /\ fresh' = fresh
         \/ queue' = queue /\ fresh' = Append(fresh, x)
      /\ UNCHANGED <<up, turn, turns, sent>>
  BY DEF FollowUp, Journal, counts
<1>2. ~Supersedes(x, mem)
  <2> SUFFICES ASSUME Supersedes(x, mem) PROVE FALSE
    OBVIOUS
  <2>1. Pending(mem)
    BY DEF Supersedes, Pending
  <2> QED BY <1>1, <2>1, SoundFacts DEF ContRuns, CancelsTurn
<1>3. x.kind = "user"
  <2>1. x.kind = "user" \/ x.kind = "cont"
    <3>1. x.kind = "user" \/ x = Cont(mem.rec.id)
      <4>1. bus # <<>> /\ Tame(bus, mem.rec.id, consent)
        BY <1>0, <1>1
      <4> QED BY <4>1, TameTail
    <3>2. Cont(mem.rec.id).kind = "cont"
      BY DEF Cont
    <3> HIDE DEF x
    <3> QED BY <3>1, <3>2
  <2> SUFFICES ASSUME x.kind = "cont" PROVE FALSE
    BY <2>1
  <2>2. mem.rec.status = "resuming"
    BY <1>1 DEF Refused
  <2>3. Free(bus)
    BY <1>1, <2>2, SoundFacts DEF Pending, Sound, Known, ConsentInv, AllFree
  <2>4. x.kind = "user"
    BY <1>0, <1>1, <2>3, TameTail
  <2> QED BY <2>4
<1>4. SavedAs(s)
  BY <1>1, <1>2 DEF Admitted, Save, SavedAs
<1> HIDE DEF x
<1>5. s.rows = mem.rows /\ s.chk = mem.chk /\ s.jnl = mem.jnl \cup {x}
  BY <1>0 DEF IsSession
<1>6. SessRows(s, turns) /\ mem.jnl = disk.jnl /\ mem.rows = disk.rows
  BY <1>1, <1>0, <1>5 DEF SessInv, FilesInv, SessRows
<1> HIDE DEF s
<1>7. SessInv' /\ disk'.rows = disk.rows /\ disk'.jnl = disk.jnl \cup {x}
  BY <1>1, <1>4, <1>5, <1>6, SavedHist
<1>8. OutInv' /\ Taken' = Taken
  BY <1>0, <1>1, <1>7 DEF OutInv, Working, Expected, Taken
<1>9. Single(bus') /\ Users(bus') = Users(bus) \ {x} /\ x \in Users(bus)
  BY <1>0, <1>1, <1>3, TailUsers DEF x
<1>10. x \notin Users(queue) /\ x \notin Users(fresh) /\ x \notin Rowed(disk.rows)
  BY <1>0, <1>9 DEF UserInv, Apart
<1>11. /\ Single(queue) /\ Single(fresh) /\ IsSeq(queue) /\ IsSeq(fresh)
       /\ Single(Append(queue, x)) /\ Users(Append(queue, x)) = Users(queue) \cup {x}
       /\ Single(Append(fresh, x)) /\ Users(Append(fresh, x)) = Users(fresh) \cup {x}
  <2>1. Single(queue) /\ Single(fresh) /\ IsSeq(queue) /\ IsSeq(fresh)
    BY <1>0, SoundFacts DEF UserInv
  <2> QED BY <1>3, <1>10, <2>1, AppendUsers
<1>12. /\ Single(queue') /\ Single(fresh') /\ waiting' = waiting
       /\ \/ Users(queue') = Users(queue) \cup {x} /\ Users(fresh') = Users(fresh)
          \/ Users(queue') = Users(queue) /\ Users(fresh') = Users(fresh) \cup {x}
  BY <1>1, <1>2, <1>11
<1>13. Everyone' \subseteq Everyone
  BY <1>7, <1>8, <1>9, <1>12 DEF Everyone
<1>14. Apart(Users(bus'), Users(fresh'), Users(waiting'), Users(queue'), Taken', Rowed(disk'.rows))
  BY <1>0, <1>7, <1>8, <1>9, <1>12 DEF UserInv, Apart
<1>15. UserInv'
  <2>1. Single(waiting') /\ disk'.jnl \cap Rowed(disk'.rows) = {} /\ sent' = sent
    BY <1>0, <1>1, <1>7, <1>10, <1>12 DEF UserInv
  <2> QED BY <1>0, <1>9, <1>12, <1>13, <1>14, <2>1, UserStep
<1> QED BY <1>7, <1>8, <1>15 DEF HistInv

\* The turn ends, and what is in its queue goes behind q on the bus.
LEMMA BackOnBus ==
  ASSUME Sound, NEW q, IsSeq(q), Single(q), Users(q) \subseteq Users(bus), Release
  PROVE  /\ Single(q \o queue) /\ Users(q \o queue) = Users(q) \cup Users(queue)
         /\ OutInv' /\ Taken' = {} /\ Single(queue') /\ Users(queue') = {}
<1>1. UserInv /\ IsSeq(queue) /\ Single(queue)
  BY SoundFacts DEF Sound, HistInv, UserInv
<1>2. Users(q) \cap Users(queue) = {}
  BY <1>1 DEF UserInv, Apart
<1>3. Single(q \o queue) /\ Users(q \o queue) = Users(q) \cup Users(queue)
  BY <1>1, <1>2, ConcatUsers
<1>4. OutInv' /\ Taken' = {}
  BY ReleaseAt, NoTurnOut
<1>5. queue' = <<>>
  BY DEF Release
<1> QED BY <1>3, <1>4, <1>5, EmptyUsers

LEMMA OvertakeHist == Sound /\ Overtake => HistInv'
<1> SUFFICES ASSUME Sound, Overtake PROVE HistInv'
  OBVIOUS
<1> DEFINE x == Head(bus)
<1>1. /\ bus # <<>> /\ bus' = Tail(bus) \o queue /\ fresh' = Append(fresh, x) /\ up
      /\ SavedAs(Admitted(x)) /\ Release /\ waiting' = OtherWaiting
      /\ UNCHANGED <<up, turns, sent>>
  BY DEF Overtake, Save, SavedAs, counts
<1>2. UserInv /\ IsSeq(bus) /\ Single(bus) /\ IsSeq(fresh) /\ Single(fresh)
  BY SoundFacts DEF Sound, HistInv, UserInv
<1>3. Single(Tail(bus)) /\ IsSeq(Tail(bus)) /\ Users(Tail(bus)) = Users(bus) \ {x}
      /\ (x.kind = "user" => x \in Users(bus))
  BY <1>1, <1>2, TailUsers
<1>4. x.kind = "user" => x \notin Users(fresh)
  BY <1>2, <1>3 DEF UserInv, Apart
<1>5. SessInv' /\ Rowed(disk'.rows) = Rowed(disk.rows) /\ disk'.jnl = disk.jnl
  <2>1. Becomes(mem, Admitted(x))
    BY SoundFacts, AdmittedBecomes
  <2> QED BY <1>1, <2>1, BecomesHist
<1> HIDE DEF x
<1>6. Single(fresh') /\ Users(fresh') = Users(fresh) \cup (IF x.kind = "user" THEN {x} ELSE {})
  BY <1>1, <1>2, <1>4, AppendUsers
<1>7. /\ Single(bus') /\ Users(bus') = (Users(bus) \ {x}) \cup Users(queue)
      /\ OutInv' /\ Taken' = {} /\ Single(queue') /\ Users(queue') = {}
  <2> DEFINE q == Tail(bus)
  <2>1. IsSeq(q) /\ Single(q) /\ Users(q) = Users(bus) \ {x} /\ bus' = q \o queue
    BY <1>1, <1>3
  <2> HIDE DEF q
  <2> QED BY <1>1, <2>1, BackOnBus
<1>8. Single(waiting') /\ Users(waiting') \subseteq Users(waiting)
  BY <1>1, SoundFacts
<1>9. Everyone' \subseteq Everyone
  BY <1>3, <1>5, <1>6, <1>7, <1>8 DEF Everyone
<1>10. Apart(Users(bus'), Users(fresh'), Users(waiting'), Users(queue'), Taken', Rowed(disk'.rows))
  BY <1>2, <1>3, <1>5, <1>6, <1>7, <1>8 DEF UserInv, Apart
<1>11. UserInv'
  <2>1. disk'.jnl \cap Rowed(disk'.rows) = {} /\ sent' = sent
    BY <1>1, <1>2, <1>5 DEF UserInv
  <2> QED BY <1>2, <1>6, <1>7, <1>8, <1>9, <1>10, <2>1, UserStep
<1> QED BY <1>5, <1>7, <1>11 DEF HistInv

LEMMA RefuseHist == Sound /\ Refuse => HistInv'
<1> SUFFICES ASSUME Sound, Refuse PROVE HistInv'
  OBVIOUS
<1>1. /\ bus # <<>> /\ bus' = Tail(bus)
      /\ UNCHANGED <<up, mem, files, turn, turns, fresh, waiting, queue, sent>>
  BY DEF Refuse, counts
<1>2. SessInv' /\ OutInv' /\ disk' = disk /\ Taken' = Taken
  BY <1>1, SoundFacts, HistUntouched DEF Sound, HistInv
<1>3. UserInv /\ IsSeq(bus) /\ Single(bus)
  BY SoundFacts DEF Sound, HistInv, UserInv
<1>4. Single(bus') /\ Users(bus') \subseteq Users(bus)
  BY <1>1, <1>3, TailUsers
<1>5. Everyone' \subseteq Everyone
  BY <1>1, <1>2, <1>4 DEF Everyone
<1>6. Apart(Users(bus'), Users(fresh'), Users(waiting'), Users(queue'), Taken', Rowed(disk'.rows))
  BY <1>1, <1>2, <1>3, <1>4 DEF UserInv, Apart
<1>7. UserInv'
  <2>1. Single(fresh') /\ Single(waiting') /\ Single(queue') /\ disk'.jnl \cap Rowed(disk'.rows) = {}
    BY <1>1, <1>2, <1>3 DEF UserInv
  <2> QED BY <1>1, <1>3, <1>4, <1>5, <1>6, <2>1, UserStep
<1> QED BY <1>2, <1>7 DEF HistInv

LEMMA StartTaskHist == Sound /\ StartTask => HistInv'
<1> SUFFICES ASSUME Sound, StartTask PROVE HistInv'
  OBVIOUS
<1> DEFINE x == Head(fresh)
           w == IF Supersedes(x, mem) THEN OtherWaiting ELSE waiting
<1>0. /\ UserInv /\ SessInv /\ OutInv /\ IsSeq(fresh) /\ Single(fresh) /\ IsSeq(bus) /\ Single(bus)
      /\ IsSeq(waiting) /\ Single(waiting) /\ Single(queue)
  BY SoundFacts DEF Sound, HistInv, UserInv
<1>1. fresh # <<>> /\ fresh' = Tail(fresh) /\ UNCHANGED <<up, turns, sent>>
  BY DEF StartTask, counts
<1>2. Single(fresh') /\ Users(fresh') = Users(fresh) \ {x} /\ (x.kind = "user" => x \in Users(fresh))
  BY <1>0, <1>1, TailUsers
<1>3. CASE Refused(x, mem)
  <2>1. UNCHANGED <<mem, files, bus, waiting, turn, queue>>
    BY <1>3 DEF StartTask
  <2>2. SessInv' /\ OutInv' /\ disk' = disk /\ Taken' = Taken
    BY <1>0, <1>1, <2>1, SoundFacts, HistUntouched
  <2>3. Everyone' \subseteq Everyone
    BY <1>2, <2>1, <2>2 DEF Everyone
  <2>4. Apart(Users(bus'), Users(fresh'), Users(waiting'), Users(queue'), Taken', Rowed(disk'.rows))
    BY <1>0, <1>2, <2>1, <2>2 DEF UserInv, Apart
  <2>5. UserInv'
    <3>1. /\ Single(bus') /\ Single(waiting') /\ Single(queue')
          /\ disk'.jnl \cap Rowed(disk'.rows) = {} /\ sent' = sent
      BY <1>0, <1>1, <2>1, <2>2 DEF UserInv
    <3> QED BY <1>0, <1>2, <2>3, <2>4, <3>1, UserStep
  <2> QED BY <2>2, <2>5 DEF HistInv
<1>4. CASE ~Refused(x, mem)
  <2>1. /\ waiting' = Append(w, x)
        /\ IF Supersedes(x, mem) THEN Save(Admitted(x)) ELSE UNCHANGED <<mem, files>>
        /\ IF CancelsTurn(x) THEN Release /\ bus' = bus \o queue ELSE UNCHANGED <<bus, turn, queue>>
    BY <1>4 DEF StartTask
  <2>2. IsSeq(w) /\ Single(w) /\ Users(w) \subseteq Users(waiting)
    BY <1>0, SoundFacts
  <2>3. x.kind = "user" => x \notin Users(w)
    BY <1>0, <1>2, <2>2 DEF UserInv, Apart
  <2>4. Single(waiting') /\ Users(waiting') = Users(w) \cup (IF x.kind = "user" THEN {x} ELSE {})
    <3> HIDE DEF w, x
    <3> QED BY <2>1, <2>2, <2>3, AppendUsers
  <2>5. /\ SessInv' /\ Rowed(disk'.rows) = Rowed(disk.rows) /\ disk'.jnl = disk.jnl
        /\ ~Supersedes(x, mem) => disk' = disk
    <3>1. CASE Supersedes(x, mem)
      <4>1. SavedAs(Admitted(x)) /\ Becomes(mem, Admitted(x))
        BY <2>1, <3>1, SoundFacts, AdmittedBecomes DEF Save, SavedAs
      <4>2. up
        BY <1>1 DEF StartTask, Sound, Known, IInv, Shape
      <4> QED BY <1>1, <3>1, <4>1, <4>2, BecomesHist
    <3>2. CASE ~Supersedes(x, mem)
      BY <1>0, <1>1, <2>1, <3>2, SoundFacts, SessUntouched DEF files
    <3> QED BY <3>1, <3>2
  <2>6. CASE CancelsTurn(x)
    <3>1. /\ Single(bus') /\ Users(bus') = Users(bus) \cup Users(queue)
          /\ OutInv' /\ Taken' = {} /\ Single(queue') /\ Users(queue') = {}
      BY <1>0, <2>1, <2>6, BackOnBus
    <3>2. Everyone' \subseteq Everyone
      BY <1>2, <2>2, <2>4, <2>5, <3>1 DEF Everyone
    <3>3. Apart(Users(bus'), Users(fresh'), Users(waiting'), Users(queue'), Taken', Rowed(disk'.rows))
      BY <1>0, <1>2, <2>2, <2>4, <2>5, <3>1 DEF UserInv, Apart
    <3>4. UserInv'
      <4>1. disk'.jnl \cap Rowed(disk'.rows) = {} /\ sent' = sent
        BY <1>0, <1>1, <2>5 DEF UserInv
      <4> QED BY <1>0, <1>2, <2>4, <3>1, <3>2, <3>3, <4>1, UserStep
    <3> QED BY <2>5, <3>1, <3>4 DEF HistInv
  <2>7. CASE ~CancelsTurn(x)
    <3>1. UNCHANGED <<bus, turn, queue>>
      BY <2>1, <2>7
    <3>2. Working => disk' = disk
      <4> SUFFICES ASSUME Working, Supersedes(x, mem) PROVE FALSE
        BY <2>5
      <4>1. Active /\ Pending(mem)
        BY SoundFacts DEF Supersedes, Pending
      <4> QED BY <2>7, <4>1, SoundFacts DEF ContRuns, CancelsTurn
    <3>3. OutInv' /\ Taken' = Taken
      BY <1>0, <1>1, <3>1, <3>2 DEF OutInv, Working, Expected, Taken
    <3>4. Everyone' \subseteq Everyone
      BY <1>2, <2>2, <2>4, <2>5, <3>1, <3>3 DEF Everyone
    <3>5. Apart(Users(bus'), Users(fresh'), Users(waiting'), Users(queue'), Taken', Rowed(disk'.rows))
      BY <1>0, <1>2, <2>2, <2>4, <2>5, <3>1, <3>3 DEF UserInv, Apart
    <3>6. UserInv'
      <4>1. Single(bus') /\ Single(queue') /\ disk'.jnl \cap Rowed(disk'.rows) = {} /\ sent' = sent
        BY <1>0, <1>1, <2>5, <3>1 DEF UserInv
      <4> QED BY <1>0, <1>2, <2>4, <3>4, <3>5, <4>1, UserStep
    <3> QED BY <2>5, <3>3, <3>6 DEF HistInv
  <2> QED BY <2>6, <2>7
<1> QED BY <1>3, <1>4

LEMMA BeginHist == Sound /\ BeginTurn => HistInv'
<1> SUFFICES ASSUME Sound, BeginTurn PROVE HistInv'
  OBVIOUS
<1> DEFINE x == Head(waiting)
           s == RestoreChk(mem)
           r == RestorePending(s)
           new == [r EXCEPT !.rows = Append(@, <<"user", x>>), !.pend = TRUE, !.jnl = @ \ {x}]
           t == IF x.kind = "user" THEN new ELSE s
<1>0. /\ UserInv /\ SessInv /\ OutInv /\ IsSeq(waiting) /\ Single(waiting)
      /\ IsSession(mem) /\ mem.chk \in Chk /\ turns \in Nat
  BY SoundFacts DEF Sound, HistInv, UserInv
<1>1. /\ waiting # <<>> /\ waiting' = Tail(waiting) /\ ~Active /\ turns' = turns + 1
      /\ UNCHANGED <<up, bus, fresh, queue, sent>>
  BY DEF BeginTurn
<1>2. up
  BY <1>1 DEF Sound, Known, IInv, Shape
<1>3. /\ Closes(s, r) /\ new.rows = Append(r.rows, <<"user", x>>) /\ new.chk = NoChk
      /\ new.jnl = mem.jnl \ {x} /\ SavedAs(t)
      /\ turn' = [msg |-> x, n |-> turns + 1, k |-> 0, at |-> "model", out |-> <<>>]
  BY <1>0, BegunSession
<1>4. IsSession(s) /\ s.jnl = mem.jnl
  BY <1>0, RestoreChkElements
<1>5. /\ SessRows(mem, turns) /\ mem.rows = disk.rows /\ mem.jnl = disk.jnl
      /\ SessRows(s, turns) /\ Rowed(s.rows) = Rowed(disk.rows)
  <2>1. SessRows(mem, turns) /\ mem.rows = disk.rows /\ mem.jnl = disk.jnl
    BY <1>0, <1>2 DEF SessInv, FilesInv
  <2> QED BY <1>0, <2>1, RestoreChkRows
<1>6. Single(waiting') /\ Users(waiting') = Users(waiting) \ {x} /\ (x.kind = "user" => x \in Users(waiting))
  BY <1>0, <1>1, TailUsers
<1>7. x.kind = "user" => x \notin Rowed(disk.rows)
  BY <1>0, <1>6 DEF UserInv, Apart
<1> HIDE DEF x, s, r, new
<1>8. /\ SessRows(t, turns)
      /\ Rowed(t.rows) = Rowed(disk.rows) \cup (IF x.kind = "user" THEN {x} ELSE {})
      /\ t.jnl = IF x.kind = "user" THEN disk.jnl \ {x} ELSE disk.jnl
  <2>1. CASE x.kind = "user"
    <3> DEFINE row == <<"user", x>>
    <3>1. row[1] = "user" /\ row[2] = x
      OBVIOUS
    <3>2. IsSession(r) /\ SessRows(r, turns) /\ Rowed(r.rows) = Rowed(disk.rows)
      BY <1>3, <1>4, <1>5, ClosesRows DEF Closes
    <3>3. IsSeq(r.rows) /\ RowsOK(r.rows, turns) /\ row \notin ToSet(r.rows)
      BY <1>7, <2>1, <3>1, <3>2 DEF IsSession, SessRows, Rowed
    <3> HIDE DEF row
    <3>4. /\ RowsOK(Append(r.rows, row), turns)
          /\ Rowed(Append(r.rows, row)) = Rowed(r.rows) \cup (IF row[1] = "user" THEN {row[2]} ELSE {})
      <4>1. row[1] \in {"user", "closed"}
        BY <3>1
      <4> QED BY <3>3, <4>1, RowsAppend
    <3>5. new.rows = Append(r.rows, row)
      BY <1>3 DEF row
    <3> QED BY <1>3, <1>5, <2>1, <3>1, <3>2, <3>4, <3>5 DEF SessRows
  <2>2. CASE x.kind # "user"
    BY <1>4, <1>5, <2>2
  <2> QED BY <2>1, <2>2
<1> HIDE DEF t
<1>9. turns' \in Nat /\ turns <= turns' /\ 1 .. turns \subseteq 1 .. turns' /\ turns' \notin 1 .. turns
      /\ turns' > 0
  BY <1>0, <1>1
<1>10. SessRows(t, turns')
  BY <1>0, <1>8, <1>9, SessRowsLater
<1>11. SessInv'
  BY <1>0, <1>1, <1>2, <1>3, <1>9, <1>10, SessSaved
<1>12. disk'.rows = t.rows /\ disk'.jnl = t.jnl
  <2>1. (t = mem /\ disk' = disk) \/ disk' = t
    BY <1>3 DEF SavedAs, files
  <2> QED BY <1>5, <2>1
<1>13. Clean(disk'.rows, turns')
  BY <1>8, <1>9, <1>12 DEF SessRows, RowsOK, Clean
<1>14. /\ turn'.n = turns' /\ turn'.out = <<>> /\ turn'.at = "model" /\ ToSet(<<>>) = {}
  BY <1>1, <1>3, EmptyIsSeq
<1>15. OutInv' /\ Taken' = {}
  <2>1. Once(<<>>) /\ Paired(<<>>) /\ Rowed(<<>>) = {}
    BY <1>14 DEF Once, Paired, Rowed
  <2> QED BY <1>9, <1>13, <1>14, <2>1 DEF OutInv, Working, Expected, Taken
<1>16. Everyone' \subseteq Everyone
  BY <1>1, <1>6, <1>8, <1>12, <1>15 DEF Everyone
<1>17. Apart(Users(bus'), Users(fresh'), Users(waiting'), Users(queue'), Taken', Rowed(disk'.rows))
  BY <1>0, <1>1, <1>6, <1>8, <1>12, <1>15 DEF UserInv, Apart
<1>18. UserInv'
  <2>1. Single(bus') /\ Single(fresh') /\ Single(queue') /\ sent' = sent
    BY <1>0, <1>1 DEF UserInv
  <2>2. disk'.jnl \cap Rowed(disk'.rows) = {}
    BY <1>0, <1>8, <1>12 DEF UserInv
  <2> QED BY <1>0, <1>6, <1>16, <1>17, <2>1, <2>2, UserStep
<1> QED BY <1>11, <1>15, <1>18 DEF HistInv

\* A checkpoint of the turn that runs.
LEMMA CheckpointHist ==
  ASSUME Sound, Working, UNCHANGED <<up, turns>>, NEW p, NEW k, <<p, turn.n, k>> \in Chk,
         SaveCheckpoint(<<p, turn.n, k>>)
  PROVE  SessInv' /\ disk' = disk
<1> DEFINE c == <<p, turn.n, k>>
<1>1. c # NoChk /\ c[2] = turn.n
  BY DEF NoChk
<1>2. c \in Chk /\ SaveCheckpoint(c)
  OBVIOUS
<1> HIDE DEF c
<1>3. up /\ IInv /\ SessInv /\ OutInv /\ turns \in Nat
  BY SoundFacts DEF Sound, Known, HistInv
<1>4. c[2] \in 1 .. turns /\ Clean(disk.rows, c[2])
  BY <1>1, <1>3 DEF OutInv
<1>5. SessInv'
  BY <1>1, <1>2, <1>3, <1>4, SessCheckpoint
<1> QED BY <1>2, <1>5 DEF SaveCheckpoint

\* The follow-ups the turn takes leave the pending queue.
LEMMA TakenHist ==
  ASSUME Sound, UNCHANGED <<bus, fresh, waiting, sent>>, disk' = disk, Working, Working',
         NEW m, m \subseteq ToSet(queue), Rowed(turn'.out) = Rowed(turn.out) \cup m,
         Single(queue'), Users(queue') = Users(queue) \ m
  PROVE  UserInv'
<1>1. UserInv /\ Users(queue) = ToSet(queue)
  BY SoundFacts DEF Sound, HistInv
<1>2. Taken' = Taken \cup m
  BY DEF Taken
<1>3. Everyone' \subseteq Everyone
  BY <1>1, <1>2 DEF Everyone
<1>4. Apart(Users(bus'), Users(fresh'), Users(waiting'), Users(queue'), Taken', Rowed(disk'.rows))
  BY <1>1, <1>2 DEF UserInv, Apart
<1>5. Single(bus') /\ Single(fresh') /\ Single(waiting') /\ disk'.jnl \cap Rowed(disk'.rows) = {}
  BY <1>1 DEF UserInv
<1> QED BY <1>1, <1>3, <1>4, <1>5, UserStep

LEMMA CallToolsHist == Sound /\ CallTools => HistInv'
<1> SUFFICES ASSUME Sound, CallTools PROVE HistInv'
  OBVIOUS
<1> DEFINE k == turn.k + 1
           out == Append(turn.out, <<"call", turn.n, k>>)
<1>1. /\ turn.at = "model" /\ SaveCheckpoint(<<"awaiting_tools", turn.n, k>>)
      /\ UNCHANGED <<up, turns, bus, fresh, waiting, queue, sent>>
      /\ turn' = [turn EXCEPT !.at = "tools", !.k = @ + 1,
                          !.out = Append(@, <<"call", turn.n, turn.k + 1>>)]
  BY DEF CallTools, tasks, counts
<1>2. /\ turn.k \in Nat /\ turn.n \in Nat /\ IsTurn(turn) /\ IsSeq(turn.out) /\ UserInv /\ OutInv
  BY SoundFacts DEF Sound, Known, IInv, Shape, TypeInv, TurnTyped, RestTyped, HistInv
<1>3. turn'.at = "tools" /\ turn'.k = k /\ turn'.n = turn.n /\ turn'.out = out
  BY <1>1, <1>2 DEF IsTurn
<1>4. /\ Once(out) /\ Paired(Append(out, <<"result", turn.n, k>>))
      /\ ToSet(out) = ToSet(turn.out) \cup {<<"call", turn.n, k>>}
      /\ Rowed(out) = Rowed(turn.out)
  <2>1. k = turn.k + 1
    OBVIOUS
  <2> HIDE DEF k
  <2> QED BY <1>1, <1>2, <2>1, CallRows
<1>5. <<"awaiting_tools", turn.n, k>> \in Chk
  BY <1>2 DEF Chk
<1>6. Working /\ Working'
  BY <1>1, <1>3 DEF Working
<1> DEFINE call == <<"call", turn.n, k>>
<1>7. call[1] = "call" /\ call[2] = turn.n /\ call[3] = k
  OBVIOUS
<1>8. k \in Nat /\ k \in 1 .. k /\ 1 .. turn.k \subseteq 1 .. k /\ turn.k < k
      /\ \A i \in 1 .. turn.k : i < k
  BY <1>2
<1> HIDE DEF k, out
<1>9. SessInv' /\ disk' = disk
  BY <1>1, <1>5, <1>6, CheckpointHist
<1>10. \A r \in ToSet(out) :
         \/ r[1] = "user"
         \/ /\ r[1] \in {"call", "result", "answer"} /\ r[2] = turn.n /\ r[3] \in 1 .. k
            /\ r[1] = "result" => r[3] < k
  <2>1. call \notin {} /\ \A r \in ToSet(out) : r \in ToSet(turn.out) \/ r = call
    BY <1>4
  <2> HIDE DEF call
  <2> QED BY <1>2, <1>6, <1>7, <1>8, <2>1 DEF OutInv
<1>11. OutInv'
  BY <1>1, <1>2, <1>3, <1>4, <1>6, <1>9, <1>10 DEF OutInv, Expected
<1>12. UserInv'
  <2> PICK m : m = {}
    OBVIOUS
  <2>1. /\ Rowed(turn'.out) = Rowed(turn.out) \cup m /\ Single(queue') /\ Users(queue') = Users(queue) \ m
        /\ m \subseteq ToSet(queue)
    BY <1>1, <1>2, <1>3, <1>4 DEF UserInv
  <2> QED BY <1>1, <1>6, <1>9, <2>1, TakenHist
<1> QED BY <1>9, <1>11, <1>12 DEF HistInv

LEMMA OneMore ==
  ASSUME NEW o, IsSeq(o), Once(o), NEW r, r \notin ToSet(o)
  PROVE  /\ IsSeq(Append(o, r)) /\ ToSet(Append(o, r)) = ToSet(o) \cup {r} /\ Once(Append(o, r))
         /\ Paired(o) /\ r[1] \notin {"call", "result", "broken"} => Paired(Append(o, r))
<1>1. PICK one : one = <<r>>
  OBVIOUS
<1>2. IsSeq(one) /\ Append(o, r) = o \o one
  BY <1>1, AppendOne
<1>3. ToSet(one) = {r} /\ Once(one) /\ (r[1] \notin {"call", "result", "broken"} => Paired(one))
  <2>1. ToSet(<<r>>) = {r} /\ Once(<<r>>) /\ (r[1] \notin {"call", "result", "broken"} => Paired(<<r>>))
    BY TwoElements, OneRow
  <2> QED BY <1>1, <2>1
<1>4. Once(o \o one)
  <2>1. \A x \in ToSet(o) \cap ToSet(one) : x = Closed
    BY <1>3
  <2>2. IsSeq(one) /\ Once(one)
    BY <1>2, <1>3
  <2> QED BY <2>1, <2>2, OnceConcat
<1>5. ASSUME Paired(o), r[1] \notin {"call", "result", "broken"} PROVE Paired(o \o one)
  <2>1. IsSeq(one) /\ Paired(one)
    BY <1>2, <1>3, <1>5
  <2> QED BY <1>5, <2>1, PairedConcat
<1>6. IsSeq(Append(o, r)) /\ ToSet(Append(o, r)) = ToSet(o) \cup {r}
  BY AppendIsSeq
<1> QED BY <1>2, <1>4, <1>5, <1>6

\* The turn takes a step and what is in its queue.
LEMMA StepAndInject ==
  ASSUME Sound, Working, NEW o, IsSeq(o), Once(o), Paired(o), Rowed(o) = Rowed(turn.out)
  PROVE  /\ Once(o \o Inject) /\ Paired(o \o Inject)
         /\ \A r \in ToSet(o \o Inject) : r \in ToSet(o) \/ r[1] = "user"
         /\ Rowed(o \o Inject) = Rowed(turn.out) \cup ToSet(queue)
<1>1. UserInv /\ Users(queue) = ToSet(queue) /\ IsSeq(queue)
  BY SoundFacts DEF Sound, HistInv
<1>2. ASSUME NEW i \in DOMAIN queue, NEW j \in DOMAIN queue, queue[i] = queue[j] PROVE i = j
  <2>1. queue[i] \in ToSet(queue)
    BY DEF ToSet
  <2>2. queue[i].kind = "user"
    BY <1>1, <2>1 DEF Users
  <2> QED BY <1>1, <1>2, <2>2 DEF UserInv, Single
<1>3. Rowed(o) \cap ToSet(queue) = {}
  BY <1>1 DEF UserInv, Apart, Taken
<1>4. \A i, j \in DOMAIN queue : queue[i] = queue[j] => i = j
  BY <1>2
<1>5. /\ Once(o \o Inject) /\ Paired(o \o Inject)
      /\ \A r \in ToSet(o \o Inject) : r \in ToSet(o) \/ r[1] = "user"
      /\ Rowed(o \o Inject) = Rowed(o) \cup ToSet(queue)
  BY <1>1, <1>3, <1>4, InjectMore
<1> QED BY <1>5

LEMMA FinishToolsHist == Sound /\ FinishTools => HistInv'
<1> SUFFICES ASSUME Sound, FinishTools PROVE HistInv'
  OBVIOUS
<1> DEFINE k == turn.k
           row == <<"result", turn.n, k>>
           o == Append(turn.out, row)
<1>1. /\ turn.at = "tools" /\ SaveCheckpoint(<<"tools_completed", turn.n, k>>) /\ queue' = <<>>
      /\ UNCHANGED <<up, turns, bus, fresh, waiting, sent>>
      /\ turn' = [turn EXCEPT !.at = "model", !.out = Append(@, <<"result", turn.n, turn.k>>) \o Inject]
  BY DEF FinishTools, tasks, counts
<1>2. /\ turn.k \in Nat /\ turn.n \in Nat /\ IsTurn(turn) /\ IsSeq(turn.out) /\ UserInv /\ OutInv
  BY SoundFacts DEF Sound, Known, IInv, Shape, TypeInv, TurnTyped, RestTyped, HistInv
<1>3. turn'.at = "model" /\ turn'.k = k /\ turn'.n = turn.n /\ turn'.out = o \o Inject
  BY <1>1, <1>2 DEF IsTurn
<1>4. Working /\ Working'
  BY <1>1, <1>3 DEF Working
<1>5. <<"tools_completed", turn.n, k>> \in Chk
  BY <1>2 DEF Chk
<1>6. SessInv' /\ disk' = disk
  BY <1>1, <1>4, <1>5, CheckpointHist
<1>7. row[1] = "result" /\ row[2] = turn.n /\ row[3] = k
  OBVIOUS
<1>8. Once(turn.out) /\ Paired(o) /\ row \notin ToSet(turn.out)
  BY <1>1, <1>2, <1>4, <1>7 DEF OutInv, Expected
<1> HIDE DEF row
<1>9. IsSeq(o) /\ Once(o) /\ ToSet(o) = ToSet(turn.out) \cup {row}
  BY <1>2, <1>8, OneMore
<1>10. Rowed(o) = Rowed(turn.out)
  BY <1>7, <1>9 DEF Rowed
<1> HIDE DEF o
<1>11. /\ Once(o \o Inject) /\ Paired(o \o Inject)
       /\ \A r \in ToSet(o \o Inject) : r \in ToSet(o) \/ r[1] = "user"
       /\ Rowed(o \o Inject) = Rowed(turn.out) \cup ToSet(queue)
  BY <1>4, <1>8, <1>9, <1>10, StepAndInject
<1> DEFINE all == o \o Inject
<1>12. \A r \in ToSet(all) : r \in ToSet(turn.out) \/ r = row \/ r[1] = "user"
  BY <1>9, <1>11
<1>13. turn.k > 0
  <2>1. Len(o) \in Nat /\ Len(o) > 0
    <3>1. turn.out \in Seq(ToSet(turn.out) \cup {row})
      BY <1>2 DEF IsSeq
    <3> QED BY <3>1 DEF o
  <2>2. o[Len(o)] = row /\ Len(o) \in DOMAIN o
    <3>1. turn.out \in Seq(ToSet(turn.out) \cup {row})
      BY <1>2 DEF IsSeq
    <3> QED BY <3>1 DEF o
  <2>3. Len(o) > 1 /\ o[Len(o) - 1] = <<"call", row[2], row[3]>>
    BY <1>7, <1>8, <2>2 DEF Paired
  <2> DEFINE call == <<"call", row[2], row[3]>>
  <2>4. call[1] = "call" /\ call[3] = k
    BY <1>7
  <2>5. call \in ToSet(o)
    <3>1. Len(o) - 1 \in DOMAIN o
      BY <1>9, <2>1, <2>3 DEF IsSeq
    <3> QED BY <2>3, <3>1 DEF ToSet
  <2> HIDE DEF call
  <2>6. call \in ToSet(turn.out)
    BY <1>7, <1>9, <2>4, <2>5
  <2>7. k \in 1 .. k
    BY <1>2, <1>4, <2>4, <2>6 DEF OutInv
  <2> QED BY <1>2, <2>7
<1> HIDE DEF all
<1>14. \A r \in ToSet(all) :
         r[1] = "user" \/ (r[1] \in {"call", "result", "answer"} /\ r[2] = turn.n /\ r[3] \in 1 .. k)
  <2>1. k \in 1 .. k
    BY <1>2, <1>13
  <2> QED BY <1>2, <1>4, <1>7, <1>12, <2>1 DEF OutInv
<1>15. OutInv'
  BY <1>1, <1>2, <1>3, <1>4, <1>6, <1>11, <1>14 DEF OutInv, Expected, all
<1>16. UserInv'
  <2> PICK m : m = ToSet(queue)
    OBVIOUS
  <2>1. Rowed(turn'.out) = Rowed(turn.out) \cup m /\ m \subseteq ToSet(queue)
    BY <1>3, <1>11
  <2>2. Single(queue') /\ Users(queue') = Users(queue) \ m
    BY <1>1, EmptyUsers, SoundFacts
  <2> QED BY <1>1, <1>4, <1>6, <2>1, <2>2, TakenHist
<1> QED BY <1>6, <1>15, <1>16 DEF HistInv

LEMMA AnswerHist == Sound /\ Answer => HistInv'
<1> SUFFICES ASSUME Sound, Answer PROVE HistInv'
  OBVIOUS
<1> DEFINE k == turn.k + 1
           row == <<"answer", turn.n, k>>
           o == Append(turn.out, row)
           m == IF turn.k < MaxSteps THEN ToSet(queue) ELSE {}
<1>1. /\ turn.at = "model" /\ SaveCheckpoint(<<"final_response", turn.n, k>>)
      /\ queue' = IF turn.k < MaxSteps THEN <<>> ELSE queue
      /\ UNCHANGED <<up, turns, bus, fresh, waiting, sent>>
      /\ turn' = [turn EXCEPT
                    !.k = @ + 1,
                    !.at = IF queue # <<>> /\ turn.k < MaxSteps THEN "model" ELSE "answered",
                    !.out = Append(@, <<"answer", turn.n, turn.k + 1>>) \o
                              (IF turn.k < MaxSteps THEN Inject ELSE <<>>)]
  BY DEF Answer, tasks, counts
<1>2. /\ turn.k \in Nat /\ turn.n \in Nat /\ IsTurn(turn) /\ IsSeq(turn.out) /\ UserInv /\ OutInv
  BY SoundFacts DEF Sound, Known, IInv, Shape, TypeInv, TurnTyped, RestTyped, HistInv
<1>3. /\ turn'.at \in {"model", "answered"} /\ turn'.k = k /\ turn'.n = turn.n
      /\ turn'.out = o \o (IF turn.k < MaxSteps THEN Inject ELSE <<>>)
  BY <1>1, <1>2 DEF IsTurn
<1>4. Working /\ Working'
  BY <1>1, <1>3 DEF Working
<1>5. <<"final_response", turn.n, k>> \in Chk
  BY <1>2 DEF Chk
<1>6. k \in 1 .. k /\ k \notin 1 .. turn.k /\ 1 .. turn.k \subseteq 1 .. k
  BY <1>2
<1>7. row[1] = "answer" /\ row[2] = turn.n /\ row[3] = k
  OBVIOUS
<1> HIDE DEF row, k
<1>8. SessInv' /\ disk' = disk
  BY <1>1, <1>4, <1>5, CheckpointHist
<1>9. Once(turn.out) /\ Paired(turn.out) /\ row \notin ToSet(turn.out)
  BY <1>1, <1>2, <1>4, <1>6, <1>7 DEF OutInv, Expected
<1>10. IsSeq(o) /\ Once(o) /\ Paired(o) /\ ToSet(o) = ToSet(turn.out) \cup {row}
  BY <1>2, <1>7, <1>9, OneMore
<1>11. Rowed(o) = Rowed(turn.out)
  BY <1>7, <1>10 DEF Rowed
<1> HIDE DEF o
<1> DEFINE all == o \o (IF turn.k < MaxSteps THEN Inject ELSE <<>>)
<1>12. /\ Once(all) /\ Paired(all)
       /\ \A r \in ToSet(all) : r \in ToSet(o) \/ r[1] = "user"
       /\ Rowed(all) = Rowed(turn.out) \cup m
  <2>1. CASE turn.k < MaxSteps
    <3>1. all = o \o Inject /\ m = ToSet(queue)
      BY <2>1
    <3>2. /\ Once(o \o Inject) /\ Paired(o \o Inject)
          /\ \A r \in ToSet(o \o Inject) : r \in ToSet(o) \/ r[1] = "user"
          /\ Rowed(o \o Inject) = Rowed(turn.out) \cup ToSet(queue)
      BY <1>4, <1>10, <1>11, StepAndInject
    <3> QED BY <3>1, <3>2
  <2>2. CASE ~(turn.k < MaxSteps)
    <3>1. all = o \o <<>> /\ m = {}
      BY <2>2
    <3>2. o \o <<>> = o
      BY <1>10 DEF IsSeq
    <3>3. all = o
      BY <3>1, <3>2
    <3> QED BY <1>10, <1>11, <3>1, <3>3
  <2> QED BY <2>1, <2>2
<1>13. turn'.out = all
  BY <1>3
<1> HIDE DEF all
<1>14. \A r \in ToSet(all) :
         r[1] = "user" \/ (r[1] \in {"call", "result", "answer"} /\ r[2] = turn.n /\ r[3] \in 1 .. k)
  BY <1>2, <1>4, <1>6, <1>7, <1>10, <1>12 DEF OutInv
<1>15. OutInv'
  BY <1>1, <1>2, <1>3, <1>4, <1>8, <1>12, <1>13, <1>14 DEF OutInv, Expected
<1>16. UserInv'
  <2>1. m \subseteq ToSet(queue) /\ Single(queue') /\ Users(queue') = Users(queue) \ m
    BY <1>1, <1>2, EmptyUsers, SoundFacts DEF UserInv
  <2>2. Rowed(turn'.out) = Rowed(turn.out) \cup m
    BY <1>12, <1>13
  <2> HIDE DEF m
  <2> QED BY <1>1, <1>4, <1>8, <2>1, <2>2, TakenHist
<1> QED BY <1>8, <1>15, <1>16 DEF HistInv

LEMMA CommitHist == Sound /\ Commit => HistInv'
<1> SUFFICES ASSUME Sound, Commit PROVE HistInv'
  OBVIOUS
<1> DEFINE t == CommitTurn(mem, turn.out)
<1>1. /\ turn.at = "answered" /\ mem' = t /\ disk' = t /\ side' = NoChk
      /\ turn' = [turn EXCEPT !.at = "committed"]
      /\ UNCHANGED <<up, turns, sent, bus, fresh, waiting, queue>>
  BY DEF Commit, Save, tasks, counts
<1>2. /\ UserInv /\ OutInv /\ SessInv /\ Working /\ up /\ IsTurn(turn) /\ turns \in Nat
      /\ IsSession(mem) /\ IsSeq(turn.out)
  <2>1. Working
    BY <1>1 DEF Working
  <2> QED BY <2>1, SoundFacts DEF Sound, Known, IInv, Shape, HistInv
<1>3. /\ mem.rows = disk.rows /\ mem.jnl = disk.jnl /\ RowsOK(mem.rows, turns)
      /\ IsSeq(mem.rows)
  BY <1>2 DEF SessInv, FilesInv, SessRows, IsSession
<1>4. /\ turn.n = turns /\ turn.n \in 1 .. turns /\ Clean(mem.rows, turn.n)
      /\ Once(turn.out) /\ Paired(turn.out)
      /\ \A r \in ToSet(turn.out) :
           r[1] = "user" \/ (r[1] \in {"call", "result", "answer"} /\ r[2] = turn.n)
  BY <1>1, <1>2, <1>3 DEF OutInv, Expected
<1>5. RowsOK(turn.out, turns)
  BY <1>4 DEF RowsOK, Steps
<1>6. Saved(mem.rows, turn.out) = turn.out
  <2>1. \A r \in ToSet(turn.out) : r[1] = "result" => r[2] = turn.n
    BY <1>4
  <2> QED BY <1>2, <1>4, <2>1, SavedAll
<1>7. /\ t.rows = mem.rows \o Saved(mem.rows, turn.out) /\ t.chk = NoChk
      /\ t.jnl = Unacked(mem, Saved(mem.rows, turn.out))
  BY <1>2, CommitRows
<1> HIDE DEF t
<1>8. Rowed(turn.out) \cap Rowed(mem.rows) = {}
  BY <1>2, <1>3 DEF UserInv, Apart, Taken
<1>9. ASSUME NEW r \in ToSet(mem.rows) \cap ToSet(turn.out) PROVE r = Closed
  <2>1. CASE r[1] = "user"
    <3>1. r[2] \in Rowed(mem.rows) /\ r[2] \in Rowed(turn.out)
      BY <2>1 DEF Rowed
    <3> QED BY <1>8, <3>1
  <2>2. CASE r[1] # "user"
    BY <1>4, <2>2 DEF Clean, Steps
  <2> QED BY <2>1, <2>2
<1>10. RowsOK(t.rows, turns) /\ Rowed(t.rows) = Rowed(mem.rows) \cup Rowed(turn.out)
  <2>1. \A r \in ToSet(mem.rows) \cap ToSet(turn.out) : r = Closed
    BY <1>9
  <2>2. /\ RowsOK(mem.rows \o turn.out, turns)
        /\ Rowed(mem.rows \o turn.out) = Rowed(mem.rows) \cup Rowed(turn.out)
    BY <1>2, <1>3, <1>5, <2>1, RowsConcat
  <2> QED BY <1>6, <1>7, <2>2
<1>11. SessInv'
  <2>1. Loaded' = t
    BY <1>1 DEF Loaded
  <2>2. SessRows(t, turns)
    BY <1>7, <1>10 DEF SessRows
  <2> QED BY <1>1, <1>2, <2>1, <2>2 DEF SessInv, FilesInv
<1>12. OutInv' /\ Taken' = {}
  <2>1. turn'.at = "committed"
    BY <1>1, <1>2 DEF IsTurn
  <2> QED BY <2>1, NoTurnOut
<1>13. t.jnl \subseteq disk.jnl /\ t.jnl \cap Rowed(turn.out) = {}
  <2>1. t.jnl = {x \in mem.jnl : <<"user", x>> \notin ToSet(turn.out)}
    BY <1>6, <1>7 DEF Unacked
  <2>2. ASSUME NEW x \in Rowed(turn.out) PROVE <<"user", x>> \in ToSet(turn.out)
    <3>1. PICK r \in ToSet(turn.out) : r[1] = "user" /\ r[2] = x
      BY <2>2 DEF Rowed
    <3>2. r = <<"user", r[2]>>
      BY <3>1, UserRow DEF Sound, TypeInv, TurnTyped
    <3> QED BY <3>1, <3>2
  <2> QED BY <1>3, <2>1, <2>2
<1>14. Everyone' \subseteq Everyone
  BY <1>1, <1>2, <1>3, <1>10, <1>12, <1>13 DEF Everyone, Taken
<1>15. Apart(Users(bus'), Users(fresh'), Users(waiting'), Users(queue'), Taken', Rowed(disk'.rows))
  BY <1>1, <1>2, <1>3, <1>10, <1>12 DEF UserInv, Apart, Taken
<1>16. UserInv'
  <2>1. /\ Single(bus') /\ Single(fresh') /\ Single(waiting') /\ Single(queue') /\ sent' = sent
        /\ disk'.jnl \cap Rowed(disk'.rows) = {}
    BY <1>1, <1>2, <1>3, <1>10, <1>13 DEF UserInv
  <2> QED BY <1>2, <1>14, <1>15, <2>1, UserStep
<1> QED BY <1>11, <1>12, <1>16 DEF HistInv

\* The turn is over and the session becomes another.
LEMMA EndHist ==
  ASSUME Sound, up, up', turns' = turns, sent' = sent, Release, bus' = bus \o queue,
         NEW s, SavedAs(s), Becomes(mem, s),
         Single(fresh') /\ Users(fresh') \subseteq Users(fresh),
         Single(waiting') /\ Users(waiting') \subseteq Users(waiting)
  PROVE  HistInv'
<1>1. SessInv' /\ Rowed(disk'.rows) = Rowed(disk.rows) /\ disk'.jnl = disk.jnl
  BY BecomesHist
<1>2. UserInv /\ IsSeq(bus) /\ Single(bus)
  BY SoundFacts DEF Sound, HistInv, UserInv
<1>3. /\ Single(bus') /\ Users(bus') = Users(bus) \cup Users(queue)
      /\ OutInv' /\ Taken' = {} /\ Single(queue') /\ Users(queue') = {}
  BY <1>2, BackOnBus
<1>4. Everyone' \subseteq Everyone
  BY <1>1, <1>3 DEF Everyone
<1>5. Apart(Users(bus'), Users(fresh'), Users(waiting'), Users(queue'), Taken', Rowed(disk'.rows))
  BY <1>1, <1>2, <1>3 DEF UserInv, Apart
<1>6. disk'.jnl \cap Rowed(disk'.rows) = {}
  BY <1>1, <1>2 DEF UserInv
<1>7. UserInv'
  BY <1>2, <1>3, <1>4, <1>5, <1>6, UserStep
<1> QED BY <1>1, <1>3, <1>7 DEF HistInv

LEMMA EndTurnHist == Sound /\ (EndTurn \/ TurnRaises \/ Stop) => HistInv'
<1> SUFFICES ASSUME Sound, EndTurn \/ TurnRaises \/ Stop PROVE HistInv'
  OBVIOUS
<1>1. /\ Release /\ bus' = bus \o queue /\ UNCHANGED <<up, turns, sent>>
      /\ (fresh' = fresh /\ waiting' = waiting) \/ (fresh' = <<>> /\ waiting' = <<>>)
  BY DEF EndTurn, TurnRaises, Stop, counts
<1>2. up
  BY SoundFacts DEF EndTurn, TurnRaises, Stop, Active
<1>3. IsSession(mem) /\ Single(fresh) /\ Single(waiting)
  BY SoundFacts DEF Sound, HistInv, UserInv
<1>4. /\ Single(fresh') /\ Users(fresh') \subseteq Users(fresh)
      /\ Single(waiting') /\ Users(waiting') \subseteq Users(waiting)
  BY <1>1, <1>3, EmptyUsers
<1>5. PICK s : SavedAs(s) /\ Becomes(mem, s)
  <2>1. Becomes(mem, Resolve(mem)) /\ Becomes(mem, RestoreChk(mem)) /\ Becomes(mem, mem)
    BY <1>3, ResolveData, SameBecomes, RestoreChkBecomes, ClosesSelf DEF Becomes
  <2>2. CASE EndTurn \/ TurnRaises
    <3>1. SavedAs(Resolve(mem))
      BY <2>2 DEF EndTurn, TurnRaises, Save, SavedAs, files
    <3> QED BY <2>1, <3>1
  <2>3. CASE Stop
    <3>1. SavedAs(RestoreChk(mem)) \/ SavedAs(mem)
      BY <2>3 DEF Stop, Save, SavedAs, files
    <3> QED BY <2>1, <3>1
  <2> QED BY <2>2, <2>3
<1> QED BY <1>1, <1>2, <1>4, <1>5, EndHist

\* The tasks and the turn stay as they are; so does the history while a turn
\* works.
LEMMA PlacesHist ==
  ASSUME Sound, SessInv', UNCHANGED <<turn, turns, sent, fresh, waiting, queue>>,
         Single(bus'), Users(bus') = Users(bus),
         Rowed(disk'.rows) = Rowed(disk.rows), disk'.jnl = disk.jnl,
         Working => disk'.rows = disk.rows
  PROVE  HistInv'
<1>1. UserInv /\ OutInv
  BY DEF Sound, HistInv
<1>2. OutInv' /\ Taken' = Taken
  BY <1>1 DEF OutInv, Working, Expected, Taken
<1>3. Everyone' \subseteq Everyone
  BY <1>2 DEF Everyone
<1>4. Apart(Users(bus'), Users(fresh'), Users(waiting'), Users(queue'), Taken', Rowed(disk'.rows))
  BY <1>1, <1>2 DEF UserInv, Apart
<1>5. /\ Single(fresh') /\ Single(waiting') /\ Single(queue') /\ sent' = sent
      /\ disk'.jnl \cap Rowed(disk'.rows) = {}
  BY <1>1 DEF UserInv
<1>6. UserInv'
  BY <1>1, <1>3, <1>4, <1>5, UserStep
<1> QED BY <1>2, <1>6 DEF HistInv

LEMMA ChoiceHist == ~AnyDismiss /\ Sound /\ (Continue \/ Dismiss) => HistInv'
<1> SUFFICES ASSUME ~AnyDismiss, Sound, Continue \/ Dismiss PROVE HistInv'
  OBVIOUS
<1>1. /\ mem.rec.status = "awaiting_user" /\ up
      /\ UNCHANGED <<up, turn, turns, sent, fresh, waiting, queue>>
  BY DEF Continue, Dismiss, tasks, counts
<1>2. ~Active
  <2>1. mem.rec.status # "awaiting_user" \/ ~ContRuns
    BY DEF Sound, Known, ConsentInv
  <2> QED BY <1>1, <2>1, SoundFacts DEF Pending
<1>3. PICK s : SavedAs(s) /\ Becomes(mem, s)
  <2>0. IsSession(mem)
    BY SoundFacts
  <2>1. CASE Continue
    <3> DEFINE c == [mem EXCEPT !.rec.status = "resuming", !.rec.count = Len(mem.rows)]
    <3>1. SavedAs(c)
      BY <2>1 DEF Continue, Save, SavedAs
    <3>2. Becomes(mem, c)
      <4>1. SameData(mem, c)
        BY <2>0, ContinueData
      <4> HIDE DEF c
      <4> QED BY <2>0, <4>1, SameBecomes
    <3> QED BY <3>1, <3>2
  <2>2. CASE Dismiss
    <3> DEFINE d == SetStatus(RestorePending(RestoreChk(mem)), "recovered")
    <3>1. SavedAs(d)
      BY <2>2 DEF Dismiss, Save, SavedAs
    <3>2. Becomes(mem, d)
      BY <2>0, DismissBecomes
    <3> QED BY <3>1, <3>2
  <2> QED BY <2>1, <2>2
<1>4. SessInv' /\ Rowed(disk'.rows) = Rowed(disk.rows) /\ disk'.jnl = disk.jnl
  BY <1>1, <1>3, BecomesHist
<1>5. Single(bus') /\ Users(bus') = Users(bus)
  <2>0. IsSeq(bus) /\ Single(bus)
    BY SoundFacts DEF Sound, HistInv, UserInv
  <2>1. CASE bus' = bus
    BY <2>0, <2>1
  <2>2. CASE bus' = Append(bus, Cont(mem.rec.id))
    <3> DEFINE x == Cont(mem.rec.id)
    <3>1. x.kind = "cont"
      BY DEF Cont
    <3> HIDE DEF x
    <3>2. /\ Single(Append(bus, x))
          /\ Users(Append(bus, x)) = Users(bus) \cup (IF x.kind = "user" THEN {x} ELSE {})
      <4>1. x.kind = "user" => x \notin Users(bus)
        BY <3>1
      <4> QED BY <2>0, <4>1, AppendUsers
    <3> QED BY <2>2, <3>1, <3>2 DEF x
  <2> QED BY <2>1, <2>2 DEF Continue, Dismiss, tasks
<1> QED BY <1>1, <1>2, <1>4, <1>5, PlacesHist, SoundFacts

LEMMA QuietHist == Sound /\ (WriteTurnEnd \/ WriteHandle \/ UNCHANGED vars) => HistInv'
<1> SUFFICES ASSUME Sound, WriteTurnEnd \/ WriteHandle \/ UNCHANGED vars PROVE HistInv'
  OBVIOUS
<1>1. /\ UNCHANGED <<up, mem, disk, bus, fresh, waiting, turn, queue, turns, sent>>
      /\ side' = side \/ side' = NoChk
  BY DEF WriteTurnEnd, WriteHandle, vars, files, tasks, counts
<1>2. SessInv /\ Single(bus)
  BY DEF Sound, HistInv, UserInv
<1>3. Loaded' = Loaded \/ Loaded' = disk
  BY <1>1 DEF Loaded
<1>4. SessInv'
  BY <1>1, <1>2, <1>3 DEF SessInv, FilesInv
<1> QED BY <1>1, <1>2, <1>4, PlacesHist

LEMMA DownHist == Sound /\ (Crash \/ Shutdown) => HistInv'
<1> SUFFICES ASSUME Sound, Crash \/ Shutdown PROVE HistInv'
  OBVIOUS
<1>1. /\ Release /\ up /\ up' = FALSE /\ mem' = NewSession /\ UNCHANGED <<turns, sent>>
      /\ bus' = <<>> /\ fresh' = <<>> /\ waiting' = <<>>
      /\ (disk' = disk /\ side' = side) \/ (disk' = mem /\ side' = NoChk)
  BY DEF Crash, Shutdown, Down, files, counts
<1>2. SessInv /\ UserInv /\ mem.rows = disk.rows /\ mem.jnl = disk.jnl /\ SessRows(mem, turns)
  BY <1>1 DEF Sound, HistInv, SessInv, FilesInv
<1>3. /\ disk'.rows = disk.rows /\ disk'.jnl = disk.jnl
      /\ (disk' = disk /\ Loaded' = Loaded) \/ (disk' = mem /\ Loaded' = mem)
  BY <1>1, <1>2 DEF Loaded
<1>4. SessInv'
  BY <1>1, <1>2, <1>3 DEF SessInv, FilesInv
<1>5. OutInv' /\ Taken' = {} /\ queue' = <<>>
  BY <1>1, ReleaseAt, NoTurnOut DEF Release
<1>6. UserInv'
  BY <1>1, <1>2, <1>3, <1>5, EmptyUsers DEF UserInv, Apart, Everyone
<1> QED BY <1>4, <1>5, <1>6 DEF HistInv

LEMMA StartHist == Sound /\ Start => HistInv'
<1> SUFFICES ASSUME Sound, Start PROVE HistInv'
  OBVIOUS
<1>1. /\ ~up /\ up' = TRUE /\ UNCHANGED <<fresh, waiting, turn, queue, sent, turns>>
      /\ IF NeedsRecovery
         THEN /\ IF Recovered(Loaded) # Loaded THEN Save(Recovered(Loaded))
                 ELSE mem' = Loaded /\ UNCHANGED files
              /\ bus' \in Requeued(Loaded.jnl)
         ELSE mem' = Loaded /\ UNCHANGED files /\ bus' = bus
  BY DEF Start, history
<1>2. /\ SessInv /\ UserInv /\ OutInv /\ IsSession(disk) /\ SessionOK(disk) /\ side \in Chk
      /\ JournalOK(disk)
  BY SoundFacts DEF Sound, HistInv, TypeInv, SessionsTyped, Known, ConsentInv
<1>3. /\ IsSession(Loaded) /\ Loaded.rows = disk.rows /\ Loaded.jnl = disk.jnl /\ Loaded.chk \in Chk
      /\ SessRows(Loaded, turns)
  BY <1>2 DEF Loaded, IsSession, SessionOK, SessInv
<1>4. Becomes(Loaded, Recovered(Loaded)) /\ Becomes(Loaded, Loaded)
  BY <1>3, RecoveredBecomes, ClosesSelf DEF Becomes
<1> DEFINE l == Loaded
           s == mem'
<1>5. Becomes(l, s) /\ ((disk' = s /\ Loaded' = s) \/ (disk' = disk /\ Loaded' = l /\ s = l))
  BY <1>1, <1>4 DEF Save, Loaded, files
<1> HIDE DEF l, s
<1>6. SessRows(s, turns) /\ Rowed(s.rows) = Rowed(disk.rows) /\ s.jnl = disk.jnl
  <2>1. IsSession(l) /\ l.chk \in Chk /\ SessRows(l, turns)
    BY <1>3 DEF l
  <2>2. SessRows(s, turns) /\ Rowed(s.rows) = Rowed(l.rows) /\ s.jnl = l.jnl
    BY <1>5, <2>1, BecomesRows
  <2> QED BY <1>3, <2>2 DEF l
<1>7. Rowed(disk'.rows) = Rowed(disk.rows) /\ disk'.jnl = disk.jnl
  BY <1>5, <1>6
<1>8. SessInv'
  <2>1. SessRows(disk', turns) /\ SessRows(Loaded', turns) /\ mem' = s
    BY <1>2, <1>3, <1>5, <1>6 DEF SessInv, l, s
  <2>2. mem'.rows = disk'.rows /\ mem'.jnl = disk'.jnl
    BY <1>3, <1>5 DEF l, s
  <2> QED BY <1>1, <1>6, <2>1, <2>2 DEF SessInv, FilesInv
<1>9. ~Active /\ fresh = <<>> /\ waiting = <<>> /\ queue = <<>>
  BY <1>1 DEF Sound, Known, IInv, Shape, TypeInv, TurnTyped
<1>10. OutInv' /\ Taken' = {}
  BY <1>1, <1>9 DEF OutInv, Working, Taken, Active
<1>11. Single(bus') /\ (Users(bus') \subseteq disk.jnl \/ bus' = bus)
  <2>1. CASE NeedsRecovery
    <3>1. JournalOK(l) /\ l.jnl \subseteq Msg /\ bus' \in Requeued(l.jnl) /\ l.jnl = disk.jnl
      BY <1>1, <1>2, <1>3, <2>1 DEF JournalOK, SessionOK, l
    <3> QED BY <3>1, RequeuedUsers
  <2>2. CASE ~NeedsRecovery
    BY <1>1, <1>2, <2>2 DEF UserInv
  <2> QED BY <2>1, <2>2
<1>12. Users(fresh') = {} /\ Users(waiting') = {} /\ Users(queue') = {}
       /\ Single(fresh') /\ Single(waiting') /\ Single(queue')
  BY <1>1, <1>9, EmptyUsers
<1>13. Everyone' \subseteq Everyone
  BY <1>7, <1>10, <1>11, <1>12 DEF Everyone
<1>14. Apart(Users(bus'), Users(fresh'), Users(waiting'), Users(queue'), Taken', Rowed(disk'.rows))
  BY <1>2, <1>7, <1>10, <1>11, <1>12 DEF UserInv, Apart
<1>15. UserInv'
  <2>1. disk'.jnl \cap Rowed(disk'.rows) = {} /\ sent' = sent
    BY <1>1, <1>2, <1>7 DEF UserInv
  <2> QED BY <1>2, <1>11, <1>12, <1>13, <1>14, <2>1, UserStep
<1> QED BY <1>8, <1>10, <1>15 DEF HistInv

LEMMA InitHist == Init => HistInv
<1> SUFFICES ASSUME Init PROVE HistInv
  OBVIOUS
<1>1. /\ up = TRUE /\ mem = NewSession /\ disk = NewSession /\ side = NoChk /\ turn.at = "idle"
      /\ bus = <<>> /\ fresh = <<>> /\ waiting = <<>> /\ queue = <<>> /\ turns = 0 /\ sent = 0
  BY DEF Init, Idle
<1>2. NewSession.rows = <<>> /\ NewSession.chk = NoChk /\ NewSession.jnl = {}
  BY DEF NewSession
<1>3. DOMAIN <<>> = {} /\ ToSet(<<>>) = {}
  BY EmptyIsSeq
<1>4. SessRows(NewSession, 0) /\ Rowed(<<>>) = {}
  BY <1>2, <1>3 DEF SessRows, RowsOK, Once, Paired, Rowed
<1>5. Loaded = disk
  BY <1>1 DEF Loaded
<1>6. SessInv
  BY <1>1, <1>4, <1>5 DEF SessInv, FilesInv
<1>7. OutInv /\ Taken = {}
  BY <1>1 DEF OutInv, Working, Taken
<1>8. UserInv
  BY <1>1, <1>2, <1>4, <1>7, EmptyUsers DEF UserInv, Apart, Everyone
<1> QED BY <1>6, <1>7, <1>8 DEF HistInv

LEMMA NextHist == ~AnyDismiss /\ Sound /\ [Next]_vars => HistInv'
BY SendHist, SpawnHist, FollowUpHist, OvertakeHist, RefuseHist, StartTaskHist, BeginHist,
   CallToolsHist, FinishToolsHist, AnswerHist, CommitHist, EndTurnHist, ChoiceHist, QuietHist,
   DownHist, StartHist
   DEF Next, Run, TurnStep

LEMMA HistAlways == ASSUME ~AnyDismiss PROVE Spec => []Sound
<1>1. Init => Sound
  BY InitIInv, InitConsent, InitTyped, InitHist
     DEF Sound, Known, MarkInv, Init, Marked, EndsWith, NewSession, AnsweredInv, Idle
<1>2. Sound /\ [Next]_vars => Sound'
  BY NextIInv, NextMarks, NextConsent, NextTyped, NextHist DEF Sound, Known
<1> QED BY <1>1, <1>2, PTL DEF Spec

\* No step of a turn and no message of the user is twice in the history, in
\* memory or in the file (restore_runtime_checkpoint, _save_turn and
\* _requeue_pending_followups), when a page dismisses only the recovery it shows.
THEOREM RowsStayOnce == ASSUME ~AnyDismiss PROVE Spec => []RowsOnce
<1>1. Sound => RowsOnce
  <2> SUFFICES ASSUME Sound PROVE RowsOnce
    OBVIOUS
  <2>1. Once(disk.rows) /\ (up => Once(mem.rows))
    BY DEF Sound, HistInv, SessInv, SessRows, RowsOK
  <2>2. CASE up
    BY <2>1, <2>2 DEF RowsOnce, Once
  <2>3. CASE ~up
    <3>1. mem.rows = <<>>
      BY <2>3 DEF Sound, HistInv, SessInv, FilesInv, NewSession
    <3> QED BY <2>1, <3>1 DEF RowsOnce, Once
  <2> QED BY <2>2, <2>3
<1> QED BY <1>1, HistAlways, PTL

\* Every tool call in the history has its result right behind it and every
\* result its call, however the turn ended.
THEOREM CallsKeepResults == ASSUME ~AnyDismiss PROVE Spec => []CallsHaveResults
<1>1. Sound => CallsHaveResults
  <2> SUFFICES ASSUME Sound PROVE CallsHaveResults
    OBVIOUS
  <2>1. CASE up
    BY <2>1 DEF Sound, HistInv, SessInv, SessRows, RowsOK, Paired, CallsHaveResults
  <2>2. CASE ~up
    <3>1. mem.rows = <<>>
      BY <2>2 DEF Sound, HistInv, SessInv, FilesInv, NewSession
    <3> QED BY <3>1 DEF CallsHaveResults
  <2> QED BY <2>1, <2>2
<1> QED BY <1>1, HistAlways, PTL
==============================================================================

----------------------------- MODULE QueueLemmas -----------------------------
(***************************************************************************)
(* What the operators on sequences leave behind, so that the proofs about   *)
(* components speak of the elements of a queue: first for queues without     *)
(* repetition, then for sequences whose elements have no common type.        *)
(***************************************************************************)
EXTENDS Naturals, SequencesExt, SequenceTheorems, TLAPS

(* An empty queue holds nothing.                                             *)
LEMMA EmptyQueue ==
    ASSUME NEW S
    PROVE  <<>> \in Seq(S) /\ IsInjective(<<>>) /\ ToSet(<<>>) = {}
BY DEF IsInjective, ToSet

(* Only an empty queue holds nothing.                                        *)
LEMMA EmptyToSet ==
    ASSUME NEW S, NEW q \in Seq(S), q # <<>>
    PROVE  /\ 1 \in DOMAIN q /\ q[1] \in ToSet(q) /\ Head(q) = q[1]
           /\ ToSet(q) \subseteq S
BY DEF ToSet

(* Every element of a queue is of its type.                                  *)
LEMMA ElementsTyped ==
    ASSUME NEW S, NEW q \in Seq(S)
    PROVE  ToSet(q) \subseteq S
BY DEF ToSet

(* Append adds a new last element.                                           *)
LEMMA AppendQueue ==
    ASSUME NEW S, NEW q \in Seq(S), IsInjective(q), NEW x \in S, x \notin ToSet(q)
    PROVE  /\ Append(q, x) \in Seq(S)
           /\ IsInjective(Append(q, x))
           /\ ToSet(Append(q, x)) = ToSet(q) \union {x}
           /\ q # <<>> => Append(q, x)[1] = q[1]
           /\ Append(q, x) # <<>>
           /\ q = <<>> => Append(q, x)[1] = x
<1> DEFINE r == Append(q, x)
<1>1. /\ r \in Seq(S) /\ Len(r) = Len(q) + 1 /\ Len(q) \in Nat
      /\ DOMAIN q = 1 .. Len(q) /\ DOMAIN r = 1 .. Len(q) + 1
      /\ \A i \in DOMAIN q : r[i] = q[i]
      /\ r[Len(q) + 1] = x
    OBVIOUS
<1>2. IsInjective(r)
    BY <1>1 DEF IsInjective, ToSet
<1>3. ToSet(r) = ToSet(q) \union {x}
    BY <1>1 DEF ToSet
<1>4. QED
    BY <1>1, <1>2, <1>3

(* Taking the head removes exactly that element.                             *)
LEMMA TailQueue ==
    ASSUME NEW S, NEW q \in Seq(S), IsInjective(q), q # <<>>
    PROVE  /\ Tail(q) \in Seq(S)
           /\ IsInjective(Tail(q))
           /\ ToSet(Tail(q)) = ToSet(q) \ {Head(q)}
           /\ Head(q) \in ToSet(q)
<1> DEFINE r == Tail(q)
<1>1. /\ r \in Seq(S) /\ Len(q) \in Nat \ {0} /\ Len(r) = Len(q) - 1
      /\ DOMAIN q = 1 .. Len(q) /\ DOMAIN r = 1 .. Len(q) - 1
      /\ \A i \in DOMAIN r : r[i] = q[i + 1]
      /\ Head(q) = q[1]
    OBVIOUS
<1>2. IsInjective(r)
    BY <1>1 DEF IsInjective
<1>3. ToSet(r) \subseteq ToSet(q) \ {Head(q)}
    BY <1>1 DEF ToSet, IsInjective
<1>4. ASSUME NEW i \in DOMAIN q, q[i] # Head(q) PROVE q[i] \in ToSet(r)
    <2>1. i - 1 \in DOMAIN r /\ r[i - 1] = q[i]
        BY <1>1, <1>4
    <2>2. QED
        BY <2>1 DEF ToSet
<1>5. ToSet(q) \ {Head(q)} \subseteq ToSet(r)
    BY <1>4 DEF ToSet
<1>6. QED
    BY <1>1, <1>2, <1>3, <1>5 DEF ToSet

(* Joining two queues with nothing in common.                                *)
LEMMA ConcatQueue ==
    ASSUME NEW S, NEW p \in Seq(S), NEW q \in Seq(S), IsInjective(p), IsInjective(q),
           ToSet(p) \intersect ToSet(q) = {}
    PROVE  /\ p \o q \in Seq(S)
           /\ IsInjective(p \o q)
           /\ ToSet(p \o q) = ToSet(p) \union ToSet(q)
<1> DEFINE r == p \o q
<1>1. /\ r \in Seq(S) /\ Len(p) \in Nat /\ Len(q) \in Nat
      /\ DOMAIN p = 1 .. Len(p) /\ DOMAIN q = 1 .. Len(q)
      /\ DOMAIN r = 1 .. Len(p) + Len(q)
      /\ \A i \in DOMAIN r : r[i] = IF i <= Len(p) THEN p[i] ELSE q[i - Len(p)]
    OBVIOUS
<1> HIDE DEF r
<1>2. ASSUME NEW i \in DOMAIN r
      PROVE  \/ i \in DOMAIN p /\ r[i] = p[i] /\ r[i] \in ToSet(p)
             \/ i - Len(p) \in DOMAIN q /\ r[i] = q[i - Len(p)] /\ r[i] \in ToSet(q)
    BY <1>1 DEF ToSet
<1>3. IsInjective(r)
    <2> SUFFICES ASSUME NEW i \in DOMAIN r, NEW j \in DOMAIN r, r[i] = r[j] PROVE i = j
        BY DEF IsInjective
    <2>1. i \in Nat /\ j \in Nat
        BY <1>1
    <2>2. CASE i \in DOMAIN p /\ r[i] = p[i] /\ r[i] \in ToSet(p)
        BY <1>2, <2>1, <2>2 DEF IsInjective
    <2>3. CASE i - Len(p) \in DOMAIN q /\ r[i] = q[i - Len(p)] /\ r[i] \in ToSet(q)
        <3>1. r[j] \notin ToSet(p)
            BY <2>3
        <3>2. j - Len(p) \in DOMAIN q /\ r[j] = q[j - Len(p)]
            BY <1>2, <3>1
        <3>3. i - Len(p) = j - Len(p)
            BY <2>3, <3>2 DEF IsInjective
        <3>4. QED
            BY <1>1, <2>1, <3>3
    <2>4. QED
        BY <1>2, <2>2, <2>3
<1>4. ToSet(p) \subseteq ToSet(r)
    BY <1>1 DEF ToSet
<1>5. ASSUME NEW i \in DOMAIN q PROVE q[i] \in ToSet(r)
    <2>1. Len(p) + i \in DOMAIN r /\ r[Len(p) + i] = q[i]
        BY <1>1, <1>5
    <2>2. QED
        BY <2>1 DEF ToSet
<1>6. ToSet(r) \subseteq ToSet(p) \union ToSet(q)
    BY <1>2 DEF ToSet
<1>7. ToSet(q) \subseteq ToSet(r)
    BY <1>5 DEF ToSet
<1>8. QED
    BY <1>1, <1>3, <1>4, <1>6, <1>7 DEF r

(* Taking the first k elements leaves the others.                            *)
LEMMA DropQueue ==
    ASSUME NEW S, NEW q \in Seq(S), IsInjective(q), NEW k \in Nat
    PROVE  /\ SubSeq(q, k + 1, Len(q)) \in Seq(S)
           /\ IsInjective(SubSeq(q, k + 1, Len(q)))
           /\ ToSet(SubSeq(q, k + 1, Len(q)))
                = ToSet(q) \ {q[i] : i \in {j \in DOMAIN q : j <= k}}
<1> DEFINE r == SubSeq(q, k + 1, Len(q))
           n == IF k <= Len(q) THEN Len(q) - k ELSE 0
<1>1. /\ r \in Seq(S) /\ Len(q) \in Nat /\ n \in Nat
      /\ DOMAIN q = 1 .. Len(q) /\ DOMAIN r = 1 .. n
      /\ \A i \in DOMAIN r : i + k \in DOMAIN q /\ r[i] = q[i + k]
    OBVIOUS
<1>0. n = IF k <= Len(q) THEN Len(q) - k ELSE 0
    OBVIOUS
<1> HIDE DEF r, n
<1>2. IsInjective(r)
    <2> SUFFICES ASSUME NEW i \in DOMAIN r, NEW j \in DOMAIN r, r[i] = r[j] PROVE i = j
        BY DEF IsInjective
    <2>1. i + k = j + k
        BY <1>1 DEF IsInjective
    <2>2. i \in Nat /\ j \in Nat
        BY <1>1
    <2>3. QED
        BY <2>1, <2>2
<1>3. ASSUME NEW i \in DOMAIN r
      PROVE  r[i] \in ToSet(q) \ {q[j] : j \in {h \in DOMAIN q : h <= k}}
    <2>1. i \in Nat /\ i >= 1 /\ i + k \in DOMAIN q /\ r[i] = q[i + k]
        BY <1>1
    <2>2. ASSUME NEW j \in DOMAIN q, j <= k PROVE r[i] # q[j]
        BY <1>1, <2>1, <2>2 DEF IsInjective
    <2>3. QED
        BY <2>1, <2>2 DEF ToSet
<1>4. ASSUME NEW i \in DOMAIN q, ~(i <= k) PROVE q[i] \in ToSet(r)
    <2>1. i \in 1 .. Len(q) /\ i > k
        BY <1>1, <1>4
    <2>2. i - k \in 1 .. n /\ (i - k) + k = i
        BY <1>0, <2>1, Len(q) \in Nat
    <2>3. r[i - k] = q[i]
        BY <1>1, <2>2
    <2>4. QED
        BY <1>1, <2>2, <2>3 DEF ToSet
<1>5. ToSet(r) \subseteq ToSet(q) \ {q[j] : j \in {h \in DOMAIN q : h <= k}}
    BY <1>3 DEF ToSet
<1>6. ToSet(q) \ {q[j] : j \in {h \in DOMAIN q : h <= k}} \subseteq ToSet(r)
    BY <1>4 DEF ToSet
<1>7. QED
    BY <1>1, <1>2, <1>5, <1>6 DEF r

(* Removing a position removes its element and moves no other to the front.  *)
LEMMA RemoveQueue ==
    ASSUME NEW S, NEW q \in Seq(S), IsInjective(q), NEW i \in DOMAIN q
    PROVE  /\ RemoveAt(q, i) \in Seq(S)
           /\ IsInjective(RemoveAt(q, i))
           /\ ToSet(RemoveAt(q, i)) = ToSet(q) \ {q[i]}
           /\ q[1] # q[i] => RemoveAt(q, i) # <<>> /\ RemoveAt(q, i)[1] = q[1]
<1> DEFINE a == SubSeq(q, 1, i - 1)
           b == SubSeq(q, i + 1, Len(q))
           r == RemoveAt(q, i)
<1>1. /\ Len(q) \in Nat /\ i \in 1 .. Len(q) /\ DOMAIN q = 1 .. Len(q)
      /\ a \in Seq(S) /\ b \in Seq(S) /\ r = a \o b
      /\ DOMAIN a = 1 .. i - 1 /\ Len(a) = i - 1
      /\ \A j \in DOMAIN a : a[j] = q[j]
    BY DEF RemoveAt
<1>2. /\ IsInjective(b)
      /\ ToSet(b) = ToSet(q) \ {q[h] : h \in {j \in DOMAIN q : j <= i}}
    <2>1. i \in Nat
        BY <1>1
    <2>2. QED
        BY <2>1, DropQueue, ZenonT(30)
<1> HIDE DEF a, b, r
<1>3. IsInjective(a)
    BY <1>1 DEF IsInjective
<1>4. ToSet(a) = {q[h] : h \in {j \in DOMAIN q : j < i}}
    <2>1. DOMAIN a = {j \in DOMAIN q : j < i}
        BY <1>1
    <2>2. QED
        BY <1>1, <2>1 DEF ToSet
<1>5. ToSet(a) \intersect ToSet(b) = {}
    BY <1>1, <1>2, <1>4
<1>6. r \in Seq(S) /\ IsInjective(r) /\ ToSet(r) = ToSet(a) \union ToSet(b)
    BY <1>1, <1>2, <1>3, <1>5, ConcatQueue
<1>7. ToSet(a) \union ToSet(b) = ToSet(q) \ {q[i]}
    <2>1. \A h \in DOMAIN q : h < i \/ h = i \/ ~(h <= i)
        BY <1>1
    <2>2. \A h \in DOMAIN q : q[h] = q[i] => h = i
        BY DEF IsInjective
    <2>3. ToSet(q) \ {q[i]} \subseteq ToSet(a) \union ToSet(b)
        BY <1>2, <1>4, <2>1 DEF ToSet
    <2>4. q[i] \notin ToSet(a) /\ ToSet(a) \subseteq ToSet(q)
        BY <1>1, <1>4, <2>2 DEF ToSet
    <2>5. q[i] \notin ToSet(b)
        BY <1>1, <1>2
    <2>6. QED
        BY <1>2, <2>3, <2>4, <2>5
<1>8. ASSUME q[1] # q[i] PROVE r # <<>> /\ r[1] = q[1]
    <2>1. i > 1 /\ 1 \in DOMAIN a
        BY <1>1, <1>8
    <2>2. Len(b) \in Nat
        BY <1>1
    <2>3. /\ Len(r) = Len(a) + Len(b)
          /\ \A h \in 1 .. Len(a) + Len(b) :
                 r[h] = IF h <= Len(a) THEN a[h] ELSE b[h - Len(a)]
        BY <1>1, ConcatProperties, ZenonT(30)
    <2>4. Len(r) >= 1 /\ r[1] = a[1]
        BY <1>1, <2>1, <2>2, <2>3
    <2>5. r # <<>>
        <3>1. Len(<<>>) = 0
            OBVIOUS
        <3>2. QED
            BY <2>4, <3>1
    <2>6. QED
        BY <1>1, <2>1, <2>4, <2>5
<1>9. QED
    BY <1>6, <1>7, <1>8 DEF r

----------------------------------------------------------------------------
(* Sequences that may repeat                                               *)

\* q is a sequence, of whatever elements.
IsSeq(q) == q \in Seq(ToSet(q))

\* The empty sequence.
LEMMA EmptyIsSeq == IsSeq(<<>>) /\ ToSet(<<>>) = {}
BY DEF IsSeq, ToSet

\* A sequence over any set is one over its elements.
LEMMA OwnElements ==
  ASSUME NEW S, NEW q \in Seq(S)
  PROVE  IsSeq(q)
<1>1. Len(q) \in Nat /\ q = [i \in 1 .. Len(q) |-> q[i]]
  OBVIOUS
<1>2. \A i \in 1 .. Len(q) : q[i] \in ToSet(q)
  BY DEF ToSet
<1> QED BY <1>1, <1>2 DEF IsSeq

\* Append adds its element.
LEMMA AppendIsSeq ==
  ASSUME NEW q, IsSeq(q), NEW e
  PROVE  IsSeq(Append(q, e)) /\ ToSet(Append(q, e)) = ToSet(q) \cup {e}
<1> DEFINE T == ToSet(q) \cup {e}
<1>1. q \in Seq(T) /\ Len(q) \in Nat /\ DOMAIN q = 1 .. Len(q)
  BY DEF IsSeq
<1>2. /\ Append(q, e) \in Seq(T) /\ Len(Append(q, e)) = Len(q) + 1
      /\ \A i \in 1 .. Len(q) : Append(q, e)[i] = q[i]
      /\ Append(q, e)[Len(q) + 1] = e
  BY <1>1
<1>3. ToSet(Append(q, e)) = T
  BY <1>1, <1>2 DEF ToSet
<1> QED BY <1>2, <1>3 DEF IsSeq

\* Concatenation joins the elements.
LEMMA ConcatIsSeq ==
  ASSUME NEW p, NEW q, IsSeq(p), IsSeq(q)
  PROVE  IsSeq(p \o q) /\ ToSet(p \o q) = ToSet(p) \cup ToSet(q)
<1> DEFINE T == ToSet(p) \cup ToSet(q)
<1>1. /\ p \in Seq(T) /\ Len(p) \in Nat /\ DOMAIN p = 1 .. Len(p)
      /\ q \in Seq(T) /\ Len(q) \in Nat /\ DOMAIN q = 1 .. Len(q)
  BY DEF IsSeq
<1>2. /\ p \o q \in Seq(T) /\ Len(p \o q) = Len(p) + Len(q)
      /\ \A i \in 1 .. Len(p) : (p \o q)[i] = p[i]
      /\ \A i \in 1 .. Len(q) : (p \o q)[Len(p) + i] = q[i]
  BY <1>1
<1>3. ToSet(p \o q) \subseteq T
  BY <1>2 DEF ToSet
<1>4. ToSet(p) \subseteq ToSet(p \o q)
  BY <1>1, <1>2 DEF ToSet
<1>5. ToSet(q) \subseteq ToSet(p \o q)
  <2> SUFFICES ASSUME NEW e \in ToSet(q) PROVE e \in ToSet(p \o q)
    OBVIOUS
  <2>1. PICK i \in 1 .. Len(q) : e = q[i]
    BY <1>1 DEF ToSet
  <2>2. Len(p) + i \in DOMAIN (p \o q) /\ (p \o q)[Len(p) + i] = e
    BY <1>1, <1>2, <2>1
  <2> QED BY <2>2 DEF ToSet
<1> QED BY <1>2, <1>3, <1>4, <1>5 DEF IsSeq

\* The rest of a sequence has no other elements.
LEMMA TailIsSeq ==
  ASSUME NEW q, IsSeq(q), q # <<>>
  PROVE  IsSeq(Tail(q)) /\ ToSet(Tail(q)) \subseteq ToSet(q) /\ Head(q) \in ToSet(q)
<1>1. /\ q \in Seq(ToSet(q)) /\ Len(q) \in Nat /\ DOMAIN q = 1 .. Len(q) /\ Len(q) > 0
  BY DEF IsSeq
<1>2. /\ Tail(q) \in Seq(ToSet(q)) /\ Len(Tail(q)) = Len(q) - 1
      /\ \A i \in 1 .. Len(q) - 1 : Tail(q)[i] = q[i + 1]
      /\ Head(q) = q[1]
  BY <1>1
<1>3. ToSet(Tail(q)) \subseteq ToSet(q)
  BY <1>1, <1>2 DEF ToSet
<1>4. Head(q) \in ToSet(q)
  BY <1>1, <1>2 DEF ToSet
<1>5. IsSeq(Tail(q))
  BY <1>2, OwnElements
<1> QED BY <1>3, <1>4, <1>5

\* A part of a sequence has no other elements.
LEMMA SubSeqIsSeq ==
  ASSUME NEW q, IsSeq(q), NEW m \in Nat \ {0}, NEW n \in 0 .. Len(q)
  PROVE  IsSeq(SubSeq(q, m, n)) /\ ToSet(SubSeq(q, m, n)) \subseteq ToSet(q)
<1>1. /\ q \in Seq(ToSet(q)) /\ Len(q) \in Nat /\ DOMAIN q = 1 .. Len(q)
  BY DEF IsSeq
<1>2. /\ SubSeq(q, m, n) \in Seq(ToSet(q))
      /\ DOMAIN SubSeq(q, m, n) = 1 .. IF m <= n THEN n - m + 1 ELSE 0
      /\ \A i \in DOMAIN SubSeq(q, m, n) : SubSeq(q, m, n)[i] = q[m + i - 1]
  BY <1>1
<1>3. ToSet(SubSeq(q, m, n)) \subseteq ToSet(q)
  BY <1>1, <1>2 DEF ToSet
<1> QED BY <1>2, <1>3, OwnElements
=============================================================================

--------------------------- MODULE SequenceLemmas ---------------------------
(***************************************************************************)
(* Facts about sequences and numbers that the proofs of several components *)
(* use: the least member of a set of naturals, what the vector helpers of  *)
(* ccw_ir.c return, index by index, induction and recursion over prefixes, *)
(* and what flattening and selecting give.                                 *)
(***************************************************************************)
EXTENDS Selection, Naturals, Sequences, SequencesExt, SequenceTheorems,
        WellFoundedInduction, TLAPS

\* Every non-empty set of naturals has a least member.
LEMMA LeastNatural ==
  ASSUME NEW T, T \subseteq Nat, T # {}
  PROVE  \E x \in T : \A y \in T : x <= y
<1>1. \E x \in T : \A y \in T : ~ (<<y, x>> \in OpToRel(<, Nat))
  BY NatLessThanWellFounded, WFMin
<1>2. PICK x \in T : \A y \in T : ~ (<<y, x>> \in OpToRel(<, Nat))
  BY <1>1
<1>3. \A y \in T : ~ (y < x)
  BY <1>2 DEF OpToRel
<1>4. QED
  BY <1>3

\* ccw_node_vec_remove_at closes the gap.
LEMMA RemoveAtProperties ==
  ASSUME NEW S, NEW s \in Seq(S), NEW k \in 1..Len(s)
  PROVE  /\ RemoveAt(s, k) \in Seq(S)
         /\ Len(RemoveAt(s, k)) = Len(s) - 1
         /\ \A j \in 1..(Len(s) - 1) :
              RemoveAt(s, k)[j] = IF j < k THEN s[j] ELSE s[j + 1]
<1> DEFINE p == SubSeq(s, 1, k - 1)
           q == SubSeq(s, k + 1, Len(s))
<1>1. p \in Seq(S) /\ Len(p) = k - 1 /\ \A j \in 1..(k - 1) : p[j] = s[j]
  OBVIOUS
<1>2. /\ q \in Seq(S) /\ Len(q) = Len(s) - k
      /\ \A j \in 1..(Len(s) - k) : q[j] = s[k + j]
  OBVIOUS
<1>3. RemoveAt(s, k) = p \o q
  BY DEF RemoveAt
<1> HIDE DEF p, q
<1>4. /\ p \o q \in Seq(S)
      /\ Len(p \o q) = Len(p) + Len(q)
      /\ \A j \in 1..(Len(p) + Len(q)) :
           (p \o q)[j] = IF j <= Len(p) THEN p[j] ELSE q[j - Len(p)]
  BY <1>1, <1>2, ConcatProperties
<1>5. ASSUME NEW j \in 1..(Len(s) - 1)
      PROVE  (p \o q)[j] = IF j < k THEN s[j] ELSE s[j + 1]
  <2>1. CASE j < k
    BY <2>1, <1>1, <1>2, <1>4
  <2>2. CASE ~(j < k)
    <3>1. (p \o q)[j] = q[j - Len(p)]
      BY <2>2, <1>1, <1>2, <1>4, LenProperties
    <3>2. j - Len(p) \in 1..(Len(s) - k)
      BY <2>2, <1>1, LenProperties
    <3>3. QED
      BY <2>2, <3>1, <3>2, <1>1, <1>2
  <2>3. QED
    BY <2>1, <2>2
<1>6. QED
  BY <1>1, <1>2, <1>3, <1>4, <1>5

\* ccw_node_vec_insert_at opens one.
LEMMA InsertAtProperties ==
  ASSUME NEW S, NEW s \in Seq(S), NEW k \in 1..Len(s), NEW e \in S
  PROVE  /\ InsertAt(s, k, e) \in Seq(S)
         /\ Len(InsertAt(s, k, e)) = Len(s) + 1
         /\ \A j \in 1..(Len(s) + 1) :
              InsertAt(s, k, e)[j] = IF j < k THEN s[j]
                                     ELSE IF j = k THEN e ELSE s[j - 1]
<1> DEFINE p == SubSeq(s, 1, k - 1)
           q == SubSeq(s, k, Len(s))
<1>1. p \in Seq(S) /\ Len(p) = k - 1 /\ \A j \in 1..(k - 1) : p[j] = s[j]
  OBVIOUS
<1>2. /\ q \in Seq(S) /\ Len(q) = Len(s) - k + 1
      /\ \A j \in 1..(Len(s) - k + 1) : q[j] = s[k + j - 1]
  OBVIOUS
<1>3. InsertAt(s, k, e) = p \o <<e>> \o q
  BY DEF InsertAt
<1> HIDE DEF p, q
<1>4. /\ p \o <<e>> \in Seq(S) /\ Len(p \o <<e>>) = k
      /\ \A j \in 1..k : (p \o <<e>>)[j] = IF j < k THEN s[j] ELSE e
  BY <1>1
<1> DEFINE r == p \o <<e>>
<1> HIDE DEF r
<1>5. r \in Seq(S) /\ Len(r) = k /\ \A j \in 1..k : r[j] = IF j < k THEN s[j] ELSE e
  BY <1>4 DEF r
<1>6. /\ r \o q \in Seq(S)
      /\ Len(r \o q) = Len(r) + Len(q)
      /\ \A j \in 1..(Len(r) + Len(q)) :
           (r \o q)[j] = IF j <= Len(r) THEN r[j] ELSE q[j - Len(r)]
  BY <1>2, <1>5, ConcatProperties
<1>7. ASSUME NEW j \in 1..(Len(s) + 1)
      PROVE  (r \o q)[j] = IF j < k THEN s[j] ELSE IF j = k THEN e ELSE s[j - 1]
  <2>1. CASE j <= k
    BY <2>1, <1>2, <1>5, <1>6
  <2>2. CASE ~(j <= k)
    <3>1. (r \o q)[j] = q[j - k]
      BY <2>2, <1>2, <1>5, <1>6
    <3>2. j - k \in 1..(Len(s) - k + 1)
      BY <2>2, LenProperties
    <3>3. QED
      BY <2>2, <3>1, <3>2, <1>2
  <2>3. QED
    BY <2>1, <2>2
<1>8. InsertAt(s, k, e) = r \o q
  BY <1>3 DEF r
<1>9. QED
  BY <1>2, <1>5, <1>6, <1>7, <1>8

\* Its elements, wherever it opens the gap.
HasOneMore(S, t, s, e) ==
  /\ t \in Seq(S) /\ Len(t) = Len(s) + 1
  /\ \A i \in 1..Len(s) : \E j \in 1..(Len(s) + 1) : t[j] = s[i]
  /\ \E j \in 1..(Len(s) + 1) : t[j] = e
  /\ \A j \in 1..(Len(s) + 1) : t[j] = e \/ \E i \in 1..Len(s) : t[j] = s[i]

LEMMA InsertAtElements ==
  ASSUME NEW S, NEW s \in Seq(S), NEW k \in 1..(Len(s) + 1), NEW e \in S,
         NEW t, t = InsertAt(s, k, e)
  PROVE  HasOneMore(S, t, s, e)
<1> DEFINE p == SubSeq(s, 1, k - 1)
           q == SubSeq(s, k, Len(s))
           r == p \o <<e>>
           n == Len(s)
<1>1. p \in Seq(S) /\ Len(p) = k - 1 /\ \A j \in 1..(k - 1) : p[j] = s[j]
  OBVIOUS
<1>2. /\ q \in Seq(S) /\ Len(q) = Len(s) - k + 1
      /\ \A j \in 1..(Len(s) - k + 1) : q[j] = s[k + j - 1]
  OBVIOUS
<1>3. t = r \o q
  BY DEF InsertAt
<1> HIDE DEF p, q
<1>4. r \in Seq(S) /\ Len(r) = k /\ (\A j \in 1..(k - 1) : r[j] = s[j]) /\ r[k] = e
  BY <1>1
<1> HIDE DEF r
<1>5. /\ t \in Seq(S) /\ Len(t) = Len(r) + Len(q)
      /\ \A j \in 1..(Len(r) + Len(q)) : t[j] = IF j <= Len(r) THEN r[j] ELSE q[j - Len(r)]
  BY <1>2, <1>3, <1>4, ConcatProperties
<1>6. n \in Nat /\ k \in 1..(n + 1) /\ Len(r) = k /\ Len(q) = n - k + 1 /\ Len(r) + Len(q) = n + 1
  BY <1>2, <1>4, LenProperties
<1> HIDE DEF n
<1>7. t[k] = e /\ \A j \in 1..(k - 1) : t[j] = s[j]
  <2>1. k \in 1..(Len(r) + Len(q)) /\ k <= Len(r) /\ t[k] = r[k]
    BY <1>5, <1>6
  <2>2. ASSUME NEW j \in 1..(k - 1) PROVE t[j] = s[j]
    <3>1. j \in 1..(Len(r) + Len(q)) /\ j <= Len(r)
      BY <1>6
    <3>2. t[j] = r[j]
      BY <1>5, <3>1
    <3>3. QED
      BY <1>4, <3>2
  <2>3. QED
    BY <1>4, <2>1, <2>2
<1>8. ASSUME NEW j \in (k + 1)..(n + 1) PROVE t[j] = s[j - 1]
  <2>1. j \in 1..(Len(r) + Len(q)) /\ ~ (j <= Len(r)) /\ j - k \in 1..(Len(s) - k + 1)
    BY <1>6 DEF n
  <2>2. t[j] = q[j - Len(r)]
    BY <1>5, <2>1
  <2>3. q[j - k] = s[k + (j - k) - 1]
    BY <1>2, <2>1
  <2>4. k + (j - k) - 1 = j - 1
    BY <1>6
  <2>5. QED
    BY <1>6, <2>2, <2>3, <2>4
<1>9. ASSUME NEW i \in 1..n PROVE \E j \in 1..(n + 1) : t[j] = s[i]
  <2>1. CASE i < k
    <3>1. i \in 1..(k - 1) /\ i \in 1..(n + 1)
      BY <1>6, <2>1
    <3>2. QED
      BY <1>7, <3>1
  <2>2. CASE ~ (i < k)
    <3>1. i + 1 \in (k + 1)..(n + 1) /\ i + 1 \in 1..(n + 1) /\ i + 1 - 1 = i
      BY <1>6, <2>2
    <3>2. t[i + 1] = s[i]
      BY <1>8, <3>1
    <3>3. QED
      BY <3>1, <3>2
  <2>3. QED
    BY <2>1, <2>2
<1>10. ASSUME NEW j \in 1..(n + 1) PROVE t[j] = e \/ \E i \in 1..n : t[j] = s[i]
  <2>1. CASE j < k
    <3>1. j \in 1..(k - 1) /\ j \in 1..n
      BY <1>6, <2>1
    <3>2. QED
      BY <1>7, <3>1
  <2>2. CASE j = k
    BY <1>7, <2>2
  <2>3. CASE j > k
    <3>1. j \in (k + 1)..(n + 1) /\ j - 1 \in 1..n
      BY <1>6, <2>3
    <3>2. QED
      BY <1>8, <3>1
  <2>4. QED
    BY <1>6, <2>1, <2>2, <2>3
<1>11. QED
  BY <1>5, <1>6, <1>7, <1>9, <1>10 DEF n, HasOneMore

\* Front(s) \o t, index by index.
LEMMA SpliceProperties ==
  ASSUME NEW S, NEW s \in Seq(S), NEW t \in Seq(S), Len(s) > 0
  PROVE  /\ Front(s) \o t \in Seq(S)
         /\ Len(Front(s) \o t) = Len(s) - 1 + Len(t)
         /\ \A j \in 1..(Len(s) - 1) : (Front(s) \o t)[j] = s[j]
         /\ \A j \in 1..Len(t) : (Front(s) \o t)[Len(s) - 1 + j] = t[j]
<1> DEFINE p == Front(s)
           m == Len(s) - 1
<1>1. p \in Seq(S) /\ Len(p) = Len(s) - 1 /\ \A j \in 1..(Len(s) - 1) : p[j] = s[j]
  <2>1. m \in Nat /\ \A j \in 1..m : s[j] \in S
    BY LenProperties
  <2>2. p = SubSeq(s, 1, m)
    BY DEF Front
  <2> HIDE DEF m, p
  <2>3. /\ p \in Seq(S)
        /\ Len(p) = IF 1 <= m THEN m - 1 + 1 ELSE 0
        /\ \A j \in 1..(m - 1 + 1) : p[j] = s[1 + j - 1]
    BY <2>1, <2>2, SubSeqProperties
  <2>4. Len(p) = m /\ \A j \in 1..m : p[j] = s[j]
    BY <2>1, <2>3
  <2>5. QED
    BY <2>3, <2>4 DEF m
<1> HIDE DEF p
<1>2. /\ p \o t \in Seq(S) /\ Len(p \o t) = Len(p) + Len(t)
      /\ \A j \in 1..(Len(p) + Len(t)) :
           (p \o t)[j] = IF j <= Len(p) THEN p[j] ELSE t[j - Len(p)]
  BY <1>1, ConcatProperties
<1>3. ASSUME NEW j \in 1..(Len(s) - 1) PROVE (p \o t)[j] = s[j]
  BY <1>1, <1>2, LenProperties
<1>4. ASSUME NEW j \in 1..Len(t) PROVE (p \o t)[Len(s) - 1 + j] = t[j]
  <2>1. Len(p) + j \in 1..(Len(p) + Len(t)) /\ ~(Len(p) + j <= Len(p))
        /\ Len(p) + j - Len(p) = j
    BY <1>1, LenProperties
  <2>2. (p \o t)[Len(p) + j] = t[Len(p) + j - Len(p)]
    BY <1>2, <2>1
  <2>3. QED
    BY <1>1, <2>1, <2>2
<1>5. QED
  BY <1>1, <1>2, <1>3, <1>4 DEF p

\* A function on 1..n is a sequence of length n.
LEMMA FunctionLength ==
  ASSUME NEW S, NEW n \in Nat, NEW f \in [1..n -> S]
  PROVE  f \in Seq(S) /\ Len(f) = n
<1>1. f \in Seq(S) /\ DOMAIN f = 1..n
  BY SeqDef
<1>2. QED
  BY <1>1, LenProperties

\* Append, index by index.
LEMMA AppendFacts ==
  ASSUME NEW S, NEW s \in Seq(S), NEW e \in S
  PROVE  /\ Append(s, e) \in Seq(S)
         /\ Len(s) \in Nat /\ DOMAIN s = 1..Len(s)
         /\ Len(Append(s, e)) = Len(s) + 1
         /\ DOMAIN Append(s, e) = 1..(Len(s) + 1)
         /\ \A k \in 1..Len(s) : Append(s, e)[k] = s[k]
         /\ Append(s, e)[Len(s) + 1] = e
<1>1. /\ Append(s, e) \in Seq(S) /\ Len(Append(s, e)) = Len(s) + 1
      /\ \A k \in 1..Len(s) : Append(s, e)[k] = s[k]
      /\ Append(s, e)[Len(s) + 1] = e
  BY AppendProperties
<1>2. Len(s) \in Nat /\ DOMAIN s = 1..Len(s)
  BY LenProperties
<1> DEFINE t == Append(s, e)
<1>3. t \in Seq(S)
  BY <1>1
<1> HIDE DEF t
<1>4. DOMAIN t = 1..Len(t)
  BY <1>3, LenProperties
<1>5. QED
  BY <1>1, <1>2, <1>4 DEF t

\* Induction over an initial segment of the naturals, for the set S of the
\* numbers that have a property.
LEMMA PrefixInduction ==
  ASSUME NEW n \in Nat, NEW S, 0 \in S, \A i \in 1..n : i - 1 \in S => i \in S
  PROVE  \A i \in 0..n : i \in S
<1> DEFINE Bad == {i \in 0..n : i \notin S}
<1>1. SUFFICES ASSUME Bad # {} PROVE FALSE
  OBVIOUS
<1>2. Bad \subseteq Nat
  OBVIOUS
<1>3. PICK i \in Bad : \A j \in Bad : i <= j
  <2> HIDE DEF Bad
  <2>1. QED
    BY <1>1, <1>2, LeastNatural
<1>4. i \in 1..n /\ i - 1 \in 0..n
  OBVIOUS
<1>5. i - 1 \notin Bad
  BY <1>3, <1>4
<1>6. QED
  BY <1>4, <1>5

\* Recursion over an initial segment: f begins with c and takes the step g at every
\* number, on values of a set T.
IsStep(n, T, g) == g \in [(1..n) \X T -> T]
IsRun(n, T, c, g, f) ==
  /\ f \in [0..n -> T] /\ f[0] = c
  /\ \A i \in 1..n : f[i] = g[<<i, f[i - 1]>>]

\* Every step has a run.
LEMMA PrefixRecursion ==
  ASSUME NEW n \in Nat, NEW T, NEW c \in T, NEW g, IsStep(n, T, g)
  PROVE  \E f : IsRun(n, T, c, g, f)
<1> USE DEF IsStep
<1> DEFINE Rec(m, f) == /\ f \in [0..m -> T] /\ f[0] = c
                        /\ \A i \in 1..m : f[i] = g[<<i, f[i - 1]>>]
           S == {m \in 0..n : \E f : Rec(m, f)}
<1>1. 0 \in S
  <2>1. Rec(0, [i \in 0..0 |-> c])
    OBVIOUS
  <2> HIDE DEF Rec
  <2>2. QED
    BY <2>1
<1>2. ASSUME NEW m \in 1..n, m - 1 \in S PROVE m \in S
  <2>1. PICK f : Rec(m - 1, f)
    BY <1>2
  <2> DEFINE h == [i \in 0..m |-> IF i = m THEN g[<<m, f[m - 1]>>] ELSE f[i]]
  <2>2. f[m - 1] \in T /\ <<m, f[m - 1]>> \in (1..n) \X T
    BY <2>1
  <2>3. h \in [0..m -> T] /\ h[0] = c
    <3>1. ASSUME NEW i \in 0..m PROVE h[i] \in T
      <4>1. CASE i = m
        BY <4>1, <2>2
      <4>2. CASE i # m
        <5>1. i \in 0..(m - 1)
          BY <4>2
        <5>2. QED
          BY <4>2, <5>1, <2>1
      <4>3. QED
        BY <4>1, <4>2
    <3>2. h[0] = c
      BY <2>1
    <3>3. QED
      BY <3>1, <3>2
  <2>4. ASSUME NEW i \in 1..m PROVE h[i] = g[<<i, h[i - 1]>>]
    <3>1. i - 1 \in 0..m /\ i - 1 # m /\ h[i - 1] = f[i - 1]
      OBVIOUS
    <3>2. CASE i = m
      BY <3>1, <3>2
    <3>3. CASE i # m
      <4>1. i \in 1..(m - 1)
        BY <3>3
      <4>2. f[i] = g[<<i, f[i - 1]>>]
        BY <4>1, <2>1
      <4>3. QED
        BY <3>1, <3>3, <4>2
    <3>4. QED
      BY <3>2, <3>3
  <2>5. Rec(m, h)
    BY <2>3, <2>4
  <2> HIDE DEF Rec
  <2>6. QED
    BY <2>5
<1>3. \A m \in 0..n : m \in S
  <2> HIDE DEF S
  <2>1. QED
    BY <1>1, <1>2, PrefixInduction
<1>4. n \in S
  BY <1>3
<1>5. QED
  BY <1>4 DEF IsRun

\* Sequences of sequences over T flatten to a sequence over T.
LEMMA FlattenType ==
  ASSUME NEW T, NEW s \in Seq(Seq(T))
  PROVE  FlattenSeq(s) \in Seq(T)
<1> DEFINE U == Seq(T)
           e == <<>>
<1>1. e \in U /\ \A x, y \in U : x \o y \in U /\ e \o x = x
  BY ConcatProperties, ConcatEmptySeq
<1>2. CASE Len(s) = 0
  <2>1. s = e /\ FlattenSeq(s) = s
    BY <1>2, EmptySeq DEF FlattenSeq
  <2> HIDE DEF U, e
  <2>2. QED
    BY <1>1, <2>1 DEF U
<1>3. CASE Len(s) # 0
  <2> DEFINE n == Len(s)
             Body(f) == [i \in 1..n |-> IF i = 1 THEN s[i] ELSE f[i - 1] \o s[i]]
             F == CHOOSE f : f = Body(f)
  <2>1. n \in Nat /\ n >= 1 /\ \A i \in 1..n : s[i] \in U
    BY <1>3, LenProperties
  <2>2. FlattenSeq(s) = F[n]
    BY <1>3 DEF FlattenSeq
  <2> HIDE DEF n, U, e
  <2>3. \E f : f = Body(f)
    <3> DEFINE g == [p \in (1..n) \X U |-> p[2] \o s[p[1]]]
    <3>1. g \in [(1..n) \X U -> U]
      BY <1>1, <2>1
    <3>2. \A i \in 1..n : \A x \in U : g[<<i, x>>] = x \o s[i]
      OBVIOUS
    <3> HIDE DEF g
    <3>3. PICK f : /\ f \in [0..n -> U] /\ f[0] = e
                   /\ \A i \in 1..n : f[i] = g[<<i, f[i - 1]>>]
      <4>1. IsStep(n, U, g)
        BY <3>1 DEF IsStep
      <4>2. PICK f : IsRun(n, U, e, g, f)
        BY <4>1, <1>1, <2>1, PrefixRecursion
      <4>3. QED
        BY <4>2 DEF IsRun
    <3>4. \A i \in 1..n : i - 1 \in 0..n /\ f[i - 1] \in U
      BY <2>1, <3>3
    <3>5. \A i \in 1..n : f[i] = f[i - 1] \o s[i]
      BY <3>2, <3>3, <3>4
    <3>6. f[1] = s[1]
      <4>1. 1 \in 1..n /\ 1 - 1 = 0
        BY <2>1
      <4>2. f[1] = f[1 - 1] \o s[1]
        BY <3>5, <4>1
      <4>3. QED
        BY <1>1, <2>1, <3>3, <4>1, <4>2
    <3> DEFINE h == [i \in 1..n |-> f[i]]
    <3>7. ASSUME NEW i \in 1..n PROVE h[i] = IF i = 1 THEN s[i] ELSE h[i - 1] \o s[i]
      <4>1. CASE i = 1
        BY <3>6, <4>1
      <4>2. CASE i # 1
        <5>1. i - 1 \in 1..n
          BY <4>2, <2>1
        <5>2. QED
          BY <4>2, <5>1, <3>5
      <4>3. QED
        BY <4>1, <4>2
    <3>8. h = Body(h)
      BY <3>7
    <3>9. QED
      BY <3>8
  <2>4. F = Body(F)
    BY <2>3
  <2> HIDE DEF F
  <2>5. F[1] = s[1] /\ \A i \in 2..n : F[i] = F[i - 1] \o s[i]
    <3>1. 1 \in 1..n /\ \A i \in 2..n : i \in 1..n /\ i # 1
      BY <2>1
    <3>2. QED
      BY <3>1, <2>4
  <2> DEFINE S == {i \in 0..n : i # 0 => F[i] \in U}
  <2>6. 0 \in S
    BY <2>1
  <2>7. ASSUME NEW i \in 1..n, i - 1 \in S PROVE i \in S
    <3>1. CASE i = 1
      BY <3>1, <2>1, <2>5
    <3>2. CASE i # 1
      <4>1. i \in 2..n /\ i - 1 # 0
        BY <3>2
      <4>2. F[i] = F[i - 1] \o s[i]
        BY <4>1, <2>5
      <4>3. i \in 0..n /\ s[i] \in U
        BY <4>1, <2>1
      <4>4. F[i - 1] \in U
        BY <4>1, <2>7
      <4>5. QED
        BY <4>2, <4>3, <4>4, <1>1
    <3>3. QED
      BY <3>1, <3>2
  <2> HIDE DEF S
  <2>8. \A i \in 0..n : i \in S
    BY <2>1, <2>6, <2>7, PrefixInduction
  <2>9. n \in S /\ n # 0
    BY <2>1, <2>8
  <2>10. F[n] \in U
    BY <2>9 DEF S
  <2>11. QED
    BY <2>2, <2>10 DEF U
<1>4. QED
  BY <1>2, <1>3

\* F is how the members of a set G are selected from s, prefix by prefix: F[i] are
\* those among the first i, in their order.
IsSelection(s, G, F) ==
  F = [i \in 0..Len(s) |->
         IF i = 0 THEN <<>>
         ELSE IF s[i] \in G THEN Append(F[i - 1], s[i]) ELSE F[i - 1]]

LEMMA SelectionExists ==
  ASSUME NEW T, NEW s \in Seq(T), NEW G
  PROVE  \E F : IsSelection(s, G, F)
<1> DEFINE n == Len(s)
           U == Seq(T)
           e == <<>>
           g == [p \in (1..n) \X U |-> IF s[p[1]] \in G THEN Append(p[2], s[p[1]]) ELSE p[2]]
<1>1. n \in Nat /\ (\A i \in 1..n : s[i] \in T) /\ e \in U /\ \A x \in U, y \in T : Append(x, y) \in U
  BY LenProperties, AppendProperties
<1> HIDE DEF n, U
<1>2. g \in [(1..n) \X U -> U]
  BY <1>1
<1>3. \A i \in 1..n : \A x \in U :
        g[<<i, x>>] = IF s[i] \in G THEN Append(x, s[i]) ELSE x
  OBVIOUS
<1> HIDE DEF g, e
<1>4. PICK F : /\ F \in [0..n -> U] /\ F[0] = e
               /\ \A i \in 1..n : F[i] = g[<<i, F[i - 1]>>]
  <2>1. IsStep(n, U, g)
    BY <1>2 DEF IsStep
  <2>2. PICK F : IsRun(n, U, e, g, F)
    BY <2>1, <1>1, PrefixRecursion
  <2>3. QED
    BY <2>2 DEF IsRun
<1>5. ASSUME NEW i \in 0..n
      PROVE  F[i] = IF i = 0 THEN e
                    ELSE IF s[i] \in G THEN Append(F[i - 1], s[i]) ELSE F[i - 1]
  <2>1. CASE i = 0
    BY <2>1, <1>4
  <2>2. CASE i # 0
    <3>1. i \in 1..n /\ F[i - 1] \in U
      BY <2>2, <1>1, <1>4
    <3>2. QED
      BY <2>2, <3>1, <1>3, <1>4
  <2>3. QED
    BY <2>1, <2>2
<1>6. F = [i \in 0..n |-> IF i = 0 THEN e
                          ELSE IF s[i] \in G THEN Append(F[i - 1], s[i]) ELSE F[i - 1]]
  BY <1>4, <1>5
<1>7. QED
  BY <1>6 DEF n, e, IsSelection

\* It has members of G only, and all of them.
SelectionOf(T, s, G, F) ==
  /\ F[0] = <<>>
  /\ \A i \in 1..Len(s) : F[i] = IF s[i] \in G THEN Append(F[i - 1], s[i]) ELSE F[i - 1]
  /\ \A i \in 0..Len(s) : F[i] \in Seq(T \cap G)
  /\ \A i \in 0..Len(s) : \A j \in 1..i :
       s[j] \in G => \E k \in DOMAIN F[i] : F[i][k] = s[j]

LEMMA SelectionFacts ==
  ASSUME NEW T, NEW s \in Seq(T), NEW G, NEW F, IsSelection(s, G, F)
  PROVE  SelectionOf(T, s, G, F)
<1> DEFINE n == Len(s)
           W == T \cap G
           U == Seq(W)
           e == <<>>
           All(i) == \A j \in 1..i : s[j] \in G => \E k \in DOMAIN F[i] : F[i][k] = s[j]
           S == {i \in 0..n : F[i] \in U /\ All(i)}
<1>1. n \in Nat /\ (\A i \in 1..n : s[i] \in T) /\ e \in U
  BY LenProperties
<1>2. F[0] = e
  BY <1>1 DEF IsSelection
<1>3. ASSUME NEW i \in 1..n
      PROVE  F[i] = IF s[i] \in G THEN Append(F[i - 1], s[i]) ELSE F[i - 1]
  <2>1. i \in 0..n /\ i # 0
    BY <1>1
  <2>2. QED
    BY <2>1 DEF IsSelection
<1> HIDE DEF n, U, e
<1>4. 0 \in S
  BY <1>1, <1>2
<1>5. ASSUME NEW i \in 1..n, i - 1 \in S PROVE i \in S
  <2> DEFINE o == F[i - 1]
             w == F[i]
  <2>1. o \in U /\ s[i] \in T /\ i \in 0..n
    BY <1>1, <1>5
  <2>2. \A j \in 1..(i - 1) : s[j] \in G => \E k \in DOMAIN o : o[k] = s[j]
    BY <1>5
  <2>3. w = IF s[i] \in G THEN Append(o, s[i]) ELSE o
    BY <1>3
  <2>4. CASE s[i] \in G
    <3>1. w = Append(o, s[i]) /\ s[i] \in W /\ o \in Seq(W)
      BY <2>1, <2>3, <2>4 DEF U
    <3> HIDE DEF o, w, W
    <3>2. /\ w \in Seq(W) /\ Len(o) \in Nat /\ DOMAIN o = 1..Len(o)
          /\ DOMAIN w = 1..(Len(o) + 1)
          /\ (\A m \in 1..Len(o) : w[m] = o[m]) /\ w[Len(o) + 1] = s[i]
      BY <3>1, AppendFacts
    <3>3. ASSUME NEW j \in 1..i, s[j] \in G PROVE \E m \in DOMAIN w : w[m] = s[j]
      <4>1. CASE j = i
        BY <3>2, <4>1
      <4>2. CASE j # i
        <5>1. j \in 1..(i - 1)
          BY <4>2
        <5>2. PICK m \in DOMAIN o : o[m] = s[j]
          BY <5>1, <2>2, <3>3
        <5>3. QED
          BY <5>2, <3>2
      <4>3. QED
        BY <4>1, <4>2
    <3>4. QED
      BY <2>1, <3>2, <3>3 DEF w, U
  <2>5. CASE s[i] \notin G
    <3>1. w = o
      BY <2>3, <2>5
    <3>2. ASSUME NEW j \in 1..i, s[j] \in G PROVE j \in 1..(i - 1)
      BY <2>5, <3>2
    <3> HIDE DEF o, w
    <3>3. \A j \in 1..i : s[j] \in G => \E m \in DOMAIN w : w[m] = s[j]
      BY <2>2, <3>1, <3>2
    <3>4. QED
      BY <2>1, <3>1, <3>3 DEF w
  <2>6. QED
    BY <2>4, <2>5
<1>6. \A i \in 0..n : i \in S
  <2> HIDE DEF S
  <2>1. QED
    BY <1>1, <1>4, <1>5, PrefixInduction
<1>7. \A i \in 0..n : F[i] \in U /\ All(i)
  BY <1>6
<1>8. QED
  BY <1>2, <1>3, <1>7 DEF n, U, e, SelectionOf

\* Filtered is that selection.
LEMMA FilteredIsSelection ==
  ASSUME NEW T, NEW s \in Seq(T), NEW G
  PROVE  \E F : IsSelection(s, G, F) /\ Filtered(s, G) = F[Len(s)]
<1> DEFINE F == CHOOSE f : f = [i \in 0..Len(s) |->
                                  IF i = 0 THEN <<>>
                                  ELSE IF s[i] \in G THEN Append(f[i - 1], s[i]) ELSE f[i - 1]]
<1>1. Filtered(s, G) = F[Len(s)]
  BY DEF Filtered
<1>2. PICK f : IsSelection(s, G, f)
  BY SelectionExists
<1>3. IsSelection(s, G, F)
  BY <1>2 DEF IsSelection
<1> HIDE DEF F
<1>4. QED
  BY <1>1, <1>3

\* Its entries are members of the set.
LEMMA FilteredType ==
  ASSUME NEW T, NEW s \in Seq(T), NEW G
  PROVE  Filtered(s, G) \in Seq(T \cap G)
<1>1. PICK F : IsSelection(s, G, F) /\ Filtered(s, G) = F[Len(s)]
  BY FilteredIsSelection
<1>2. Len(s) \in 0..Len(s)
  BY LenProperties
<1>3. SelectionOf(T, s, G, F)
  BY <1>1, SelectionFacts
<1>4. \A i \in 0..Len(s) : F[i] \in Seq(T \cap G)
  BY <1>3 DEF SelectionOf
<1>5. QED
  BY <1>1, <1>2, <1>4
=============================================================================

--------------------------- MODULE SequenceLemmas ---------------------------
(* Facts about sequences and finite sets that the proofs of several        *)
(* modules need: what an operation does to the elements of a sequence, and *)
(* whether it keeps them distinct; induction over numbers and finite sets, *)
(* what folds and sums come to; quotients and remainders.                  *)
EXTENDS Integers, FiniteSets, FiniteSetsExt, SequencesExt, Selection, FiniteSetTheorems,
        SequenceTheorems, WellFoundedInduction, TLAPS

(* Taking place i out of a sequence leaves the elements before it where    *)
(* they are and moves those after it down by one.                          *)
LEMMA RemoveAtElements ==
    ASSUME NEW S, NEW s \in Seq(S), NEW i \in DOMAIN s
    PROVE  /\ RemoveAt(s, i) \in Seq(S)
           /\ Len(RemoveAt(s, i)) = Len(s) - 1
           /\ \A k \in 1..(Len(s) - 1) :
                 RemoveAt(s, i)[k] = IF k < i THEN s[k] ELSE s[k + 1]
  <1> DEFINE l == SubSeq(s, 1, i - 1)
             r == SubSeq(s, i + 1, Len(s))
  <1>1. i \in 1..Len(s) /\ Len(s) \in Nat
    OBVIOUS
  <1>2. /\ l \in Seq(S) /\ Len(l) = i - 1
        /\ \A k \in 1..(i - 1) : l[k] = s[k]
    BY <1>1
  <1>3. /\ r \in Seq(S) /\ Len(r) = Len(s) - i
        /\ \A k \in 1..(Len(s) - i) : r[k] = s[i + k]
    BY <1>1
  <1> HIDE DEF l, r
  <1>4. l \o r \in Seq(S) /\ Len(l \o r) = Len(s) - 1
    BY <1>1, <1>2, <1>3
  <1>5. ASSUME NEW k \in 1..(Len(s) - 1)
        PROVE  (l \o r)[k] = IF k < i THEN s[k] ELSE s[k + 1]
    <2>1. CASE k < i
      BY <1>1, <1>2, <1>3, <2>1
    <2>2. CASE k >= i
      <3>1. (l \o r)[k] = r[k - (i - 1)]
        BY SMTT(30), <1>1, <1>2, <1>3, <2>2
      <3>2. k - (i - 1) \in 1..(Len(s) - i) /\ i + (k - (i - 1)) = k + 1
        BY <1>1, <2>2
      <3>3. r[k - (i - 1)] = s[k + 1]
        BY <1>3, <3>2
      <3> QED BY <1>1, <2>2, <3>1, <3>3
    <2>3. k < i \/ k >= i
      BY <1>1
    <2> QED BY <2>1, <2>2, <2>3
  <1> QED BY <1>4, <1>5 DEF RemoveAt, l, r

(* Taking out one place of a sequence without repetitions removes exactly  *)
(* its element.                                                            *)
LEMMA RemoveAtRange ==
    ASSUME NEW S, NEW s \in Seq(S), NEW i \in DOMAIN s, IsInjective(s)
    PROVE  /\ Range(RemoveAt(s, i)) = Range(s) \ {s[i]}
           /\ IsInjective(RemoveAt(s, i))
  <1> DEFINE t == RemoveAt(s, i)
  <1>1. /\ t \in Seq(S) /\ Len(t) = Len(s) - 1
        /\ \A k \in 1..(Len(s) - 1) : t[k] = IF k < i THEN s[k] ELSE s[k + 1]
    BY RemoveAtElements
  <1> HIDE DEF t
  <1>2. i \in 1..Len(s) /\ Len(s) \in Nat /\ DOMAIN t = 1..(Len(s) - 1)
        /\ DOMAIN s = 1..Len(s)
    BY <1>1
  <1>3. \A j, k \in 1..Len(s) : s[j] = s[k] => j = k
    BY <1>2 DEF IsInjective
  <1>4. IsInjective(t)
    <2> SUFFICES ASSUME NEW j \in DOMAIN t, NEW k \in DOMAIN t, t[j] = t[k]
                 PROVE  j = k
      BY DEF IsInjective
    <2> DEFINE p(m) == IF m < i THEN m ELSE m + 1
    <2>1. p(j) \in 1..Len(s) /\ p(k) \in 1..Len(s) /\ s[p(j)] = s[p(k)]
      BY <1>1, <1>2
    <2>2. p(j) = p(k)
      BY <1>3, <2>1
    <2> QED BY <1>2, <2>2
  <1>5. ASSUME NEW k \in DOMAIN t PROVE t[k] \in Range(s) \ {s[i]}
    BY SMTT(30), <1>1, <1>2, <1>3 DEF Range
  <1>6. ASSUME NEW k \in DOMAIN s, s[k] # s[i] PROVE s[k] \in Range(t)
    <2>1. CASE k < i
      <3>1. k \in DOMAIN t /\ t[k] = s[k]
        BY <1>1, <1>2, <2>1
      <3> QED BY <3>1 DEF Range
    <2>2. CASE k > i
      <3>1. k - 1 \in DOMAIN t /\ t[k - 1] = s[k]
        BY <1>1, <1>2, <2>2
      <3> QED BY <3>1 DEF Range
    <2> QED BY <1>2, <1>6, <2>1, <2>2
  <1>7. Range(t) = Range(s) \ {s[i]}
    BY <1>5, <1>6 DEF Range
  <1> QED BY <1>4, <1>7 DEF t

(* Putting an element into place i moves those from there up by one.       *)
LEMMA InsertAtElements ==
    ASSUME NEW S, NEW s \in Seq(S), NEW i \in 1..(Len(s) + 1), NEW e \in S
    PROVE  /\ InsertAt(s, i, e) \in Seq(S)
           /\ Len(InsertAt(s, i, e)) = Len(s) + 1
           /\ \A k \in 1..(Len(s) + 1) :
                 InsertAt(s, i, e)[k] =
                    IF k < i THEN s[k] ELSE IF k = i THEN e ELSE s[k - 1]
  <1> DEFINE l == SubSeq(s, 1, i - 1)
             r == SubSeq(s, i, Len(s))
             m == l \o <<e>>
  <1>1. i \in Nat /\ 1 <= i /\ i <= Len(s) + 1 /\ Len(s) \in Nat
    OBVIOUS
  <1>2. /\ l \in Seq(S) /\ Len(l) = i - 1
        /\ \A k \in 1..(i - 1) : l[k] = s[k]
    BY <1>1
  <1>3. /\ r \in Seq(S) /\ Len(r) = Len(s) - i + 1
        /\ \A k \in 1..(Len(s) - i + 1) : r[k] = s[i - 1 + k]
    BY <1>1
  <1> HIDE DEF l, r
  <1>4. /\ m \in Seq(S) /\ Len(m) = i
        /\ \A k \in 1..i : m[k] = IF k < i THEN s[k] ELSE e
    BY <1>1, <1>2
  <1> HIDE DEF m
  <1>5. m \o r \in Seq(S) /\ Len(m \o r) = Len(s) + 1
    <2>1. m \in Seq(S) /\ r \in Seq(S)
      BY <1>3, <1>4
    <2>2. m \o r \in Seq(S) /\ Len(m \o r) = Len(m) + Len(r)
      BY <2>1, ConcatProperties
    <2>3. Len(m) + Len(r) = Len(s) + 1
      BY <1>1, <1>3, <1>4
    <2> QED BY <2>2, <2>3
  <1>6. ASSUME NEW k \in 1..(Len(s) + 1)
        PROVE  (m \o r)[k] = IF k < i THEN s[k] ELSE IF k = i THEN e ELSE s[k - 1]
    <2>1. CASE k <= i
      <3>1. (m \o r)[k] = m[k]
        BY <1>1, <1>3, <1>4, <2>1, ConcatProperties
      <3> QED BY <1>1, <1>4, <2>1, <3>1
    <2>2. CASE k > i
      <3>1. (m \o r)[k] = r[k - i]
        BY <1>1, <1>3, <1>4, <2>2, ConcatProperties
      <3>2. k - i \in 1..(Len(s) - i + 1) /\ i - 1 + (k - i) = k - 1
        BY <1>1, <2>2
      <3>3. r[k - i] = s[k - 1]
        BY <1>3, <3>2
      <3> QED BY <1>1, <2>2, <3>1, <3>3
    <2>3. k <= i \/ k > i
      BY <1>1
    <2> QED BY <2>1, <2>2, <2>3
  <1> QED BY <1>5, <1>6 DEF InsertAt, l, r, m

(* A sequence with a new element in some place, and nothing else new, has  *)
(* that element more.                                                      *)
LEMMA InsertedRange ==
    ASSUME NEW S, NEW s \in Seq(S), NEW i \in 1..(Len(s) + 1), NEW e \in S,
           IsInjective(s), e \notin Range(s),
           NEW t \in Seq(S), Len(t) = Len(s) + 1,
           \A k \in 1..(Len(s) + 1) :
              t[k] = IF k < i THEN s[k] ELSE IF k = i THEN e ELSE s[k - 1]
    PROVE  Range(t) = Range(s) \union {e} /\ IsInjective(t)
  <1>1. /\ t \in Seq(S) /\ Len(t) = Len(s) + 1
        /\ \A k \in 1..(Len(s) + 1) :
              t[k] = IF k < i THEN s[k] ELSE IF k = i THEN e ELSE s[k - 1]
    OBVIOUS
  <1>2. /\ i \in 1..(Len(s) + 1) /\ Len(s) \in Nat
        /\ DOMAIN t = 1..(Len(s) + 1) /\ DOMAIN s = 1..Len(s)
    BY <1>1
  <1>3. /\ \A j, k \in 1..Len(s) : s[j] = s[k] => j = k
        /\ \A j \in 1..Len(s) : s[j] # e
    BY <1>2 DEF IsInjective, Range
  <1>4. IsInjective(t)
    BY <1>1, <1>2, <1>3 DEF IsInjective
  <1>5. ASSUME NEW k \in DOMAIN t PROVE t[k] \in Range(s) \union {e}
    <2>1. CASE k < i
      <3>1. k \in DOMAIN s /\ t[k] = s[k]
        BY <1>1, <1>2, <2>1
      <3> QED BY <3>1 DEF Range
    <2>2. CASE k = i
      BY <1>1, <1>2, <2>2
    <2>3. CASE k > i
      <3>1. k - 1 \in DOMAIN s /\ t[k] = s[k - 1]
        BY <1>1, <1>2, <2>3
      <3> QED BY <3>1 DEF Range
    <2> QED BY <1>2, <2>1, <2>2, <2>3
  <1>6. ASSUME NEW k \in DOMAIN s PROVE s[k] \in Range(t)
    <2>1. CASE k < i
      <3>1. k \in DOMAIN t /\ t[k] = s[k]
        BY <1>1, <1>2, <2>1
      <3> QED BY <3>1 DEF Range
    <2>2. CASE k >= i
      <3>1. k + 1 \in DOMAIN t /\ t[k + 1] = s[k]
        BY <1>1, <1>2, <2>2
      <3> QED BY <3>1 DEF Range
    <2> QED BY <1>2, <2>1, <2>2
  <1>7. e \in Range(t)
    BY <1>1, <1>2 DEF Range
  <1>8. Range(t) = Range(s) \union {e}
    BY <1>5, <1>6, <1>7 DEF Range
  <1> QED BY <1>4, <1>8

LEMMA InsertAtRange ==
    ASSUME NEW S, NEW s \in Seq(S), NEW i \in 1..(Len(s) + 1), NEW e \in S,
           IsInjective(s), e \notin Range(s)
    PROVE  /\ Range(InsertAt(s, i, e)) = Range(s) \union {e}
           /\ IsInjective(InsertAt(s, i, e))
  <1> DEFINE t == InsertAt(s, i, e)
  <1>1. /\ t \in Seq(S) /\ Len(t) = Len(s) + 1
        /\ \A k \in 1..(Len(s) + 1) :
              t[k] = IF k < i THEN s[k] ELSE IF k = i THEN e ELSE s[k - 1]
    BY InsertAtElements
  <1> HIDE DEF t
  <1>2. Range(t) = Range(s) \union {e} /\ IsInjective(t)
    BY <1>1, InsertedRange
  <1> QED BY <1>2 DEF t

LEMMA AppendRange ==
    ASSUME NEW S, NEW s \in Seq(S), NEW e \in S
    PROVE  /\ Range(Append(s, e)) = Range(s) \union {e}
           /\ IsInjective(s) /\ e \notin Range(s) => IsInjective(Append(s, e))
  <1>1. /\ Append(s, e) \in Seq(S) /\ Len(Append(s, e)) = Len(s) + 1
        /\ \A k \in 1..Len(s) : Append(s, e)[k] = s[k]
        /\ Append(s, e)[Len(s) + 1] = e
    BY AppendProperties
  <1> DEFINE t == Append(s, e)
  <1>2. /\ t \in Seq(S) /\ Len(t) = Len(s) + 1
        /\ \A k \in 1..Len(s) : t[k] = s[k]
        /\ t[Len(s) + 1] = e
    BY <1>1
  <1> HIDE DEF t
  <1>3. /\ Len(s) \in Nat /\ DOMAIN s = 1..Len(s) /\ DOMAIN t = 1..(Len(s) + 1)
    BY <1>2
  <1>4. ASSUME NEW k \in DOMAIN t PROVE t[k] \in Range(s) \union {e}
    <2>1. k \in DOMAIN s \/ k = Len(s) + 1
      BY <1>3
    <2>2. CASE k \in DOMAIN s
      <3>1. t[k] = s[k]
        BY <1>2, <1>3, <2>2
      <3> QED BY <2>2, <3>1 DEF Range
    <2>3. CASE k = Len(s) + 1
      BY <1>2, <2>3
    <2> QED BY <2>1, <2>2, <2>3
  <1>5. ASSUME NEW k \in DOMAIN s PROVE s[k] \in Range(t)
    <2>1. k \in DOMAIN t /\ t[k] = s[k]
      BY <1>2, <1>3
    <2> QED BY <2>1 DEF Range
  <1>6. e \in Range(t)
    BY <1>2, <1>3 DEF Range
  <1>7. Range(t) = Range(s) \union {e}
    BY <1>4, <1>5, <1>6 DEF Range
  <1>8. ASSUME IsInjective(s), e \notin Range(s) PROVE IsInjective(t)
    BY <1>2, <1>3, <1>8 DEF IsInjective, Range
  <1> QED BY <1>7, <1>8 DEF t

LEMMA PrependRange ==
    ASSUME NEW S, NEW s \in Seq(S), NEW e \in S,
           IsInjective(s), e \notin Range(s)
    PROVE  /\ Range(<<e>> \o s) = Range(s) \union {e}
           /\ IsInjective(<<e>> \o s)
  <1> DEFINE t == <<e>> \o s
  <1>1. t \in Seq(S) /\ Len(t) = Len(s) + 1
    OBVIOUS
  <1>2. ASSUME NEW k \in 1..(Len(s) + 1)
        PROVE  t[k] = IF k < 1 THEN s[k] ELSE IF k = 1 THEN e ELSE s[k - 1]
    OBVIOUS
  <1>3. 1 \in 1..(Len(s) + 1)
    OBVIOUS
  <1> HIDE DEF t
  <1>4. Range(t) = Range(s) \union {e} /\ IsInjective(t)
    BY <1>1, <1>2, <1>3, InsertedRange
  <1> QED BY <1>4 DEF t

LEMMA TailRange ==
    ASSUME NEW S, NEW s \in Seq(S), s # <<>>, IsInjective(s)
    PROVE  /\ Head(s) \in Range(s)
           /\ Range(Tail(s)) = Range(s) \ {Head(s)}
           /\ IsInjective(Tail(s))
  <1> DEFINE t == Tail(s)
             n == Len(s)
  <1>1. /\ t \in Seq(S) /\ Len(t) = n - 1
        /\ \A k \in 1..Len(t) : t[k] = s[k + 1]
    BY HeadTailProperties
  <1>2. n \in Nat /\ n > 0 /\ DOMAIN s = 1..n /\ Head(s) = s[1]
    OBVIOUS
  <1> HIDE DEF t, n
  <1>3. DOMAIN t = 1..(n - 1) /\ \A k \in 1..(n - 1) : t[k] = s[k + 1]
    BY <1>1, <1>2
  <1>4. \A j, k \in 1..n : s[j] = s[k] => j = k
    BY <1>2 DEF IsInjective
  <1>5. Head(s) \in Range(s)
    BY <1>2 DEF Range
  <1>6. IsInjective(t)
    BY <1>2, <1>3, <1>4 DEF IsInjective
  <1>7. ASSUME NEW k \in DOMAIN t PROVE t[k] \in Range(s) \ {Head(s)}
    <2>1. k + 1 \in DOMAIN s /\ t[k] = s[k + 1] /\ s[k + 1] # s[1]
      BY <1>2, <1>3, <1>4
    <2> QED BY <1>2, <2>1 DEF Range
  <1>8. ASSUME NEW k \in DOMAIN s, s[k] # Head(s) PROVE s[k] \in Range(t)
    <2>1. k - 1 \in DOMAIN t /\ t[k - 1] = s[k]
      BY <1>2, <1>3, <1>8
    <2> QED BY <2>1 DEF Range
  <1>9. Range(t) = Range(s) \ {Head(s)}
    BY <1>7, <1>8 DEF Range
  <1> QED BY <1>5, <1>6, <1>9 DEF t
(* Two sequences, one after the other.                                     *)
LEMMA ConcatRange ==
    ASSUME NEW S, NEW s \in Seq(S), NEW t \in Seq(S)
    PROVE  /\ s \o t \in Seq(S)
           /\ Range(s \o t) = Range(s) \union Range(t)
           /\ IsInjective(s \o t) <=>
                 /\ IsInjective(s) /\ IsInjective(t)
                 /\ Range(s) \intersect Range(t) = {}
  <1> DEFINE u == s \o t
             m == Len(s)
             n == Len(t)
  <1>1. /\ m \in Nat /\ n \in Nat /\ u \in Seq(S)
        /\ DOMAIN s = 1..m /\ DOMAIN t = 1..n /\ DOMAIN u = 1..(m + n)
    OBVIOUS
  <1>2. \A i \in 1..m : u[i] = s[i]
    OBVIOUS
  <1>3. \A i \in 1..n : u[m + i] = t[i]
    OBVIOUS
  <1> HIDE DEF u, m, n
  <1>4. ASSUME NEW i \in 1..(m + n)
        PROVE  i \in 1..m \/ \E j \in 1..n : i = m + j
    <2>1. CASE i <= m
      BY <1>1, <2>1
    <2>2. CASE i > m
      <3>1. i - m \in 1..n /\ i = m + (i - m)
        BY <1>1, <2>2
      <3> QED BY <3>1
    <2> QED BY <1>1, <2>1, <2>2
  <1>5. (\A i \in 1..m : i \in 1..(m + n)) /\ (\A j \in 1..n : m + j \in 1..(m + n))
    BY <1>1
  <1>6. Range(u) = Range(s) \union Range(t)
    <2>1. ASSUME NEW i \in 1..(m + n) PROVE u[i] \in Range(s) \union Range(t)
      <3>1. CASE i \in 1..m
        BY <1>1, <1>2, <3>1 DEF Range
      <3>2. CASE \E j \in 1..n : i = m + j
        BY <1>1, <1>3, <3>2 DEF Range
      <3> QED BY <1>4, <3>1, <3>2
    <2>2. \A i \in 1..m : s[i] \in Range(u)
      BY <1>1, <1>2, <1>5 DEF Range
    <2>3. \A j \in 1..n : t[j] \in Range(u)
      BY <1>1, <1>3, <1>5 DEF Range
    <2>4. Range(u) \subseteq Range(s) \union Range(t)
      BY <1>1, <2>1 DEF Range
    <2>5. Range(s) \union Range(t) \subseteq Range(u)
      BY <1>1, <2>2, <2>3 DEF Range
    <2> QED BY <2>4, <2>5
  <1>7. ASSUME IsInjective(u)
        PROVE  IsInjective(s) /\ IsInjective(t) /\ Range(s) \intersect Range(t) = {}
    <2>1. \A i, j \in 1..(m + n) : u[i] = u[j] => i = j
      BY <1>1, <1>7 DEF IsInjective
    <2>2. IsInjective(s)
      BY <1>1, <1>2, <1>5, <2>1 DEF IsInjective
    <2>3. \A i, j \in 1..n : m + i = m + j => i = j
      BY <1>1
    <2>4. IsInjective(t)
      BY <1>1, <1>3, <1>5, <2>1, <2>3 DEF IsInjective
    <2>5. \A i \in 1..m, j \in 1..n : i # m + j
      BY <1>1
    <2>6. Range(s) \intersect Range(t) = {}
      BY <1>1, <1>2, <1>3, <1>5, <2>1, <2>5 DEF Range
    <2> QED BY <2>2, <2>4, <2>6
  <1>8. ASSUME IsInjective(s), IsInjective(t), Range(s) \intersect Range(t) = {}
        PROVE  IsInjective(u)
    <2> SUFFICES ASSUME NEW i \in 1..(m + n), NEW j \in 1..(m + n), u[i] = u[j]
                 PROVE  i = j
      BY <1>1 DEF IsInjective
    <2>1. \A k \in 1..m, l \in 1..n : s[k] # t[l]
      BY <1>1, <1>8 DEF Range
    <2>2. CASE i \in 1..m /\ j \in 1..m
      BY <1>1, <1>2, <1>8, <2>2 DEF IsInjective
    <2>3. CASE i \in 1..m /\ \E l \in 1..n : j = m + l
      BY <1>2, <1>3, <2>1, <2>3
    <2>4. CASE j \in 1..m /\ \E k \in 1..n : i = m + k
      BY <1>2, <1>3, <2>1, <2>4
    <2>5. CASE (\E k \in 1..n : i = m + k) /\ (\E l \in 1..n : j = m + l)
      <3>1. PICK k \in 1..n, l \in 1..n : i = m + k /\ j = m + l
        BY <2>5
      <3>2. t[k] = t[l]
        BY <1>3, <3>1
      <3> QED BY <1>1, <1>8, <3>1, <3>2 DEF IsInjective
    <2> QED BY <1>4, <2>2, <2>3, <2>4, <2>5
  <1> QED BY <1>1, <1>6, <1>7, <1>8 DEF u

-----------------------------------------------------------------------------
(* A sequence without repetitions is as long as its range is large.        *)
LEMMA RangeCardinality ==
    ASSUME NEW S, NEW s \in Seq(S), IsInjective(s)
    PROVE  IsFiniteSet(Range(s)) /\ Cardinality(Range(s)) = Len(s)
  <1>1. Len(s) \in Nat /\ DOMAIN s = 1..Len(s) /\ s \in [1..Len(s) -> Range(s)]
    BY DEF Range
  <1>2. s \in Bijection(1..Len(s), Range(s))
    BY <1>1 DEF Bijection, Injection, Surjection, Range
  <1>3. IsFiniteSet(1..Len(s)) /\ Cardinality(1..Len(s)) = Len(s)
    BY SMTT(30), <1>1, FS_Interval
  <1>4. ExistsBijection(1..Len(s), Range(s))
    BY <1>2 DEF ExistsBijection
  <1> QED BY <1>3, <1>4, FS_Bijection

LEMMA DisjointUnion ==
    ASSUME NEW S, NEW T, IsFiniteSet(S), IsFiniteSet(T), S \intersect T = {}
    PROVE  /\ IsFiniteSet(S \union T)
           /\ Cardinality(S \union T) = Cardinality(S) + Cardinality(T)
  <1>1. Cardinality(S) \in Nat /\ Cardinality(T) \in Nat
    BY FS_CardinalityType
  <1>2. Cardinality(S \intersect T) = 0
    BY FS_EmptySet
  <1>3. /\ IsFiniteSet(S \union T)
        /\ Cardinality(S \union T) = Cardinality(S) + Cardinality(T)
                                       - Cardinality(S \intersect T)
    BY FS_Union
  <1> QED BY <1>1, <1>2, <1>3

-----------------------------------------------------------------------------
(* Sequences that are known by their elements, whatever set these are of.  *)

IsSequence(s) == s \in Seq(Range(s))

(* Short tuples: what is first, and what is left.                          *)
LEMMA Tuples ==
    /\ \A x : Head(<<x>>) = x /\ Tail(<<x>>) = <<>> /\ <<x>> # <<>>
    /\ \A x, y : Head(<<x, y>>) = x /\ Tail(<<x, y>>) = <<y>> /\ <<x, y>> # <<>>
    /\ \A x, y, z : Head(<<x, y, z>>) = x /\ Tail(<<x, y, z>>) = <<y, z>> /\ <<x, y, z>> # <<>>
  OBVIOUS

LEMMA TupleSequences ==
    /\ IsSequence(<<>>)
    /\ \A x : IsSequence(<<x>>)
    /\ \A x, y : IsSequence(<<x, y>>)
  <1>1. \A x : <<x>> \in Seq({x}) /\ Range(<<x>>) = {x}
    BY DEF Range
  <1>2. ASSUME NEW x, NEW y PROVE IsSequence(<<x, y>>)
    <2>1. <<x, y>> \in Seq({x, y}) /\ DOMAIN <<x, y>> = {1, 2}
      OBVIOUS
    <2>2. x \in Range(<<x, y>>) /\ y \in Range(<<x, y>>)
      <3>1. <<x, y>>[1] = x /\ <<x, y>>[2] = y
        OBVIOUS
      <3> QED BY <2>1, <3>1 DEF Range
    <2> QED BY <2>2 DEF IsSequence
  <1>3. IsSequence(<<>>)
    BY DEF IsSequence
  <1> QED BY <1>1, <1>2, <1>3 DEF IsSequence

(* A sequence is one whatever set its elements are taken from.             *)
LEMMA AnySequence ==
    ASSUME NEW S, NEW s \in Seq(S)
    PROVE  IsSequence(s) /\ Len(s) \in Nat /\ DOMAIN s = 1..Len(s)
  <1>1. s \in [1..Len(s) -> S] /\ Len(s) \in Nat
    OBVIOUS
  <1>2. s \in [1..Len(s) -> Range(s)]
    BY <1>1 DEF Range
  <1> QED BY <1>1, <1>2 DEF IsSequence

LEMMA ListIsSequence ==
    ASSUME NEW s, IsList(s)
    PROVE  IsSequence(s)
  <1>1. PICK n \in Nat : n = Len(s) /\ DOMAIN s = 1..n /\ s = [i \in 1..n |-> s[i]]
    BY DEF IsList
  <1>2. s \in [1..n -> Range(s)]
    BY <1>1 DEF Range
  <1> QED BY <1>2 DEF IsSequence

(* Where the elements are after an operation.                              *)
LEMMA ConcatElements ==
    ASSUME NEW s, NEW t, IsSequence(s), IsSequence(t)
    PROVE  /\ IsSequence(s \o t) /\ Len(s \o t) = Len(s) + Len(t)
           /\ Len(s) \in Nat /\ Len(t) \in Nat
           /\ \A i \in 1..Len(s) : (s \o t)[i] = s[i]
           /\ \A i \in 1..Len(t) : (s \o t)[Len(s) + i] = t[i]
  <1> DEFINE S == Range(s) \union Range(t)
  <1>1. s \in Seq(S) /\ t \in Seq(S)
    BY DEF IsSequence
  <1> HIDE DEF S
  <1>2. s \o t \in Seq(S)
    BY <1>1
  <1>3. IsSequence(s \o t)
    BY <1>2, AnySequence
  <1>4. Len(s) \in Nat /\ Len(t) \in Nat /\ Len(s \o t) = Len(s) + Len(t)
    BY <1>1
  <1>5. \A i \in 1..Len(s) : (s \o t)[i] = s[i]
    BY <1>1
  <1>6. \A i \in 1..Len(t) : (s \o t)[Len(s) + i] = t[i]
    BY <1>1
  <1> QED BY <1>3, <1>4, <1>5, <1>6

(* The same, counted from the place after the first n and one.             *)
LEMMA AddedElements ==
    ASSUME NEW s, NEW t, IsSequence(s), IsSequence(t), NEW n \in Nat, Len(s) = n + 1
    PROVE  /\ IsSequence(s \o t) /\ Len(s \o t) = n + 1 + Len(t) /\ Len(t) \in Nat
           /\ \A i \in 1..(n + 1) : (s \o t)[i] = s[i]
           /\ \A i \in (n + 2)..Len(s \o t) : (s \o t)[i] = t[i - n - 1]
  <1>1. /\ IsSequence(s \o t) /\ Len(s \o t) = n + 1 + Len(t) /\ Len(t) \in Nat
        /\ \A i \in 1..(n + 1) : (s \o t)[i] = s[i]
    BY ConcatElements
  <1>2. \A i \in 1..Len(t) : (s \o t)[n + 1 + i] = t[i]
    BY ConcatElements
  <1>3. ASSUME NEW i \in (n + 2)..Len(s \o t) PROVE (s \o t)[i] = t[i - n - 1]
    <2>1. i - n - 1 \in 1..Len(t) /\ n + 1 + (i - n - 1) = i
      BY <1>1
    <2>2. (s \o t)[n + 1 + (i - n - 1)] = t[i - n - 1]
      BY <1>2, <2>1
    <2> QED BY <2>1, <2>2
  <1> QED BY <1>1, <1>3

LEMMA AppendElements ==
    ASSUME NEW s, NEW e, IsSequence(s)
    PROVE  /\ IsSequence(Append(s, e)) /\ Len(Append(s, e)) = Len(s) + 1 /\ Len(s) \in Nat
           /\ \A i \in 1..Len(s) : Append(s, e)[i] = s[i]
           /\ Append(s, e)[Len(s) + 1] = e
  <1> DEFINE S == Range(s) \union {e}
  <1>1. s \in Seq(S) /\ e \in S
    BY DEF IsSequence
  <1> HIDE DEF S
  <1>2. /\ Append(s, e) \in Seq(S) /\ Len(Append(s, e)) = Len(s) + 1 /\ Len(s) \in Nat
        /\ \A i \in 1..Len(s) : Append(s, e)[i] = s[i]
        /\ Append(s, e)[Len(s) + 1] = e
    BY <1>1, AppendProperties
  <1>3. IsSequence(Append(s, e))
    BY <1>2, AnySequence
  <1> QED BY <1>2, <1>3

LEMMA TailElements ==
    ASSUME NEW s, IsSequence(s), s # <<>>
    PROVE  /\ IsSequence(Tail(s)) /\ Len(Tail(s)) = Len(s) - 1 /\ Len(s) \in Nat \ {0}
           /\ Head(s) = s[1] /\ \A i \in 1..(Len(s) - 1) : Tail(s)[i] = s[i + 1]
  <1>1. s \in Seq(Range(s))
    BY DEF IsSequence
  <1>2. /\ Tail(s) \in Seq(Range(s)) /\ Len(Tail(s)) = Len(s) - 1 /\ Len(s) \in Nat \ {0}
        /\ Head(s) = s[1] /\ \A i \in 1..(Len(s) - 1) : Tail(s)[i] = s[i + 1]
    BY <1>1, HeadTailProperties
  <1> QED BY <1>2, AnySequence

LEMMA PrefixElements ==
    ASSUME NEW s, IsSequence(s), NEW n \in 0..Len(s)
    PROVE  /\ IsSequence(SubSeq(s, 1, n)) /\ Len(SubSeq(s, 1, n)) = n
           /\ \A i \in 1..n : SubSeq(s, 1, n)[i] = s[i]
  <1>1. s \in Seq(Range(s)) /\ Len(s) \in Nat
    BY DEF IsSequence
  <1>2. /\ SubSeq(s, 1, n) \in Seq(Range(s)) /\ Len(SubSeq(s, 1, n)) = n
        /\ \A i \in 1..n : SubSeq(s, 1, n)[i] = s[i]
    BY <1>1
  <1> QED BY <1>2, AnySequence

LEMMA EmptyOrNot ==
    ASSUME NEW s, IsSequence(s)
    PROVE  Len(s) \in Nat /\ (Len(s) = 0 <=> s = <<>>)
  BY DEF IsSequence

LEMMA EmptyBefore == ASSUME NEW s, IsSequence(s) PROVE <<>> \o s = s
  <1>1. s \in Seq(Range(s))
    BY DEF IsSequence
  <1> QED BY <1>1

(* Sequences of the same length with the same elements are equal.          *)
LEMMA SameElements ==
    ASSUME NEW s, NEW t, IsSequence(s), IsSequence(t), Len(s) = Len(t),
           \A i \in 1..Len(s) : s[i] = t[i]
    PROVE  s = t
  <1> DEFINE S == Range(s) \union Range(t)
  <1>1. s \in Seq(S) /\ t \in Seq(S)
    BY DEF IsSequence
  <1> HIDE DEF S
  <1> QED BY <1>1, SeqEqual

(* What is put together from short tuples.                                 *)
LEMMA PairOrTriple ==
    ASSUME NEW u, IsSequence(u)
    PROVE  /\ Len(u) = 2 => u = <<u[1], u[2]>>
           /\ Len(u) = 3 => u = <<u[1], u[2], u[3]>>
  BY DEF IsSequence

LEMMA ConcatTuples ==
    /\ \A x, p : <<x>> \o <<p>> = <<x, p>>
    /\ \A x, y, p : <<x, y>> \o <<p>> = <<x, y, p>>
  <1>1. ASSUME NEW x, NEW p PROVE <<x>> \o <<p>> = <<x, p>>
    <2> PICK u : u = <<x>> \o <<p>>
      OBVIOUS
    <2>1. IsSequence(<<x>>) /\ IsSequence(<<p>>) /\ Len(<<x>>) = 1 /\ Len(<<p>>) = 1
      BY TupleSequences
    <2>2. IsSequence(u) /\ Len(u) = 2
      BY <2>1, ConcatElements
    <2>3. u[1] = <<x>>[1] /\ u[1 + 1] = <<p>>[1]
      BY <2>1, ConcatElements
    <2>4. u[1] = x /\ u[2] = p
      BY <2>3
    <2>5. u = <<u[1], u[2]>>
      BY <2>2, PairOrTriple
    <2> QED BY <2>4, <2>5
  <1>2. ASSUME NEW x, NEW y, NEW p PROVE <<x, y>> \o <<p>> = <<x, y, p>>
    <2> PICK u : u = <<x, y>> \o <<p>>
      OBVIOUS
    <2>1. IsSequence(<<x, y>>) /\ IsSequence(<<p>>) /\ Len(<<x, y>>) = 2 /\ Len(<<p>>) = 1
      BY TupleSequences
    <2>2. IsSequence(u) /\ Len(u) = 3
      BY <2>1, ConcatElements
    <2>3. u[1] = <<x, y>>[1] /\ u[2] = <<x, y>>[2] /\ u[2 + 1] = <<p>>[1]
      BY <2>1, ConcatElements
    <2>4. u[1] = x /\ u[2] = y /\ u[3] = p
      BY <2>3
    <2>5. u = <<u[1], u[2], u[3]>>
      BY <2>2, PairOrTriple
    <2> QED BY <2>4, <2>5
  <1> QED BY <1>1, <1>2

LEMMA AppendPair == \A x, y : Append(<<x>>, y) = <<x, y>>
  <1>1. ASSUME NEW x, NEW y PROVE Append(<<x>>, y) = <<x, y>>
    <2> PICK u : u = Append(<<x>>, y)
      OBVIOUS
    <2>1. IsSequence(<<x>>) /\ Len(<<x>>) = 1
      BY TupleSequences
    <2>2. IsSequence(u) /\ Len(u) = 2 /\ u[1] = <<x>>[1] /\ u[1 + 1] = y
      BY <2>1, AppendElements
    <2>3. u[1] = x /\ u[2] = y
      BY <2>2
    <2>4. u = <<u[1], u[2]>>
      BY <2>2, PairOrTriple
    <2> QED BY <2>3, <2>4
  <1> QED BY <1>1

(* One element after a sequence, and a sequence after that.                *)
LEMMA OneElementMore ==
    ASSUME NEW s, IsSequence(s), NEW r
    PROVE  /\ IsSequence(s \o <<r>>) /\ Len(s \o <<r>>) = Len(s) + 1 /\ Len(s) \in Nat
           /\ \A i \in 1..Len(s) : (s \o <<r>>)[i] = s[i]
           /\ (s \o <<r>>)[Len(s) + 1] = r
  <1>1. ASSUME NEW t, IsSequence(t), Len(t) = 1
        PROVE  /\ IsSequence(s \o t) /\ Len(s \o t) = Len(s) + 1 /\ Len(s) \in Nat
               /\ \A i \in 1..Len(s) : (s \o t)[i] = s[i]
               /\ (s \o t)[Len(s) + 1] = t[1]
    <2>1. /\ IsSequence(s \o t) /\ Len(s \o t) = Len(s) + Len(t) /\ Len(s) \in Nat
          /\ \A i \in 1..Len(s) : (s \o t)[i] = s[i]
      BY <1>1, ConcatElements
    <2>3. \A i \in 1..Len(t) : (s \o t)[Len(s) + i] = t[i]
      BY <1>1, ConcatElements
    <2>2. 1 \in 1..Len(t)
      BY <1>1
    <2> QED BY <1>1, <2>1, <2>2, <2>3
  <1>2. IsSequence(<<r>>) /\ Len(<<r>>) = 1 /\ <<r>>[1] = r
    BY TupleSequences
  <1> QED BY <1>1, <1>2

LEMMA OneAndOthersMore ==
    ASSUME NEW s, IsSequence(s), NEW r, NEW t, IsSequence(t), NEW n \in Nat, Len(s) = n
    PROVE  /\ IsSequence(s \o <<r>> \o t) /\ Len(s \o <<r>> \o t) = n + 1 + Len(t)
           /\ \A i \in 1..n : (s \o <<r>> \o t)[i] = s[i]
           /\ (s \o <<r>> \o t)[n + 1] = r
           /\ \A i \in (n + 2)..Len(s \o <<r>> \o t) : (s \o <<r>> \o t)[i] = t[i - n - 1]
  <1>1. ASSUME NEW o, IsSequence(o), Len(o) = n + 1
        PROVE  /\ IsSequence(o \o t) /\ Len(o \o t) = n + 1 + Len(t)
               /\ \A i \in 1..(n + 1) : (o \o t)[i] = o[i]
               /\ \A i \in (n + 2)..Len(o \o t) : (o \o t)[i] = t[i - n - 1]
    BY <1>1, AddedElements
  <1>2. ASSUME NEW o, IsSequence(o), Len(o) = n + 1, \A i \in 1..n : o[i] = s[i], o[n + 1] = r
        PROVE  /\ \A i \in 1..n : (o \o t)[i] = s[i]
               /\ (o \o t)[n + 1] = r
    <2>1. \A i \in 1..(n + 1) : (o \o t)[i] = o[i]
      BY <1>1, <1>2
    <2> QED BY <1>2, <2>1
  <1>3. /\ IsSequence(s \o <<r>>) /\ Len(s \o <<r>>) = n + 1
        /\ \A i \in 1..n : (s \o <<r>>)[i] = s[i]
        /\ (s \o <<r>>)[n + 1] = r
    BY ZenonT(60), OneElementMore
  <1>4. /\ IsSequence(s \o <<r>> \o t) /\ Len(s \o <<r>> \o t) = n + 1 + Len(t)
        /\ \A i \in (n + 2)..Len(s \o <<r>> \o t) : (s \o <<r>> \o t)[i] = t[i - n - 1]
    BY <1>1, <1>3
  <1>5. /\ \A i \in 1..n : (s \o <<r>> \o t)[i] = s[i]
        /\ (s \o <<r>> \o t)[n + 1] = r
    BY <1>2, <1>3
  <1> QED BY <1>4, <1>5
-----------------------------------------------------------------------------
(* Induction.  The library's principles take the property as an operator;  *)
(* these take it as a set, and rest on the well-founded order of the       *)
(* finite sets.                                                            *)

LEMMA LeastNatural ==
    ASSUME NEW T \in SUBSET Nat, T # {}
    PROVE  \E m \in T : \A k \in T : m <= k
  <1> DEFINE U == {0..m : m \in T}
             R == StrictSubsetOrdering(Nat)
             S == FiniteSubsetsOf(Nat)
  <1>1. IsWellFoundedOn(R, S)
    BY FS_StrictSubsetOrderingWellFounded
  <1>2. U \subseteq S
    <2>1. ASSUME NEW m \in T PROVE IsFiniteSet(0..m) /\ 0..m \subseteq Nat
      BY FS_Interval
    <2> QED BY <2>1 DEF FiniteSubsetsOf
  <1>3. U # {}
    OBVIOUS
  <1>4. PICK x \in U : \A y \in U : ~(<<y, x>> \in R)
    <2> HIDE DEF U, R, S
    <2> QED BY <1>1, <1>2, <1>3, WFMin
  <1>5. PICK m \in T : x = 0..m
    BY <1>4
  <1>6. ASSUME NEW k \in T PROVE m <= k
    <2>1. CASE k < m
      <3>1. 0..k \subseteq 0..m /\ 0..k # 0..m /\ 0..m \subseteq Nat /\ 0..k \subseteq Nat
        BY <2>1
      <3>2. <<0..k, 0..m>> \in R
        BY <3>1 DEF StrictSubsetOrdering
      <3> QED BY <1>4, <1>5, <3>2
    <2> QED BY <2>1
  <1> QED BY <1>6

(* Induction over the naturals.                                            *)
LEMMA InductiveSet ==
    ASSUME NEW T, 0 \in T, \A n \in Nat : n \in T => n + 1 \in T
    PROVE  Nat \subseteq T
  <1> SUFFICES ASSUME NEW n \in Nat \ T PROVE FALSE
    OBVIOUS
  <1>1. PICK m \in Nat \ T : \A k \in Nat \ T : m <= k
    BY LeastNatural
  <1>2. m - 1 \in Nat /\ m - 1 \notin Nat \ T
    BY <1>1
  <1> QED BY <1>1, <1>2

LEMMA InductiveInterval ==
    ASSUME NEW n \in Nat, NEW T, 0 \in T, \A i \in 1..n : i - 1 \in T => i \in T
    PROVE  0..n \subseteq T
  <1> DEFINE U == {k \in Nat : k <= n => k \in T}
  <1>1. 0 \in U
    OBVIOUS
  <1>2. ASSUME NEW k \in Nat, k \in U PROVE k + 1 \in U
    <2> SUFFICES ASSUME k + 1 <= n PROVE k + 1 \in T
      OBVIOUS
    <2>1. k + 1 \in 1..n /\ (k + 1) - 1 = k /\ k \in T
      BY <1>2
    <2> QED BY <2>1
  <1>3. Nat \subseteq U
    <2> HIDE DEF U
    <2> QED BY <1>1, <1>2, InductiveSet
  <1> QED BY <1>3

(* Induction over the subsets of a finite set, by one element.             *)
LEMMA InductiveSubsets ==
    ASSUME NEW S, IsFiniteSet(S), NEW P, {} \in P,
           \A t \in SUBSET S, x \in S : t \in P => t \union {x} \in P
    PROVE  \A t \in SUBSET S : t \in P
  <1> DEFINE T == {n \in Nat : \A t \in SUBSET S : Cardinality(t) = n => t \in P}
  <1>1. 0 \in T
    <2>1. ASSUME NEW t \in SUBSET S, Cardinality(t) = 0 PROVE t = {}
      BY <2>1, FS_Subset, FS_EmptySet
    <2> QED BY <2>1
  <1>2. ASSUME NEW n \in Nat, n \in T PROVE n + 1 \in T
    <2> SUFFICES ASSUME NEW t \in SUBSET S, Cardinality(t) = n + 1 PROVE t \in P
      OBVIOUS
    <2>1. IsFiniteSet(t)
      BY FS_Subset
    <2>2. t # {}
      <3>1. CASE t = {}
        <4>1. Cardinality(t) = 0
          BY <3>1, FS_EmptySet
        <4> QED BY <4>1
      <3> QED BY <3>1
    <2>3. PICK x \in t : TRUE
      BY <2>2
    <2>4. Cardinality(t \ {x}) = n
      <3>1. Cardinality(t \ {x}) = Cardinality(t) - 1
        BY <2>1, <2>3, FS_RemoveElement
      <3> QED BY <3>1
    <2>5. t \ {x} \in SUBSET S /\ x \in S /\ (t \ {x}) \union {x} = t
      BY <2>3
    <2>6. t \ {x} \in P
      BY <1>2, <2>4, <2>5
    <2> QED BY <2>5, <2>6
  <1>3. Nat \subseteq T
    <2> HIDE DEF T
    <2> QED BY <1>1, <1>2, InductiveSet
  <1>4. \A t \in SUBSET S : Cardinality(t) \in Nat
    BY FS_Subset, FS_CardinalityType
  <1> QED BY <1>3, <1>4
-----------------------------------------------------------------------------
(* Folds.  A fold over a finite set S takes out an element at a time, c[t] *)
(* of the set t that is left; G is what is done with it.                   *)
Chooses(c, S) == \A t \in SUBSET S : t # {} => c[t] \in t
FoldsUp(it, S, V, b, G, c) ==
    /\ it \in [SUBSET S -> V]
    /\ it = [t \in SUBSET S |-> IF t = {} THEN b ELSE G[<<it[t \ {c[t]}], c[t]>>]]

LEMMA FoldExists ==
    ASSUME NEW S, IsFiniteSet(S), NEW V, NEW b \in V, NEW G \in [V \X S -> V],
           NEW c, Chooses(c, S)
    PROVE  \E it : FoldsUp(it, S, V, b, G, c)
  <1> DEFINE Small(k) == {t \in SUBSET S : Cardinality(t) <= k}
             Good(it, k) ==
                /\ it \in [Small(k) -> V] /\ it[{}] = b
                /\ \A t \in Small(k) : t # {} => it[t] = G[<<it[t \ {c[t]}], c[t]>>]
             T == {k \in Nat : \E it : Good(it, k)}
  <1>1. \A t \in SUBSET S : IsFiniteSet(t) /\ Cardinality(t) \in Nat
    BY FS_Subset, FS_CardinalityType
  <1>2. ASSUME NEW t \in SUBSET S, t # {}
        PROVE  /\ t \ {c[t]} \in SUBSET S /\ c[t] \in S
               /\ Cardinality(t \ {c[t]}) = Cardinality(t) - 1
    BY <1>1, <1>2, FS_RemoveElement DEF Chooses
  <1>3. 0 \in T
    <2> DEFINE f == [t \in Small(0) |-> b]
    <2>1. {} \in Small(0) /\ \A t \in Small(0) : t = {}
      BY <1>1, FS_EmptySet
    <2>2. f \in [Small(0) -> V] /\ f[{}] = b
      BY <2>1
    <2> HIDE DEF f
    <2>3. Good(f, 0)
      BY <2>1, <2>2
    <2> HIDE DEF Good
    <2> QED BY <2>3
  <1>4. ASSUME NEW k \in Nat, k \in T PROVE k + 1 \in T
    <2>1. PICK f : Good(f, k)
      <3> HIDE DEF Good
      <3> QED BY <1>4
    <2> DEFINE v(t) == G[<<f[t \ {c[t]}], c[t]>>]
               g == [t \in Small(k + 1) |-> IF t = {} THEN b ELSE v(t)]
    <2>2. ASSUME NEW t \in Small(k + 1), t # {}
          PROVE  t \ {c[t]} \in Small(k) /\ v(t) \in V
      <3>1. t \ {c[t]} \in Small(k) /\ c[t] \in S
        BY <1>1, <1>2, <2>2
      <3>2. f[t \ {c[t]}] \in V
        BY <2>1, <3>1
      <3> QED BY <3>1, <3>2
    <2>3. Small(k) \subseteq Small(k + 1) /\ {} \in Small(k) /\ {} \in Small(k + 1)
      BY <1>1, FS_EmptySet
    <2>4. \A t \in Small(k) : f[t] = IF t = {} THEN b ELSE v(t)
      BY <2>1
    <2> HIDE DEF v, Small
    <2>5. /\ g \in [Small(k + 1) -> V] /\ g[{}] = b
          /\ \A t \in Small(k + 1) : t # {} => g[t] = v(t)
          /\ \A t \in Small(k) : g[t] = f[t]
      BY <2>2, <2>3, <2>4
    <2> HIDE DEF g
    <2>6. ASSUME NEW t \in Small(k + 1), t # {} PROVE g[t] = G[<<g[t \ {c[t]}], c[t]>>]
      <3>1. g[t] = v(t) /\ g[t \ {c[t]}] = f[t \ {c[t]}]
        BY <2>2, <2>5, <2>6
      <3> QED BY <3>1 DEF v
    <2>7. Good(g, k + 1)
      BY <2>5, <2>6
    <2> HIDE DEF Good
    <2> QED BY <2>7
  <1>5. Cardinality(S) \in T
    <2> HIDE DEF T
    <2>1. Nat \subseteq T
      BY <1>3, <1>4, InductiveSet
    <2> QED BY <1>1, <2>1
  <1>6. PICK f : Good(f, Cardinality(S))
    <2> HIDE DEF Good
    <2> QED BY <1>5
  <1>7. Small(Cardinality(S)) = SUBSET S
    <2>1. \A t \in SUBSET S : Cardinality(t) <= Cardinality(S)
      BY FS_Subset
    <2> QED BY <2>1
  <1> HIDE DEF Small
  <1>8. f = [t \in SUBSET S |-> IF t = {} THEN b ELSE G[<<f[t \ {c[t]}], c[t]>>]]
    BY <1>6, <1>7
  <1> QED BY <1>6, <1>7, <1>8 DEF FoldsUp

(* A fold from the left takes the last place first.                        *)
LEMMA MaxIn ==
    ASSUME NEW n \in Nat, NEW t \in SUBSET (1..n), t # {}
    PROVE  Max(t) \in t /\ \A i \in t : i <= Max(t)
  <1> DEFINE U == {n - i : i \in t}
  <1>1. U \in SUBSET Nat /\ U # {}
    <2>1. ASSUME NEW i \in t PROVE n - i \in Nat
      OBVIOUS
    <2>2. PICK i \in t : TRUE
      OBVIOUS
    <2>3. n - i \in U
      OBVIOUS
    <2> QED BY <2>1, <2>3
  <1>2. PICK m \in U : \A k \in U : m <= k
    <2> HIDE DEF U
    <2> QED BY <1>1, LeastNatural
  <1>3. PICK i \in t : m = n - i
    BY <1>2
  <1>4. \A j \in t : i >= j
    <2> TAKE j \in t
    <2>1. n - j \in U
      OBVIOUS
    <2> QED BY <1>2, <1>3, <2>1
  <1>5. Max(t) \in t /\ \A j \in t : Max(t) >= j
    BY <1>3, <1>4 DEF Max
  <1> QED BY <1>5

LEMMA MaxOfPrefix ==
    ASSUME NEW k \in Nat \ {0}
    PROVE  Max(1..k) = k /\ (1..k) \ {Max(1..k)} = 1..(k - 1)
  <1>1. k \in 1..k /\ 1..k # {} /\ 1..k \in SUBSET (1..k)
    OBVIOUS
  <1>2. Max(1..k) \in 1..k /\ k <= Max(1..k)
    BY <1>1, MaxIn
  <1>3. Max(1..k) = k
    BY <1>2
  <1> QED BY <1>3

LastFirst(n) == [t \in SUBSET (1..n) |-> Max(t)]

LEMMA LastFirstChooses ==
    ASSUME NEW n \in Nat
    PROVE  IsFiniteSet(1..n) /\ Chooses(LastFirst(n), 1..n)
  <1>1. IsFiniteSet(1..n)
    BY FS_Interval
  <1>2. ASSUME NEW t \in SUBSET (1..n), t # {} PROVE LastFirst(n)[t] \in t
    BY <1>2, MaxIn DEF LastFirst
  <1> QED BY <1>1, <1>2 DEF Chooses
(* A fold from the left is built up over the sets of at most k places.      *)
SmallSets(n, k) == {t \in SUBSET (1..n) : Cardinality(t) <= k}

LEMMA SmallSetsGrow ==
    ASSUME NEW n \in Nat
    PROVE  /\ \A t \in SmallSets(n, 0) : t = {}
           /\ SmallSets(n, n) = SUBSET (1..n)
           /\ \A k \in Nat :
                 /\ SmallSets(n, k) \subseteq SmallSets(n, k + 1)
                 /\ \A t \in SmallSets(n, k + 1) : t # {} => t \ {Max(t)} \in SmallSets(n, k)
  <1>1. IsFiniteSet(1..n) /\ Cardinality(1..n) = n
    BY FS_Interval
  <1>2. ASSUME NEW t \in SUBSET (1..n)
        PROVE  IsFiniteSet(t) /\ Cardinality(t) \in Nat /\ Cardinality(t) <= n
    <2>1. IsFiniteSet(t) /\ Cardinality(t) <= Cardinality(1..n)
      BY <1>1, FS_Subset
    <2> QED BY <1>1, <2>1, FS_CardinalityType
  <1>3. ASSUME NEW t \in SmallSets(n, 0) PROVE t = {}
    <2>1. IsFiniteSet(t) /\ Cardinality(t) = 0
      BY <1>2 DEF SmallSets
    <2> QED BY <2>1, FS_EmptySet
  <1>4. SmallSets(n, n) = SUBSET (1..n)
    BY <1>2 DEF SmallSets
  <1>5. ASSUME NEW k \in Nat, NEW t \in SmallSets(n, k + 1), t # {}
        PROVE  t \ {Max(t)} \in SmallSets(n, k)
    <2>1. t \in SUBSET (1..n) /\ IsFiniteSet(t) /\ Cardinality(t) <= k + 1 /\ Cardinality(t) \in Nat
      BY <1>2 DEF SmallSets
    <2>2. Max(t) \in t
      BY <1>5, <2>1, MaxIn
    <2>3. t \ {Max(t)} \in SUBSET (1..n) /\ Cardinality(t \ {Max(t)}) = Cardinality(t) - 1
      BY <2>1, <2>2, FS_RemoveElement
    <2> QED BY <2>1, <2>3 DEF SmallSets
  <1>6. \A k \in Nat : SmallSets(n, k) \subseteq SmallSets(n, k + 1)
    BY <1>2 DEF SmallSets
  <1> QED BY <1>3, <1>4, <1>5, <1>6
-----------------------------------------------------------------------------
(* Selecting.                                                              *)
(* What has been selected after each place.                                *)
SelectsUp(F, s, T) ==
    /\ F[0] = <<>>
    /\ \A i \in 1..Len(s) : F[i] = IF s[i] \in T THEN Append(F[i - 1], s[i]) ELSE F[i - 1]

LEMMA SelectedPlaces ==
    ASSUME NEW S, NEW s \in Seq(S), NEW T
    PROVE  \E F \in [0..Len(s) -> Seq(S)] : F[Len(s)] = Selected(s, T) /\ SelectsUp(F, s, T)
  <1> DEFINE n == Len(s)
             op(kept, x) == IF x \in T THEN Append(kept, x) ELSE kept
             G == [p \in Seq(S) \X (1..n) |-> op(p[1], s[p[2]])]
             Is(it) == it = [t \in SUBSET DOMAIN s |->
                                IF t = {} THEN <<>> ELSE op(it[t \ {Max(t)}], s[Max(t)])]
             H == CHOOSE it : Is(it)
  <1>1. /\ G \in [Seq(S) \X (1..n) -> Seq(S)] /\ <<>> \in Seq(S)
        /\ n \in Nat /\ DOMAIN s = 1..n
    OBVIOUS
  <1>2. PICK f : FoldsUp(f, 1..n, Seq(S), <<>>, G, LastFirst(n))
    <2> HIDE DEF G, n
    <2> QED BY <1>1, LastFirstChooses, FoldExists
  <1>3. Is(f)
    <2>1. ASSUME NEW t \in SUBSET (1..n), t # {}
          PROVE  f[t] = op(f[t \ {Max(t)}], s[Max(t)])
      <3>1. Max(t) \in 1..n
        BY <1>1, <2>1, MaxIn
      <3>2. f[t \ {Max(t)}] \in Seq(S)
        BY <1>2 DEF FoldsUp
      <3>3. f[t] = G[<<f[t \ {Max(t)}], Max(t)>>]
        BY <1>2, <2>1 DEF FoldsUp, LastFirst
      <3> QED BY <3>1, <3>2, <3>3
    <2> HIDE DEF op
    <2> QED BY <1>1, <1>2, <2>1 DEF FoldsUp
  <1>4. Is(H)
    <2> HIDE DEF Is
    <2> QED BY <1>3
  <1>5. Selected(s, T) = H[1..n]
    <2>1. Selected(s, T) = H[DOMAIN s]
      BY DEF Selected, FoldLeft, MapThenFoldSet
    <2> HIDE DEF H
    <2> QED BY <1>1, <2>1
  <1>6. H[{}] = <<>>
    BY <1>4
  <1>7. ASSUME NEW i \in 1..n PROVE H[1..i] = op(H[1..(i - 1)], s[i])
    <2>1. 1..i \in SUBSET DOMAIN s /\ 1..i # {}
      <3>1. i \in Nat /\ 1 <= i /\ i <= n /\ n \in Nat
        BY <1>1
      <3> HIDE DEF n
      <3>2. i \in 1..i /\ 1..i \subseteq 1..n
        BY <3>1
      <3> QED BY <1>1, <3>2
    <2>2. Max(1..i) = i /\ (1..i) \ {Max(1..i)} = 1..(i - 1)
      BY MaxOfPrefix
    <2> HIDE DEF H, op
    <2> QED BY <1>4, <2>1, <2>2
  <1> DEFINE F == [i \in 0..n |-> H[1..i]]
  <1> HIDE DEF H
  <1>8. F[0] = <<>> /\ F[n] = Selected(s, T) /\ \A i \in 1..n : F[i] = op(F[i - 1], s[i])
    <2>1. 1..0 = {}
      OBVIOUS
    <2> HIDE DEF op
    <2> QED BY <1>1, <1>5, <1>6, <1>7, <2>1
  <1> HIDE DEF F
  <1>9. \A i \in 0..n : F[i] \in Seq(S)
    <2> DEFINE U == {i \in 0..n : F[i] \in Seq(S)}
    <2>1. 0 \in U
      <3>1. n \in Nat /\ <<>> \in Seq(S) /\ F[0] = <<>>
        BY <1>1, <1>8
      <3> HIDE DEF n
      <3>2. F[0] \in Seq(S)
        BY <3>1
      <3>3. 0 \in 0..n
        BY <3>1
      <3> QED BY <3>2, <3>3
    <2>2. ASSUME NEW i \in 1..n, i - 1 \in U PROVE i \in U
      <3>1. F[i - 1] \in Seq(S) /\ s[i] \in S /\ i \in 0..n
        BY <2>2
      <3>2. op(F[i - 1], s[i]) \in Seq(S)
        BY <3>1
      <3> HIDE DEF op, n
      <3> QED BY <1>8, <3>1, <3>2
    <2> HIDE DEF U
    <2>3. 0..n \subseteq U
      BY <1>1, <2>1, <2>2, InductiveInterval
    <2> QED BY <2>3 DEF U
  <1>10. F \in [0..n -> Seq(S)]
    BY <1>9 DEF F
  <1> QED BY <1>8, <1>10 DEF SelectsUp

(* What is selected is what is in the set, in its order.                   *)
LEMMA SelectedElements ==
    ASSUME NEW S, NEW s \in Seq(S), NEW T
    PROVE  /\ Selected(s, T) \in Seq(S)
           /\ Range(Selected(s, T)) = Range(s) \intersect T
  <1>1. PICK F \in [0..Len(s) -> Seq(S)] : F[Len(s)] = Selected(s, T) /\ SelectsUp(F, s, T)
    BY SelectedPlaces
  <1> DEFINE U == {k \in 0..Len(s) : \A x : x \in Range(F[k]) <=> \E i \in 1..k : x = s[i] /\ x \in T}
  <1>2. 0 \in U
    BY <1>1 DEF SelectsUp, Range
  <1>3. ASSUME NEW k \in 1..Len(s), k - 1 \in U PROVE k \in U
    <2>1. F[k - 1] \in Seq(S) /\ s[k] \in S
      OBVIOUS
    <2>2. \A x : x \in Range(F[k]) <=> x \in Range(F[k - 1]) \/ (x = s[k] /\ x \in T)
      <3>1. CASE s[k] \in T
        <4>1. F[k] = Append(F[k - 1], s[k])
          BY <1>1, <3>1 DEF SelectsUp
        <4>2. Range(Append(F[k - 1], s[k])) = Range(F[k - 1]) \union {s[k]}
          BY <2>1, AppendRange
        <4> QED BY <3>1, <4>1, <4>2
      <3>2. CASE s[k] \notin T
        BY <1>1, <3>2 DEF SelectsUp
      <3> QED BY <3>1, <3>2
    <2>3. \A i : i \in 1..k <=> i \in 1..(k - 1) \/ i = k
      OBVIOUS
    <2> QED BY <1>3, <2>2, <2>3
  <1>4. Len(s) \in U
    <2> HIDE DEF U
    <2>1. Len(s) \in Nat
      OBVIOUS
    <2>2. 0..Len(s) \subseteq U
      BY <1>2, <1>3, <2>1, InductiveInterval
    <2> QED BY <2>1, <2>2
  <1>5. \A x : x \in Range(Selected(s, T)) <=> x \in Range(s) /\ x \in T
    BY <1>1, <1>4 DEF Range
  <1> QED BY <1>1, <1>5

(* Where the elements selected from a sequence were in it.                  *)
PlacesOf(at, s, T, t) ==
    /\ at \in [1..Len(t) -> 1..Len(s)]
    /\ \A i \in 1..Len(t) : t[i] = s[at[i]] /\ t[i] \in T
    /\ \A i, j \in 1..Len(t) : i < j => at[i] < at[j]

LEMMA SelectedOrder ==
    ASSUME NEW S, NEW s \in Seq(S), NEW T
    PROVE  \E at : PlacesOf(at, s, T, Selected(s, T))
  <1>1. PICK F \in [0..Len(s) -> Seq(S)] : F[Len(s)] = Selected(s, T) /\ SelectsUp(F, s, T)
    BY SelectedPlaces
  <1> DEFINE Upto(k, at) ==
                 /\ at \in [1..Len(F[k]) -> 1..k]
                 /\ \A i \in 1..Len(F[k]) : F[k][i] = s[at[i]] /\ F[k][i] \in T
                 /\ \A i, j \in 1..Len(F[k]) : i < j => at[i] < at[j]
             U == {k \in 0..Len(s) : \E at : Upto(k, at)}
  <1>2. 0 \in U
    <2>1. F[0] = <<>> /\ Len(F[0]) = 0 /\ 1..Len(F[0]) = {}
      BY <1>1 DEF SelectsUp
    <2>2. Upto(0, [i \in {} |-> 0])
      BY <2>1
    <2>3. 0 \in 0..Len(s)
      OBVIOUS
    <2> HIDE DEF Upto
    <2> QED BY <2>2, <2>3
  <1>3. ASSUME NEW k \in 1..Len(s), k - 1 \in U PROVE k \in U
    <2>1. PICK at : Upto(k - 1, at)
      BY <1>3
    <2>2. /\ F[k - 1] \in Seq(S) /\ s[k] \in S /\ Len(F[k - 1]) \in Nat
          /\ k \in Nat /\ k - 1 \in Nat /\ Len(s) \in Nat /\ k - 1 \in 0..Len(s)
      OBVIOUS
    <2>3. CASE s[k] \notin T
      <3>1. F[k] = F[k - 1]
        BY <1>1, <2>3 DEF SelectsUp
      <3>2. Upto(k, at)
        BY <2>1, <2>2, <3>1
      <3> HIDE DEF Upto
      <3> QED BY <3>2
    <2>4. CASE s[k] \in T
      <3>1. F[k] = Append(F[k - 1], s[k])
        BY <1>1, <2>4 DEF SelectsUp
      <3> DEFINE n == Len(F[k - 1])
                 to == [i \in 1..(n + 1) |-> IF i = n + 1 THEN k ELSE at[i]]
      <3>2. /\ Len(F[k]) = n + 1 /\ F[k][n + 1] = s[k]
            /\ \A i \in 1..n : F[k][i] = F[k - 1][i]
        BY <2>2, <3>1, AppendProperties
      <3>3. to \in [1..(n + 1) -> 1..k]
        BY <2>1, <2>2
      <3>4. \A i \in 1..(n + 1) : F[k][i] = s[to[i]] /\ F[k][i] \in T
        BY SMTT(30), <2>1, <2>2, <2>4, <3>2
      <3>5. ASSUME NEW i \in 1..(n + 1), NEW j \in 1..(n + 1), i < j PROVE to[i] < to[j]
        <4>1. i \in 1..n /\ to[i] = at[i] /\ at[i] \in 1..(k - 1)
          <5>1. n \in Nat /\ at \in [1..n -> 1..(k - 1)]
            BY <2>1, <2>2
          <5>2. i \in 1..n /\ to[i] = (IF i = n + 1 THEN k ELSE at[i])
            <6> HIDE DEF n
            <6> QED BY <3>5, <5>1
          <5> HIDE DEF n, to
          <5>3. i # n + 1
            BY <5>1, <5>2
          <5> QED BY <5>1, <5>2, <5>3
        <4>2. CASE j = n + 1
          BY <2>2, <4>1, <4>2
        <4>3. CASE j # n + 1
          <5>1. j \in 1..n /\ to[j] = at[j]
            BY <2>2, <4>3
          <5> QED BY <2>1, <3>5, <4>1, <5>1
        <4> QED BY <4>2, <4>3
      <3>6. Upto(k, to)
        <4> HIDE DEF to, n
        <4> QED BY <3>2, <3>3, <3>4, <3>5
      <3> HIDE DEF Upto
      <3> QED BY <3>6
    <2> QED BY <2>3, <2>4
  <1>4. Len(s) \in U
    <2> HIDE DEF U
    <2>1. Len(s) \in Nat
      OBVIOUS
    <2>2. 0..Len(s) \subseteq U
      BY <1>2, <1>3, <2>1, InductiveInterval
    <2> QED BY <2>1, <2>2
  <1>5. PICK at : Upto(Len(s), at)
    BY <1>4
  <1>6. PlacesOf(at, s, T, Selected(s, T))
    BY <1>1, <1>5 DEF PlacesOf
  <1> QED BY <1>6

(* Everything is selected when everything is in the set.                   *)
LEMMA SelectedAll ==
    ASSUME NEW S, NEW s \in Seq(S), NEW T, Range(s) \subseteq T
    PROVE  Selected(s, T) = s
  <1>1. PICK F \in [0..Len(s) -> Seq(S)] : F[Len(s)] = Selected(s, T) /\ SelectsUp(F, s, T)
    BY SelectedPlaces
  <1> DEFINE U == {k \in 0..Len(s) : Len(F[k]) = k /\ \A i \in 1..k : F[k][i] = s[i]}
  <1>2. 0 \in U
    BY <1>1 DEF SelectsUp
  <1>3. ASSUME NEW k \in 1..Len(s), k - 1 \in U PROVE k \in U
    <2>1. F[k - 1] \in Seq(S) /\ s[k] \in S /\ s[k] \in T
      BY DEF Range
    <2>2. F[k] = Append(F[k - 1], s[k])
      BY <1>1, <2>1 DEF SelectsUp
    <2>3. /\ Len(F[k]) = Len(F[k - 1]) + 1 /\ F[k][Len(F[k - 1]) + 1] = s[k]
          /\ \A i \in 1..Len(F[k - 1]) : F[k][i] = F[k - 1][i]
      BY <2>1, <2>2, AppendProperties
    <2> QED BY <1>3, <2>3
  <1>4. Len(s) \in U
    <2> HIDE DEF U
    <2>1. Len(s) \in Nat
      OBVIOUS
    <2>2. 0..Len(s) \subseteq U
      BY <1>2, <1>3, <2>1, InductiveInterval
    <2> QED BY <2>1, <2>2
  <1>5. Len(Selected(s, T)) = Len(s) /\ \A i \in 1..Len(s) : Selected(s, T)[i] = s[i]
    BY <1>1, <1>4
  <1>6. Selected(s, T) \in Seq(S)
    BY <1>1
  <1> QED BY <1>5, <1>6, SeqEqual

(* A suffix is the other sequence from some place on.                      *)
LEMMA SuffixPlaces ==
    ASSUME NEW S, NEW s \in Seq(S), NEW t \in Seq(S)
    PROVE  IsSuffix(s, t) <=>
               Len(s) <= Len(t) /\ \A i \in 1..Len(s) : s[i] = t[Len(t) - Len(s) + i]
  <1> DEFINE m == Len(s)
             n == Len(t)
             r == Reverse(s)
             v == Reverse(t)
  <1>1. /\ m \in Nat /\ n \in Nat /\ r \in Seq(S) /\ v \in Seq(S) /\ Len(r) = m /\ Len(v) = n
        /\ \A i \in 1..m : r[i] = s[m - i + 1]
        /\ \A i \in 1..n : v[i] = t[n - i + 1]
    BY DEF Reverse
  <1>2. IsSuffix(s, t) <=> m <= n /\ SubSeq(r, 1, m) = SubSeq(v, 1, m)
    BY <1>1 DEF IsSuffix, IsPrefix
  <1>3. ASSUME m <= n
        PROVE  SubSeq(r, 1, m) = SubSeq(v, 1, m) <=> \A i \in 1..m : s[i] = t[n - m + i]
    <2> HIDE DEF r, v, m, n
    <2>1. m \in 0..Len(r) /\ m \in 0..Len(v)
      BY <1>1, <1>3
    <2>2. /\ SubSeq(r, 1, m) \in Seq(S) /\ Len(SubSeq(r, 1, m)) = m
          /\ \A i \in 1..m : SubSeq(r, 1, m)[i] = r[i]
      BY <1>1, <2>1
    <2>3. /\ SubSeq(v, 1, m) \in Seq(S) /\ Len(SubSeq(v, 1, m)) = m
          /\ \A i \in 1..m : SubSeq(v, 1, m)[i] = v[i]
      BY <1>1, <2>1, <1>3
    <2>4. SubSeq(r, 1, m) = SubSeq(v, 1, m) <=> \A i \in 1..m : r[i] = v[i]
      BY <2>2, <2>3, SeqEqual
    <2>5. ASSUME \A i \in 1..m : r[i] = v[i], NEW i \in 1..m PROVE s[i] = t[n - m + i]
      <3>1. m - i + 1 \in 1..m /\ m - i + 1 \in 1..n
        BY <1>1, <1>3
      <3>2. r[m - i + 1] = s[m - (m - i + 1) + 1] /\ v[m - i + 1] = t[n - (m - i + 1) + 1]
        BY <1>1, <3>1
      <3>3. m - (m - i + 1) + 1 = i /\ n - (m - i + 1) + 1 = n - m + i
        BY <1>1
      <3> QED BY <2>5, <3>1, <3>2, <3>3
    <2>6. ASSUME \A i \in 1..m : s[i] = t[n - m + i], NEW i \in 1..m PROVE r[i] = v[i]
      <3>1. m - i + 1 \in 1..m /\ i \in 1..n
        BY <1>1, <1>3
      <3>2. s[m - i + 1] = t[n - m + (m - i + 1)]
        BY <2>6, <3>1
      <3>3. n - m + (m - i + 1) = n - i + 1
        BY <1>1
      <3> QED BY <1>1, <3>1, <3>2, <3>3
    <2> QED BY <2>4, <2>5, <2>6
  <1> QED BY <1>2, <1>3

(* The last n elements of a sequence.                                      *)
LEMMA LastPart ==
    ASSUME NEW S, NEW s \in Seq(S), NEW n \in 1..Len(s)
    PROVE  /\ SubSeq(s, Len(s) - n + 1, Len(s)) \in Seq(S)
           /\ Len(SubSeq(s, Len(s) - n + 1, Len(s))) = n
           /\ \A i \in 1..n : SubSeq(s, Len(s) - n + 1, Len(s))[i] = s[Len(s) - n + i]
  <1>1. Len(s) \in Nat
    OBVIOUS
  <1>2. Len(s) - n + 1 \in 1..Len(s) /\ Len(s) \in Int /\ n \in Nat
    BY <1>1
  <1>3. \A i \in (Len(s) - n + 1)..Len(s) : s[i] \in S
    BY <1>2
  <1>4. /\ SubSeq(s, Len(s) - n + 1, Len(s)) \in Seq(S)
        /\ Len(SubSeq(s, Len(s) - n + 1, Len(s)))
              = IF Len(s) - n + 1 <= Len(s) THEN Len(s) - (Len(s) - n + 1) + 1 ELSE 0
        /\ \A i \in 1..(Len(s) - (Len(s) - n + 1) + 1) :
              SubSeq(s, Len(s) - n + 1, Len(s))[i] = s[(Len(s) - n + 1) + i - 1]
    BY <1>2, <1>3, SubSeqProperties
  <1>5. Len(s) - (Len(s) - n + 1) + 1 = n /\ \A i \in 1..n : (Len(s) - n + 1) + i - 1 = Len(s) - n + i
    BY <1>2
  <1> QED BY <1>1, <1>2, <1>4, <1>5

(* A sequence with an element more at its end.                             *)
LEMMA Appended ==
    ASSUME NEW S, NEW s \in Seq(S), NEW r \in S, NEW t, t = Append(s, r)
    PROVE  /\ t \in Seq(S) /\ Len(t) = Len(s) + 1 /\ Len(s) \in Nat /\ t[Len(s) + 1] = r
           /\ \A i \in 1..Len(s) : t[i] = s[i]
           /\ \A i \in 1..Len(t) : i \in 1..Len(s) \/ i = Len(s) + 1
  OBVIOUS

(* A sequence without its first element.                                   *)
LEMMA HeadTaken ==
    ASSUME NEW S, NEW s \in Seq(S), s # <<>>, NEW t, t = Tail(s)
    PROVE  /\ t \in Seq(S) /\ Len(s) \in Nat /\ Len(t) = Len(s) - 1
           /\ 1 \in 1..Len(s) /\ s[1] \in S /\ Head(s) = s[1]
           /\ \A i \in 1..Len(t) : i + 1 \in 1..Len(s) /\ t[i] = s[i + 1]
           /\ \A i \in 1..Len(s) : i = 1 \/ (i - 1 \in 1..Len(t) /\ t[i - 1] = s[i])
  <1>1. t \in Seq(S) /\ Len(s) \in Nat /\ Len(s) > 0 /\ Len(t) = Len(s) - 1
    OBVIOUS
  <1>2. \A i \in 1..Len(t) : i + 1 \in 1..Len(s) /\ t[i] = s[i + 1]
    BY <1>1
  <1>3. ASSUME NEW i \in 1..Len(s), i # 1 PROVE i - 1 \in 1..Len(t) /\ t[i - 1] = s[i]
    <2>1. i - 1 \in 1..Len(t) /\ (i - 1) + 1 = i
      BY <1>1, <1>3
    <2> QED BY <1>2, <2>1
  <1>4. 1 \in 1..Len(s)
    BY <1>1
  <1> QED BY <1>1, <1>2, <1>3, <1>4

(* The first row of a table that applies.                                  *)
FirstRow(rows) == SelectInSeq(rows, LAMBDA row : row.when)

AppliesFirst(m, rows, n) ==
    m \in 1..n /\ rows[m].when /\ \A i \in 1..n : rows[i].when => m <= i

(* SelectInSeq finds the first row that applies.                           *)
LEMMA FirstThatApplies ==
    ASSUME NEW rows, NEW n \in Nat, Len(rows) = n, NEW last \in 1..n, rows[last].when
    PROVE  AppliesFirst(FirstRow(rows), rows, n)
  <1> DEFINE I == {i \in 1..Len(rows) : rows[i].when}
  <1>1. I # {} /\ I \in SUBSET Nat /\ last \in I
    OBVIOUS
  <1>2. PICK m \in I : \A i \in I : m <= i
    <2> HIDE DEF I
    <2> QED BY <1>1, LeastNatural
  <1>3. Min(I) \in I /\ \A i \in I : Min(I) <= i
    BY <1>2 DEF Min
  <1>4. FirstRow(rows) = Min(I)
    BY <1>1 DEF FirstRow, SelectInSeq
  <1> QED BY <1>3, <1>4 DEF AppliesFirst

-----------------------------------------------------------------------------
(* Sums.                                                                   *)
SumOf(w, S) == MapThenSumSet(LAMBDA x : w[x], S)
AnyOf(t) == CHOOSE x \in t : TRUE
SumsUp(it, w, S) ==
    /\ it \in [SUBSET S -> Int] /\ it[{}] = 0
    /\ \A t \in SUBSET S : t # {} => it[t] = w[AnyOf(t)] + it[t \ {AnyOf(t)}]

(* Induction over the subsets of a finite set, by the element a fold takes.*)
LEMMA InductiveByRemoval ==
    ASSUME NEW S, IsFiniteSet(S), NEW c, Chooses(c, S), NEW P, {} \in P,
           \A t \in SUBSET S : t # {} /\ t \ {c[t]} \in P => t \in P
    PROVE  \A t \in SUBSET S : t \in P
  <1> DEFINE T == {n \in Nat : \A t \in SUBSET S : Cardinality(t) = n => t \in P}
  <1>1. 0 \in T
    <2>1. ASSUME NEW t \in SUBSET S, Cardinality(t) = 0 PROVE t = {}
      BY <2>1, FS_Subset, FS_EmptySet
    <2> QED BY <2>1
  <1>2. ASSUME NEW n \in Nat, n \in T PROVE n + 1 \in T
    <2> SUFFICES ASSUME NEW t \in SUBSET S, Cardinality(t) = n + 1 PROVE t \in P
      OBVIOUS
    <2>1. IsFiniteSet(t)
      BY FS_Subset
    <2>2. t # {}
      <3>1. CASE t = {}
        <4>1. Cardinality(t) = 0
          BY <3>1, FS_EmptySet
        <4> QED BY <4>1
      <3> QED BY <3>1
    <2>3. c[t] \in t
      BY <2>2 DEF Chooses
    <2>4. Cardinality(t \ {c[t]}) = n
      <3>1. Cardinality(t \ {c[t]}) = Cardinality(t) - 1
        BY <2>1, <2>3, FS_RemoveElement
      <3> QED BY <3>1
    <2>5. t \ {c[t]} \in SUBSET S
      OBVIOUS
    <2>6. t \ {c[t]} \in P
      BY <1>2, <2>4, <2>5
    <2> QED BY <2>2, <2>6
  <1>3. Nat \subseteq T
    <2> HIDE DEF T
    <2> QED BY <1>1, <1>2, InductiveSet
  <1>4. \A t \in SUBSET S : Cardinality(t) \in Nat
    BY FS_Subset, FS_CardinalityType
  <1> QED BY <1>3, <1>4

LEMMA SumUnrolled ==
    ASSUME NEW S, IsFiniteSet(S), NEW w, \A x \in S : w[x] \in Int
    PROVE  \E it : SumsUp(it, w, S) /\ it[S] = SumOf(w, S)
  <1> DEFINE G == [p \in Int \X S |-> w[p[2]] + p[1]]
             c == [t \in SUBSET S |-> AnyOf(t)]
             Is(it) == it = [t \in SUBSET S |->
                                IF t = {} THEN 0 ELSE w[CHOOSE x \in t : TRUE]
                                                        + it[t \ {CHOOSE x \in t : TRUE}]]
             H == CHOOSE it : Is(it)
  <1>1. G \in [Int \X S -> Int] /\ 0 \in Int
    OBVIOUS
  <1>2. Chooses(c, S)
    BY DEF Chooses, AnyOf
  <1>3. PICK f : FoldsUp(f, S, Int, 0, G, c)
    <2> HIDE DEF G, c
    <2> QED BY <1>1, <1>2, FoldExists
  <1>4. SumsUp(f, w, S) /\ f = [t \in SUBSET S |-> IF t = {} THEN 0 ELSE w[AnyOf(t)] + f[t \ {AnyOf(t)}]]
    <2>1. ASSUME NEW t \in SUBSET S, t # {} PROVE f[t] = w[AnyOf(t)] + f[t \ {AnyOf(t)}]
      <3>1. AnyOf(t) \in S /\ c[t] = AnyOf(t)
        BY <2>1 DEF AnyOf
      <3>2. f[t \ {AnyOf(t)}] \in Int
        BY <1>3 DEF FoldsUp
      <3>3. f[t] = G[<<f[t \ {AnyOf(t)}], AnyOf(t)>>]
        BY <1>3, <2>1, <3>1 DEF FoldsUp
      <3> QED BY <3>1, <3>2, <3>3
    <2>2. f[{}] = 0 /\ f \in [SUBSET S -> Int]
      BY <1>3 DEF FoldsUp
    <2>3. f = [t \in SUBSET S |-> IF t = {} THEN 0 ELSE w[AnyOf(t)] + f[t \ {AnyOf(t)}]]
      BY <2>1, <2>2
    <2> QED BY <2>1, <2>2, <2>3 DEF SumsUp
  <1>5. Is(H)
    <2>1. Is(f)
      BY <1>4, Zenon DEF AnyOf
    <2> HIDE DEF Is
    <2> QED BY <2>1
  <1>6. SumOf(w, S) = H[S]
    BY DEF SumOf, MapThenSumSet, MapThenFoldSet
  <1>7. H = [t \in SUBSET S |-> IF t = {} THEN 0 ELSE w[AnyOf(t)] + H[t \ {AnyOf(t)}]]
    <2> HIDE DEF H
    <2> QED BY <1>5, Zenon DEF AnyOf
  <1> HIDE DEF H
  <1>8. ASSUME NEW t \in SUBSET S, t # {} PROVE H[t] = w[AnyOf(t)] + H[t \ {AnyOf(t)}]
    BY <1>7, <1>8
  <1>9. H[{}] = 0
    BY <1>7
  <1>10. \A t \in SUBSET S : H[t] \in Int
    <2> DEFINE P == {t \in SUBSET S : H[t] \in Int}
    <2>1. {} \in P
      BY <1>9
    <2>2. ASSUME NEW t \in SUBSET S, t # {}, t \ {c[t]} \in P PROVE t \in P
      <3>1. AnyOf(t) \in S /\ c[t] = AnyOf(t)
        BY <2>2 DEF AnyOf
      <3>2. H[t \ {AnyOf(t)}] \in Int
        BY <2>2, <3>1
      <3>3. H[t] = w[AnyOf(t)] + H[t \ {AnyOf(t)}] /\ w[AnyOf(t)] \in Int
        BY <1>8, <2>2, <3>1
      <3> HIDE DEF c
      <3> QED BY <3>2, <3>3
    <2> HIDE DEF P, c
    <2>3. \A t \in SUBSET S : t \in P
      BY <1>2, <2>1, <2>2, InductiveByRemoval
    <2> QED BY <2>3 DEF P
  <1>11. H \in [SUBSET S -> Int]
    <2>1. H = [t \in SUBSET S |-> H[t]]
      BY <1>7
    <2> QED BY <1>10, <2>1
  <1>12. SumsUp(H, w, S)
    BY <1>8, <1>9, <1>11 DEF SumsUp
  <1> QED BY <1>6, <1>12

LEMMA AnyChooses == \A S : Chooses([t \in SUBSET S |-> AnyOf(t)], S)
  BY DEF Chooses, AnyOf

(* The sum of a set does not depend on the set it is part of.              *)
LEMMA SumsUpAlike ==
    ASSUME NEW S, IsFiniteSet(S), NEW T \in SUBSET S, NEW w, NEW it, SumsUp(it, w, S),
           NEW jt, SumsUp(jt, w, T)
    PROVE  it[T] = jt[T]
  <1> DEFINE c == [t \in SUBSET T |-> AnyOf(t)]
             P == {t \in SUBSET T : it[t] = jt[t]}
  <1>1. IsFiniteSet(T) /\ Chooses(c, T)
    BY FS_Subset, AnyChooses
  <1>2. {} \in P
    BY DEF SumsUp
  <1>3. ASSUME NEW t \in SUBSET T, t # {}, t \ {c[t]} \in P PROVE t \in P
    <2>1. c[t] = AnyOf(t) /\ t \in SUBSET S
      OBVIOUS
    <2>2. it[t] = w[AnyOf(t)] + it[t \ {AnyOf(t)}] /\ jt[t] = w[AnyOf(t)] + jt[t \ {AnyOf(t)}]
      BY <1>3, <2>1 DEF SumsUp
    <2>3. it[t \ {AnyOf(t)}] = jt[t \ {AnyOf(t)}]
      BY <1>3, <2>1
    <2> QED BY <2>2, <2>3
  <1> HIDE DEF P, c
  <1>4. \A t \in SUBSET T : t \in P
    BY <1>1, <1>2, <1>3, InductiveByRemoval
  <1> QED BY <1>4 DEF P

LEMMA SumByRemoval ==
    ASSUME NEW T, IsFiniteSet(T), NEW w, \A x \in T : w[x] \in Int
    PROVE  /\ SumOf(w, T) \in Int
           /\ T = {} => SumOf(w, T) = 0
           /\ T # {} => AnyOf(T) \in T /\ SumOf(w, T) = w[AnyOf(T)] + SumOf(w, T \ {AnyOf(T)})
  <1>1. PICK it : SumsUp(it, w, T) /\ it[T] = SumOf(w, T)
    BY SumUnrolled
  <1>2. SumOf(w, T) \in Int /\ (T = {} => SumOf(w, T) = 0)
    BY <1>1 DEF SumsUp
  <1>3. ASSUME T # {} PROVE AnyOf(T) \in T /\ SumOf(w, T) = w[AnyOf(T)] + SumOf(w, T \ {AnyOf(T)})
    <2> DEFINE R == T \ {AnyOf(T)}
    <2>1. IsFiniteSet(R) /\ R \in SUBSET T /\ \A x \in R : w[x] \in Int
      BY FS_Subset
    <2> HIDE DEF R
    <2>2. PICK jt : SumsUp(jt, w, R) /\ jt[R] = SumOf(w, R)
      BY <2>1, SumUnrolled
    <2>3. it[R] = jt[R]
      <3>1. SumsUp(it, w, T) /\ SumsUp(jt, w, R)
        BY <1>1, <2>2
      <3> QED BY <2>1, <3>1, SumsUpAlike
    <2>4. it[T] = w[AnyOf(T)] + it[R]
      BY <1>1, <1>3 DEF SumsUp, R
    <2>5. AnyOf(T) \in T
      BY <1>3 DEF AnyOf
    <2> QED BY <1>1, <2>2, <2>3, <2>4, <2>5 DEF R
  <1> QED BY <1>2, <1>3

(* One more.                                                               *)
LEMMA SumMore ==
    ASSUME NEW S, IsFiniteSet(S), NEW w, \A x \in S : w[x] \in Int,
           NEW T \in SUBSET S, NEW x \in S \ T
    PROVE  SumOf(w, T \union {x}) = SumOf(w, T) + w[x]
  <1> DEFINE More(t, y) == SumOf(w, t \union {y}) = SumOf(w, t) + w[y]
             N == {n \in Nat : \A t \in SUBSET S : \A y \in S \ t : Cardinality(t) = n => More(t, y)}
  <1>1. \A t \in SUBSET S : IsFiniteSet(t) /\ Cardinality(t) \in Nat /\ \A y \in t : w[y] \in Int
    BY FS_Subset, FS_CardinalityType
  <1>2. ASSUME NEW t \in SUBSET S
        PROVE  /\ SumOf(w, t) \in Int /\ (t = {} => SumOf(w, t) = 0)
               /\ t # {} => AnyOf(t) \in t /\ SumOf(w, t) = w[AnyOf(t)] + SumOf(w, t \ {AnyOf(t)})
    BY <1>1, SumByRemoval
  <1>3. 0 \in N
    <2> SUFFICES ASSUME NEW t \in SUBSET S, NEW y \in S \ t, Cardinality(t) = 0 PROVE More(t, y)
      OBVIOUS
    <2>1. t = {}
      BY <1>1, FS_EmptySet
    <2>2. {y} \in SUBSET S /\ {y} # {} /\ t \union {y} = {y}
      BY <2>1
    <2>3. AnyOf({y}) = y /\ {y} \ {AnyOf({y})} = {}
      BY DEF AnyOf
    <2>4. SumOf(w, {y}) = w[y] + SumOf(w, {})
      BY <1>2, <2>2, <2>3
    <2>5. SumOf(w, {}) = 0
      BY <1>2
    <2> QED BY <2>1, <2>2, <2>4, <2>5
  <1>4. ASSUME NEW n \in Nat, n \in N PROVE n + 1 \in N
    <2> SUFFICES ASSUME NEW t \in SUBSET S, NEW y \in S \ t, Cardinality(t) = n + 1
                 PROVE  More(t, y)
      OBVIOUS
    <2> DEFINE u == t \union {y}
               a == AnyOf(u)
    <2>1. u \in SUBSET S /\ u # {}
      OBVIOUS
    <2>2. a \in u /\ SumOf(w, u) = w[a] + SumOf(w, u \ {a})
      BY <1>2, <2>1
    <2> HIDE DEF a
    <2>3. CASE a = y
      <3>1. u \ {a} = t
        BY <2>3
      <3>2. SumOf(w, t) \in Int /\ w[y] \in Int
        BY <1>2
      <3> HIDE DEF u
      <3>3. SumOf(w, u) = w[y] + SumOf(w, t)
        BY <2>2, <2>3, <3>1, Zenon
      <3>4. SumOf(w, u) = SumOf(w, t) + w[y]
        BY <3>2, <3>3
      <3> QED BY <3>4 DEF u
    <2>4. CASE a # y
      <3> DEFINE r == t \ {a}
      <3>1. a \in t /\ r \in SUBSET S /\ a \in S \ r /\ y \in S \ r
            /\ r \union {a} = t /\ u \ {a} = r \union {y}
        BY <2>2, <2>4
      <3>2. Cardinality(r) = n
        <4>1. Cardinality(t \ {a}) = Cardinality(t) - 1
          BY <1>1, <3>1, FS_RemoveElement
        <4> QED BY <4>1
      <3> HIDE DEF r, u
      <3>3. SumOf(w, r \union {a}) = SumOf(w, r) + w[a]
            /\ SumOf(w, r \union {y}) = SumOf(w, r) + w[y]
        BY <1>4, <3>1, <3>2
      <3>4. SumOf(w, r) \in Int /\ w[a] \in Int /\ w[y] \in Int
        BY <1>2, <3>1
      <3>5. /\ SumOf(w, u) = w[a] + SumOf(w, r \union {y})
            /\ SumOf(w, t) = SumOf(w, r) + w[a]
        BY <2>2, <3>1, <3>3, Zenon
      <3>6. SumOf(w, u) = SumOf(w, t) + w[y]
        BY <3>3, <3>4, <3>5
      <3> QED BY <3>6 DEF u
    <2> QED BY <2>3, <2>4
  <1>5. Nat \subseteq N
    <2> HIDE DEF N
    <2> QED BY <1>3, <1>4, InductiveSet
  <1>6. Cardinality(T) \in Nat
    BY <1>1
  <1> QED BY <1>5, <1>6

LEMMA SumIsInt ==
    ASSUME NEW S, IsFiniteSet(S), NEW w, \A x \in S : w[x] \in Int, NEW T \in SUBSET S
    PROVE  SumOf(w, T) \in Int /\ SumOf(w, {}) = 0
  <1>1. IsFiniteSet(T) /\ \A x \in T : w[x] \in Int
    BY FS_Subset
  <1>2. IsFiniteSet({}) /\ \A x \in {} : w[x] \in Int
    BY FS_EmptySet
  <1>3. SumOf(w, T) \in Int
    BY <1>1, SumByRemoval
  <1>4. SumOf(w, {}) = 0
    BY <1>2, SumByRemoval
  <1> QED BY <1>3, <1>4

LEMMA SumOfUnion ==
    ASSUME NEW S, IsFiniteSet(S), NEW w, \A x \in S : w[x] \in Int,
           NEW A \in SUBSET S, NEW B \in SUBSET S, A \intersect B = {}
    PROVE  SumOf(w, A \union B) = SumOf(w, A) + SumOf(w, B)
  <1> DEFINE Splits(t) == SumOf(w, A \union t) = SumOf(w, A) + SumOf(w, t)
             P == {t \in SUBSET B : Splits(t)}
  <1>1. IsFiniteSet(B)
    BY FS_Subset
  <1>2. \A t \in SUBSET S : SumOf(w, t) \in Int
    BY SumIsInt
  <1>3. {} \in P
    <2>1. A \union {} = A /\ SumOf(w, A) \in Int /\ SumOf(w, {}) = 0
      BY SumIsInt
    <2>2. Splits({})
      BY <2>1
    <2> QED BY <2>2
  <1>4. ASSUME NEW t \in SUBSET B, NEW x \in B, t \in P PROVE t \union {x} \in P
    <2>1. CASE x \in t
      <3>1. t \union {x} = t
        BY <2>1
      <3> QED BY <1>4, <3>1, Zenon
    <2>2. CASE x \notin t
      <3>1. t \in SUBSET S /\ A \union t \in SUBSET S /\ x \in S \ t /\ x \in S \ (A \union t)
        BY <2>2
      <3>2. SumOf(w, t \union {x}) = SumOf(w, t) + w[x]
        BY <3>1, SumMore
      <3>3. SumOf(w, (A \union t) \union {x}) = SumOf(w, A \union t) + w[x]
        BY <3>1, SumMore
      <3>4. (A \union t) \union {x} = A \union (t \union {x})
        OBVIOUS
      <3>5. SumOf(w, A \union (t \union {x})) = SumOf(w, A \union t) + w[x]
        BY <3>3, <3>4, Zenon
      <3>6. SumOf(w, A \union t) = SumOf(w, A) + SumOf(w, t)
        BY <1>4
      <3>7. SumOf(w, A) \in Int /\ SumOf(w, t) \in Int /\ w[x] \in Int
        BY <1>2, <3>1
      <3>8. Splits(t \union {x})
        BY <3>2, <3>5, <3>6, <3>7
      <3>9. t \union {x} \in SUBSET B
        OBVIOUS
      <3> HIDE DEF Splits
      <3> QED BY <3>8, <3>9
    <2> QED BY <2>1, <2>2
  <1> HIDE DEF P
  <1>5. \A t \in SUBSET B : t \in P
    BY <1>1, <1>3, <1>4, InductiveSubsets
  <1> QED BY <1>5 DEF P

LEMMA SumOfSame ==
    ASSUME NEW S, IsFiniteSet(S), NEW w, \A x \in S : w[x] \in Int,
           NEW v, \A x \in S : v[x] = w[x]
    PROVE  SumOf(v, S) = SumOf(w, S)
  <1> DEFINE P == {t \in SUBSET S : SumOf(v, t) = SumOf(w, t)}
  <1>1. \A x \in S : v[x] \in Int
    OBVIOUS
  <1>2. {} \in P
    <2>1. SumOf(v, {}) = 0 /\ SumOf(w, {}) = 0
      BY <1>1, SumIsInt
    <2> QED BY <2>1
  <1>3. ASSUME NEW t \in SUBSET S, NEW x \in S, t \in P PROVE t \union {x} \in P
    <2>1. CASE x \in t
      <3>1. t \union {x} = t
        BY <2>1
      <3> QED BY <1>3, <3>1, Zenon
    <2>2. CASE x \notin t
      <3>1. SumOf(v, t \union {x}) = SumOf(v, t) + v[x]
        BY <1>1, <2>2, SumMore
      <3>2. SumOf(w, t \union {x}) = SumOf(w, t) + w[x]
        BY <2>2, SumMore
      <3> QED BY <1>3, <3>1, <3>2
    <2> QED BY <2>1, <2>2
  <1> HIDE DEF P
  <1>4. \A t \in SUBSET S : t \in P
    BY <1>2, <1>3, InductiveSubsets
  <1> QED BY <1>4 DEF P

(* A sum by groups.                                                        *)
OfGroups(S, g, F) == {x \in S : g[x] \in F}
SumsOfGroups(h, F, w, S, g) == \A f \in F : h[f] = SumOf(w, {x \in S : g[x] = f})

LEMMA SumByGroups ==
    ASSUME NEW S, IsFiniteSet(S), NEW w, \A x \in S : w[x] \in Int,
           NEW F, IsFiniteSet(F), NEW g, NEW h,
           SumsOfGroups(h, F, w, S, g)
    PROVE  SumOf(h, F) = SumOf(w, OfGroups(S, g, F))
  <1> DEFINE Group(f) == {x \in S : g[x] = f}
             In(G) == {x \in S : g[x] \in G}
             Groups(G) == SumOf(h, G) = SumOf(w, In(G))
             P == {G \in SUBSET F : Groups(G)}
  <1>5. \A f \in F : h[f] = SumOf(w, {x \in S : g[x] = f})
    BY DEF SumsOfGroups
  <1>1. \A f \in F : h[f] \in Int
    <2>1. \A f \in F : Group(f) \in SUBSET S
      OBVIOUS
    <2>2. \A t \in SUBSET S : SumOf(w, t) \in Int
      BY SumIsInt
    <2> QED BY <1>5, <2>1, <2>2
  <1>2. {} \in P
    <2>1. In({}) = {}
      OBVIOUS
    <2>2. SumOf(h, {}) = 0 /\ SumOf(w, {}) = 0
      BY <1>1, SumIsInt
    <2> HIDE DEF In
    <2>3. Groups({})
      BY <2>1, <2>2, Zenon
    <2> HIDE DEF Groups
    <2> QED BY <2>3
  <1>3. ASSUME NEW G \in SUBSET F, NEW f \in F, G \in P PROVE G \union {f} \in P
    <2>1. CASE f \in G
      <3>1. G \union {f} = G
        BY <2>1
      <3> QED BY <1>3, <3>1, Zenon
    <2>2. CASE f \notin G
      <3>1. SumOf(h, G \union {f}) = SumOf(h, G) + h[f]
        BY <1>1, <2>2, SumMore
      <3>2. /\ In(G \union {f}) = In(G) \union Group(f) /\ In(G) \intersect Group(f) = {}
            /\ In(G) \in SUBSET S /\ Group(f) \in SUBSET S
        BY <2>2
      <3>3. h[f] = SumOf(w, Group(f))
        BY <1>5
      <3>4. SumOf(h, G) = SumOf(w, In(G))
        BY <1>3
      <3> HIDE DEF In, Group
      <3>5. SumOf(w, In(G) \union Group(f)) = SumOf(w, In(G)) + SumOf(w, Group(f))
        BY <3>2, SumOfUnion
      <3>6. Groups(G \union {f})
        BY <3>1, <3>2, <3>3, <3>4, <3>5, Zenon
      <3> HIDE DEF Groups
      <3> QED BY <3>6
    <2> QED BY <2>1, <2>2
  <1> HIDE DEF P
  <1>4. \A G \in SUBSET F : G \in P
    BY <1>2, <1>3, InductiveSubsets
  <1>6. Groups(F)
    BY <1>4 DEF P
  <1> QED BY <1>6 DEF OfGroups

(* Quotients and remainders.                                               *)
LEMMA Euclid ==
    ASSUME NEW a \in Int, NEW d \in Nat \ {0}
    PROVE  a \div d \in Int /\ a % d \in 0..(d - 1) /\ a = d * (a \div d) + (a % d)
  OBVIOUS

(* Only one multiple of d is less than d away.                             *)
LEMMA NoMultipleBetween ==
    ASSUME NEW d \in Nat \ {0}, NEW q \in Int, NEW x \in Int, x = d * q, -d < x, x < d
    PROVE  q = 0
  OBVIOUS

(* Numbers less than d apart that leave the same are the same.             *)
LEMMA SameResidue ==
    ASSUME NEW d \in Nat \ {0}, NEW a \in Int, NEW b \in Int, a % d = b % d,
           a - b < d, b - a < d
    PROVE  a = b
  <1>1. /\ a \div d \in Int /\ a % d \in 0..(d - 1) /\ a = d * (a \div d) + (a % d)
        /\ b \div d \in Int /\ b % d \in 0..(d - 1) /\ b = d * (b \div d) + (b % d)
    BY Euclid
  <1> DEFINE p == a \div d
             q == b \div d
             r == a % d
  <1>2. p \in Int /\ q \in Int /\ r \in Int /\ a = d * p + r /\ b = d * q + r
    BY <1>1
  <1> HIDE DEF p, q, r
  <1>3. a - b = d * (p - q) /\ p - q \in Int
    BY <1>2
  <1>4. p - q = 0
    BY <1>3, NoMultipleBetween
  <1> QED BY <1>2, <1>4

(* The quotient names the interval of d numbers that a is in.              *)
LEMMA QuotientIs ==
    ASSUME NEW d \in Nat \ {0}, NEW a \in Int, NEW k \in Int
    PROVE  a \div d = k <=> k * d <= a /\ a <= k * d + d - 1
  <1>1. a \div d \in Int /\ a % d \in 0..(d - 1) /\ a = d * (a \div d) + (a % d)
    BY Euclid
  <1> DEFINE q == a \div d
             r == a % d
  <1>2. q \in Int /\ r \in Int /\ 0 <= r /\ r < d /\ a = d * q + r
    BY <1>1
  <1> HIDE DEF q, r
  <1>3. q = k => k * d <= a /\ a <= k * d + d - 1
    BY <1>2
  <1>4. ASSUME k * d <= a, a <= k * d + d - 1 PROVE q = k
    <2>1. d * (q - k) = a - r - k * d /\ q - k \in Int
      BY <1>2
    <2>2. -d < a - r - k * d /\ a - r - k * d < d /\ a - r - k * d \in Int
      BY <1>2, <1>4
    <2>3. q - k = 0
      BY <2>1, <2>2, NoMultipleBetween
    <2> QED BY <1>2, <2>3
  <1> QED BY <1>3, <1>4 DEF q

LEMMA QuotientGrows ==
    ASSUME NEW d \in Nat \ {0}, NEW a \in Int, NEW b \in Int, a <= b
    PROVE  a \div d <= b \div d
  <1>1. /\ a \div d \in Int /\ a % d \in 0..(d - 1) /\ a = d * (a \div d) + (a % d)
        /\ b \div d \in Int /\ b % d \in 0..(d - 1) /\ b = d * (b \div d) + (b % d)
    BY Euclid
  <1> DEFINE p == a \div d
             q == b \div d
  <1>2. p \in Int /\ q \in Int /\ d * p <= a /\ b < d * q + d
    BY <1>1
  <1> HIDE DEF p, q
  <1>3. d * p < d * (q + 1)
    BY <1>2
  <1>4. p < q + 1
    BY <1>2, <1>3
  <1> QED BY <1>2, <1>4 DEF p, q

(* Sums of natural numbers; of zeros; of one.                              *)
LEMMA SumIsNat ==
    ASSUME NEW S, IsFiniteSet(S), NEW w, \A x \in S : w[x] \in Nat
    PROVE  SumOf(w, S) \in Nat
  <1> DEFINE P == {t \in SUBSET S : SumOf(w, t) \in Nat}
  <1>1. {} \in P
    <2>1. \A x \in S : w[x] \in Int
      OBVIOUS
    <2>2. SumOf(w, {}) = 0
      BY <2>1, SumIsInt
    <2> QED BY <2>2
  <1>2. ASSUME NEW t \in SUBSET S, NEW x \in S, t \in P PROVE t \union {x} \in P
    <2>1. CASE x \in t
      <3>1. t \union {x} = t
        BY <2>1
      <3> QED BY <1>2, <3>1, Zenon
    <2>2. CASE x \notin t
      <3>1. SumOf(w, t \union {x}) = SumOf(w, t) + w[x]
        BY <2>2, SumMore
      <3> QED BY <1>2, <3>1
    <2> QED BY <2>1, <2>2
  <1> HIDE DEF P
  <1>3. \A t \in SUBSET S : t \in P
    BY <1>1, <1>2, InductiveSubsets
  <1> QED BY <1>3 DEF P

(* Sums of what is not less are not less.                                  *)
LEMMA SumNotLess ==
    ASSUME NEW S, IsFiniteSet(S), NEW w, NEW v, \A x \in S : w[x] \in Int /\ v[x] \in Int /\ v[x] <= w[x]
    PROVE  SumOf(v, S) <= SumOf(w, S)
  <1> DEFINE P == {t \in SUBSET S : SumOf(v, t) <= SumOf(w, t)}
  <1>1. {} \in P
    <2>1. SumOf(v, {}) = 0 /\ SumOf(w, {}) = 0
      BY SumIsInt
    <2> QED BY <2>1
  <1>2. ASSUME NEW t \in SUBSET S, NEW x \in S, t \in P PROVE t \union {x} \in P
    <2>1. CASE x \in t
      <3>1. t \union {x} = t
        BY <2>1
      <3> QED BY <1>2, <3>1, Zenon
    <2>2. CASE x \notin t
      <3>1. SumOf(v, t \union {x}) = SumOf(v, t) + v[x]
        BY <2>2, SumMore
      <3>2. SumOf(w, t \union {x}) = SumOf(w, t) + w[x]
        BY <2>2, SumMore
      <3>3. SumOf(v, t) \in Int /\ SumOf(w, t) \in Int
        BY SumIsInt
      <3> QED BY <1>2, <3>1, <3>2, <3>3
    <2> QED BY <2>1, <2>2
  <1> HIDE DEF P
  <1>3. \A t \in SUBSET S : t \in P
    BY <1>1, <1>2, InductiveSubsets
  <1> QED BY <1>3 DEF P

LEMMA SumOfNone ==
    ASSUME NEW S, IsFiniteSet(S), NEW w, \A x \in S : w[x] = 0
    PROVE  SumOf(w, S) = 0
  <1>1. \A x \in S : w[x] \in Int /\ w[x] <= 0
    OBVIOUS
  <1>2. SumOf(w, S) \in Nat
    BY SumIsNat
  <1> DEFINE v == [x \in S |-> 0]
             P == {t \in SUBSET S : SumOf(w, t) = 0}
  <1>3. {} \in P
    <2>1. SumOf(w, {}) = 0
      BY <1>1, SumIsInt
    <2> QED BY <2>1
  <1>4. ASSUME NEW t \in SUBSET S, NEW x \in S, t \in P PROVE t \union {x} \in P
    <2>1. CASE x \in t
      <3>1. t \union {x} = t
        BY <2>1
      <3> QED BY <1>4, <3>1, Zenon
    <2>2. CASE x \notin t
      <3>1. SumOf(w, t \union {x}) = SumOf(w, t) + w[x]
        BY <1>1, <2>2, SumMore
      <3> QED BY <1>4, <3>1
    <2> QED BY <2>1, <2>2
  <1> HIDE DEF P
  <1>5. \A t \in SUBSET S : t \in P
    BY <1>3, <1>4, InductiveSubsets
  <1> QED BY <1>5 DEF P

(* A sum in which one place has one more.                                  *)
LEMMA SumWithOneMore ==
    ASSUME NEW S, IsFiniteSet(S), NEW w, \A x \in S : w[x] \in Int, NEW y \in S,
           NEW v, v[y] = w[y] + 1, \A x \in S \ {y} : v[x] = w[x]
    PROVE  SumOf(v, S) = SumOf(w, S) + 1
  <1> DEFINE R == S \ {y}
  <1>1. R \in SUBSET S /\ y \in S \ R /\ R \union {y} = S /\ IsFiniteSet(R)
    BY FS_Subset
  <1>2. \A x \in S : v[x] \in Int
    OBVIOUS
  <1>3. \A x \in R : w[x] \in Int /\ v[x] = w[x]
    OBVIOUS
  <1> HIDE DEF R
  <1>4. SumOf(w, R \union {y}) = SumOf(w, R) + w[y]
    BY <1>1, SumMore
  <1>5. SumOf(v, R \union {y}) = SumOf(v, R) + v[y]
    BY <1>1, <1>2, SumMore
  <1>6. SumOf(v, R) = SumOf(w, R)
    BY <1>1, <1>3, SumOfSame
  <1>7. SumOf(w, R) \in Int
    BY <1>1, SumIsInt
  <1>8. SumOf(w, S) = SumOf(w, R) + w[y] /\ SumOf(v, S) = SumOf(v, R) + v[y]
    BY <1>1, <1>4, <1>5, Zenon
  <1>9. w[y] \in Int /\ v[y] = w[y] + 1
    OBVIOUS
  <1> QED BY <1>6, <1>7, <1>8, <1>9

(* Sums along a sequence.                                                  *)
LEMMA SumOneMore ==
    ASSUME NEW n \in Nat, NEW w, \A i \in 1..(n + 1) : w[i] \in Int
    PROVE  SumOf(w, 1..(n + 1)) = SumOf(w, 1..n) + w[n + 1]
  <1>1. IsFiniteSet(1..(n + 1))
    <2>1. n + 1 \in Int
      OBVIOUS
    <2> QED BY <2>1, FS_Interval
  <1>2. 1..n \in SUBSET (1..(n + 1)) /\ n + 1 \in (1..(n + 1)) \ (1..n)
    OBVIOUS
  <1>3. (1..n) \union {n + 1} = 1..(n + 1)
    OBVIOUS
  <1> DEFINE S == 1..(n + 1)
             T == 1..n
             x == n + 1
  <1>4. IsFiniteSet(S) /\ T \in SUBSET S /\ x \in S \ T /\ T \union {x} = S /\ \A i \in S : w[i] \in Int
    BY <1>1, <1>2, <1>3
  <1> HIDE DEF S, T, x
  <1>5. SumOf(w, T \union {x}) = SumOf(w, T) + w[x]
    BY <1>4, SumMore
  <1>6. SumOf(w, S) = SumOf(w, T) + w[x]
    BY <1>4, <1>5, Zenon
  <1> QED BY <1>6 DEF S, T, x

(* What is added up place by place is the sum.                             *)
LEMMA SumAlong ==
    ASSUME NEW n \in Nat, NEW w, \A i \in 1..n : w[i] \in Nat,
           NEW F, F[0] = 0, \A i \in 1..n : F[i] = F[i - 1] + w[i]
    PROVE  F[n] = SumOf(w, 1..n) /\ F[n] \in Nat
  <1> DEFINE T == {k \in 0..n : F[k] = SumOf(w, 1..k) /\ F[k] \in Nat}
  <1>1. 0 \in T
    <2>1. 1..0 = {} /\ \A i \in {} : w[i] \in Int
      OBVIOUS
    <2>2. SumOf(w, {}) = 0
      BY FS_EmptySet, SumByRemoval
    <2>3. SumOf(w, 1..0) = 0
      BY <2>1, <2>2, Zenon
    <2> QED BY <2>3
  <1>2. ASSUME NEW k \in 1..n, k - 1 \in T PROVE k \in T
    <2>1. k - 1 \in Nat /\ (k - 1) + 1 = k /\ \A i \in 1..k : w[i] \in Int /\ i \in 1..n
      OBVIOUS
    <2> DEFINE m == k - 1
    <2>2. m \in Nat /\ m + 1 = k /\ \A i \in 1..(m + 1) : w[i] \in Int
      BY <2>1
    <2>3. SumOf(w, 1..m) = F[m] /\ F[m] \in Nat /\ F[k] = F[m] + w[k]
      BY <1>2
    <2> HIDE DEF m
    <2>4. SumOf(w, 1..(m + 1)) = SumOf(w, 1..m) + w[m + 1]
      BY <2>2, SumOneMore
    <2>5. SumOf(w, 1..k) = SumOf(w, 1..m) + w[k]
      BY <2>2, <2>4, Zenon
    <2>6. F[k] = SumOf(w, 1..k) /\ F[k] \in Nat
      BY <2>3, <2>5
    <2> QED BY <2>6
  <1> HIDE DEF T
  <1>3. 0..n \subseteq T
    BY <1>1, <1>2, InductiveInterval
  <1>4. n \in T
    BY <1>3
  <1> QED BY <1>4 DEF T

(* The counts of rows of which one more was appended.                      *)
LEMMA CountedOnceMore ==
    ASSUME NEW n \in Nat, NEW w, NEW v, NEW more \in Nat, \A i \in 1..n : v[i] \in Nat /\ w[i] = v[i],
           w[n + 1] = more
    PROVE  SumOf(w, 1..(n + 1)) = SumOf(v, 1..n) + more
  <1>1. \A i \in 1..(n + 1) : i \in 1..n \/ i = n + 1
    OBVIOUS
  <1>2. \A i \in 1..(n + 1) : w[i] \in Int
    BY <1>1
  <1>3. SumOf(w, 1..(n + 1)) = SumOf(w, 1..n) + w[n + 1]
    BY <1>2, SumOneMore
  <1>4. IsFiniteSet(1..n) /\ \A i \in 1..n : v[i] \in Int /\ w[i] = v[i]
    <2>1. IsFiniteSet(1..n)
      <3>1. n \in Int /\ 1 \in Int
        OBVIOUS
      <3> QED BY <3>1, FS_Interval
    <2> QED BY <2>1
  <1>5. SumOf(w, 1..n) = SumOf(v, 1..n)
    BY <1>4, SumOfSame
  <1>6. SumOf(v, 1..n) \in Int
    BY <1>4, SumIsInt
  <1> QED BY <1>3, <1>5, <1>6

LEMMA ElementOf == ASSUME NEW S, NEW s \in Seq(S), NEW i \in 1..Len(s) PROVE s[i] \in S
  OBVIOUS

LEMMA SumOfOne ==
    ASSUME NEW S, IsFiniteSet(S), NEW w, \A x \in S : w[x] \in Int, NEW y \in S
    PROVE  SumOf(w, {y}) = w[y] /\ SumOf(w, {}) = 0
  <1>1. SumOf(w, {}) = 0
    BY SumIsInt
  <1>2. {} \in SUBSET S /\ y \in S \ {} /\ {} \union {y} = {y}
    OBVIOUS
  <1>3. SumOf(w, {} \union {y}) = SumOf(w, {}) + w[y]
    BY <1>2, SumMore
  <1>4. SumOf(w, {y}) = 0 + w[y]
    BY <1>1, <1>2, <1>3, Zenon
  <1> QED BY <1>1, <1>4

(* What is shown by day adds up to what the rows hold, when each row has a *)
(* day of its own.                                                         *)
LEMMA DaysAddUp ==
    ASSUME NEW n \in Nat, NEW w, \A i \in 1..n : w[i] \in Int,
           NEW F, IsFiniteSet(F), NEW g, \A i \in 1..n : g[i] \in F,
           \A i \in 1..n : \A j \in 1..n : g[i] = g[j] => i = j,
           NEW h, \A f \in F : \/ \E i \in 1..n : g[i] = f /\ h[f] = w[i]
                               \/ h[f] = 0 /\ \A i \in 1..n : g[i] # f
    PROVE  SumOf(h, F) = SumOf(w, 1..n)
  <1> DEFINE S == 1..n
  <1>1. IsFiniteSet(S)
    <2>1. n \in Int /\ 1 \in Int
      OBVIOUS
    <2> QED BY <2>1, FS_Interval
  <1>2. /\ \A i \in S : w[i] \in Int /\ g[i] \in F
        /\ \A i \in S : \A j \in S : g[i] = g[j] => i = j
        /\ \A f \in F : \/ \E i \in S : g[i] = f /\ h[f] = w[i]
                        \/ h[f] = 0 /\ \A i \in S : g[i] # f
    OBVIOUS
  <1> HIDE DEF S
  <1>3. ASSUME NEW f \in F PROVE h[f] = SumOf(w, {x \in S : g[x] = f})
    <2>1. CASE \E i \in S : g[i] = f /\ h[f] = w[i]
      <3>1. PICK i \in S : g[i] = f /\ h[f] = w[i]
        BY <2>1
      <3>2. {x \in S : g[x] = f} = {i}
        BY <1>2, <3>1
      <3>3. SumOf(w, {i}) = w[i]
        BY <1>1, <1>2, SumOfOne
      <3> QED BY <3>1, <3>2, <3>3
    <2>2. CASE h[f] = 0 /\ \A i \in S : g[i] # f
      <3>1. {x \in S : g[x] = f} = {}
        BY <2>2
      <3>2. SumOf(w, {}) = 0
        BY <1>1, <1>2, SumIsInt
      <3> QED BY <2>2, <3>1, <3>2
    <2> QED BY <1>2, <2>1, <2>2
  <1>4. SumsOfGroups(h, F, w, S, g)
    BY <1>3 DEF SumsOfGroups
  <1>5. SumOf(h, F) = SumOf(w, OfGroups(S, g, F))
    BY <1>1, <1>2, <1>4, SumByGroups
  <1>6. OfGroups(S, g, F) = S
    BY <1>2 DEF OfGroups
  <1> QED BY <1>5, <1>6 DEF S

(* A fold over places, from the first to the last: H of sets of places is  *)
(* F of their number.                                                      *)
TakesUp(H, n, V, b, G) ==
    /\ n \in Nat /\ b \in V /\ G \in [V \X (1..n) -> V] /\ H[{}] = b
    /\ \A i \in 1..n : H[1..(i - 1)] \in V => H[1..i] = G[<<H[1..(i - 1)], i>>]
InSteps(F, n, V, b, G) ==
    /\ F \in [0..n -> V] /\ F[0] = b
    /\ \A i \in 1..n : F[i] = G[<<F[i - 1], i>>]

LEMMA FoldAlong ==
    ASSUME NEW n, NEW V, NEW b, NEW G, NEW H, TakesUp(H, n, V, b, G)
    PROVE  \E F : InSteps(F, n, V, b, G) /\ F[n] = H[1..n]
  <1> DEFINE F == [i \in 0..n |-> H[1..i]]
             U == {i \in 0..n : F[i] \in V}
  <1>0. n \in Nat /\ b \in V /\ G \in [V \X (1..n) -> V]
    BY DEF TakesUp
  <1>1. F[0] = b /\ 0 \in 0..n
    <2>1. 1..0 = {}
      OBVIOUS
    <2> QED BY <1>0, <2>1 DEF TakesUp
  <1>2. F[n] = H[1..n] /\ n \in 0..n
    BY <1>0
  <1>3. ASSUME NEW i \in 1..n PROVE i \in 0..n /\ i - 1 \in 0..n /\ F[i] = H[1..i] /\ F[i - 1] = H[1..(i - 1)]
    BY <1>0
  <1> HIDE DEF F
  <1>4. ASSUME NEW i \in 1..n, F[i - 1] \in V PROVE F[i] = G[<<F[i - 1], i>>] /\ F[i] \in V
    BY <1>0, <1>3, <1>4 DEF TakesUp
  <1>5. 0 \in U /\ \A i \in 1..n : i - 1 \in U => i \in U
    BY <1>0, <1>1, <1>3, <1>4
  <1> HIDE DEF U
  <1>6. 0..n \subseteq U
    BY <1>0, <1>5, InductiveInterval
  <1>7. \A i \in 0..n : F[i] \in V
    BY <1>6 DEF U
  <1>8. F \in [0..n -> V]
    BY <1>7 DEF F
  <1>9. \A i \in 1..n : F[i] = G[<<F[i - 1], i>>]
    BY <1>3, <1>4, <1>7
  <1>10. InSteps(F, n, V, b, G)
    BY <1>1, <1>8, <1>9 DEF InSteps
  <1> QED BY <1>2, <1>10

(* What is selected by one set and by another that has the rest.           *)
LEMMA SelectedInParts ==
    ASSUME NEW S, NEW s \in Seq(S), NEW T, NEW R, T \intersect R = {}, Range(s) \subseteq T \union R
    PROVE  Len(Selected(s, T)) + Len(Selected(s, R)) = Len(s)
  <1> DEFINE n == Len(s)
  <1>1. PICK F \in [0..n -> Seq(S)] : F[n] = Selected(s, T) /\ SelectsUp(F, s, T)
    BY SelectedPlaces
  <1>2. PICK G \in [0..n -> Seq(S)] : G[n] = Selected(s, R) /\ SelectsUp(G, s, R)
    BY SelectedPlaces
  <1>3. n \in Nat /\ DOMAIN s = 1..n /\ \A i \in 1..n : s[i] \in S
    OBVIOUS
  <1> DEFINE U == {i \in 0..n : Len(F[i]) + Len(G[i]) = i}
  <1>4. 0 \in U
    BY <1>1, <1>2, <1>3 DEF SelectsUp
  <1>5. ASSUME NEW i \in 1..n, i - 1 \in U PROVE i \in U
    <2>1. i \in 0..n /\ i - 1 \in 0..n /\ Len(F[i - 1]) + Len(G[i - 1]) = i - 1
      BY <1>3, <1>5
    <2>2. F[i - 1] \in Seq(S) /\ G[i - 1] \in Seq(S) /\ s[i] \in S
      BY <1>1, <1>2, <1>3, <2>1
    <2>3. /\ Len(F[i - 1]) \in Nat /\ Len(G[i - 1]) \in Nat
          /\ Len(Append(F[i - 1], s[i])) = Len(F[i - 1]) + 1
          /\ Len(Append(G[i - 1], s[i])) = Len(G[i - 1]) + 1
      BY <2>2
    <2>4. s[i] \in Range(s)
      BY <1>3 DEF Range
    <2>5. CASE s[i] \in T
      <3>1. s[i] \notin R
        BY <2>5
      <3>2. F[i] = Append(F[i - 1], s[i]) /\ G[i] = G[i - 1]
        BY <1>1, <1>2, <2>5, <3>1 DEF SelectsUp
      <3>3. Len(F[i]) + Len(G[i]) = i
        BY <2>1, <2>3, <3>2
      <3> QED BY <2>1, <3>3
    <2>6. CASE s[i] \in R
      <3>1. s[i] \notin T
        BY <2>6
      <3>2. F[i] = F[i - 1] /\ G[i] = Append(G[i - 1], s[i])
        BY <1>1, <1>2, <2>6, <3>1 DEF SelectsUp
      <3>3. Len(F[i]) + Len(G[i]) = i
        BY <2>1, <2>3, <3>2
      <3> QED BY <2>1, <3>3
    <2> QED BY <2>4, <2>5, <2>6
  <1> HIDE DEF U
  <1>6. 0..n \subseteq U
    BY <1>3, <1>4, <1>5, InductiveInterval
  <1>7. n \in U
    BY <1>3, <1>6
  <1> QED BY <1>1, <1>2, <1>7 DEF U

(* A place in three sequences one after the other, the second of length 1. *)
LEMMA ThreeParts ==
    ASSUME NEW p \in Nat, NEW q \in Nat, NEW i \in Int, 1 <= i, i <= p + 1 + q
    PROVE  i \in 1..p \/ i = p + 1 \/ (i - p - 1 \in 1..q /\ i = p + 1 + (i - p - 1))
  OBVIOUS

(* A selection that takes the first n elements and no others.              *)
LEMMA SelectedFirst ==
    ASSUME NEW S, NEW s \in Seq(S), NEW T, NEW n \in 0..Len(s),
           \A i \in 1..Len(s) : s[i] \in T <=> i <= n
    PROVE  Len(Selected(s, T)) = n /\ \A i \in 1..n : Selected(s, T)[i] = s[i]
  <1> DEFINE m == Len(s)
  <1>1. PICK F \in [0..m -> Seq(S)] : F[m] = Selected(s, T) /\ SelectsUp(F, s, T)
    BY SelectedPlaces
  <1>2. m \in Nat /\ n \in Nat /\ n <= m /\ \A i \in 1..m : s[i] \in S
    OBVIOUS
  <1> DEFINE Took(t, k) == Len(t) = k /\ \A i \in 1..k : t[i] = s[i]
             U == {i \in 0..m : IF i <= n THEN Took(F[i], i) ELSE Took(F[i], n)}
  <1>3. 0 \in U
    BY <1>1, <1>2 DEF SelectsUp
  <1>4. ASSUME NEW i \in 1..m, i - 1 \in U PROVE i \in U
    <2>1. i \in 0..m /\ i - 1 \in 0..m /\ i \in Nat /\ F[i - 1] \in Seq(S) /\ s[i] \in S
      BY <1>1, <1>2
    <2>2. F[i] = IF s[i] \in T THEN Append(F[i - 1], s[i]) ELSE F[i - 1]
      BY <1>1 DEF SelectsUp
    <2>3. CASE i <= n
      <3>1. F[i] = Append(F[i - 1], s[i]) /\ Took(F[i - 1], i - 1)
        BY <1>2, <1>4, <2>1, <2>2, <2>3
      <3>2. Took(F[i], i)
        BY <2>1, <3>1
      <3> QED BY <2>1, <2>3, <3>2
    <2>4. CASE ~(i <= n)
      <3>1. F[i] = F[i - 1]
        BY <2>2, <2>4
      <3>2. Took(F[i - 1], n)
        <4>1. i - 1 <= n => i - 1 = n
          BY <1>2, <2>1, <2>4
        <4> HIDE DEF Took
        <4> QED BY <1>4, <4>1
      <3> HIDE DEF Took
      <3> QED BY <2>1, <2>4, <3>1, <3>2
    <2> QED BY <2>3, <2>4
  <1> HIDE DEF U
  <1>5. 0..m \subseteq U
    BY <1>2, <1>3, <1>4, InductiveInterval
  <1>6. m \in U
    BY <1>2, <1>5
  <1>7. Took(F[m], n)
    <2> HIDE DEF Took, m
    <2>1. m <= n => m = n
      BY <1>2
    <2> QED BY <1>6, <2>1 DEF U
  <1> QED BY <1>1, <1>7

(* What was appended last is last.                                         *)
LEMMA LastAppended ==
    ASSUME NEW S, NEW s \in Seq(S), NEW e \in S
    PROVE  /\ Append(s, e) \in Seq(S) /\ Append(s, e) # <<>>
           /\ Last(Append(s, e)) = e /\ Front(Append(s, e)) = s
  <1> DEFINE t == Append(s, e)
  <1>1. /\ t \in Seq(S) /\ Len(t) = Len(s) + 1 /\ Len(s) \in Nat /\ t[Len(s) + 1] = e
        /\ \A i \in 1..Len(s) : t[i] = s[i]
    OBVIOUS
  <1> HIDE DEF t
  <1>2. t # <<>>
    BY <1>1
  <1>3. Last(t) = e
    BY <1>1 DEF Last
  <1>4. Front(t) = s
    <2>1. Len(t) - 1 = Len(s) /\ Len(s) \in 0..Len(t)
      BY <1>1
    <2>2. Front(t) = SubSeq(t, 1, Len(s))
      BY <2>1 DEF Front
    <2>3. IsSequence(t) /\ IsSequence(s)
      BY <1>1, AnySequence
    <2>4. /\ IsSequence(SubSeq(t, 1, Len(s))) /\ Len(SubSeq(t, 1, Len(s))) = Len(s)
          /\ \A i \in 1..Len(s) : SubSeq(t, 1, Len(s))[i] = t[i]
      BY <2>1, <2>3, PrefixElements
    <2>5. SubSeq(t, 1, Len(s)) = s
      BY <1>1, <2>3, <2>4, SameElements
    <2> QED BY <2>2, <2>5
  <1> QED BY <1>1, <1>2, <1>3, <1>4 DEF t

(* A sequence with another element in one place.                           *)
ElementChanged(v, w, k, e) == v = [i \in DOMAIN w |-> IF i = k THEN e ELSE w[i]]

LEMMA ChangedLast ==
    ASSUME NEW S, NEW w \in Seq(S), w # <<>>, NEW e \in S, NEW v, ElementChanged(v, w, Len(w), e)
    PROVE  /\ v \in Seq(S) /\ Len(v) = Len(w) /\ Len(w) \in Nat \ {0}
           /\ v[Len(w)] = e /\ \A i \in 1..(Len(w) - 1) : v[i] = w[i]
  <1>1. Len(w) \in Nat \ {0} /\ DOMAIN w = 1..Len(w) /\ \A i \in 1..Len(w) : w[i] \in S
    BY EmptyOrNot, AnySequence
  <1>2. v = [i \in DOMAIN w |-> IF i = Len(w) THEN e ELSE w[i]]
    BY DEF ElementChanged
  <1>3. v \in [1..Len(w) -> S]
    BY <1>1, <1>2
  <1>4. v \in Seq(S) /\ Len(v) = Len(w)
    BY <1>1, <1>3
  <1>5. PICK n : n = Len(w)
    OBVIOUS
  <1>6. n \in Nat \ {0}
    BY <1>1, <1>5
  <1>7. n \in 1..n /\ \A i \in 1..(n - 1) : i \in 1..n /\ i # n
    BY <1>6
  <1>8. v[n] = e /\ \A i \in 1..(n - 1) : v[i] = w[i]
    BY <1>1, <1>2, <1>5, <1>7
  <1> QED BY <1>1, <1>4, <1>5, <1>8

(* The last element of a sequence replaced by another.                     *)
LEMMA LastReplaced ==
    ASSUME NEW S, NEW s \in Seq(S), NEW a \in S, NEW b \in S, NEW t, t = Append(s, a),
           NEW u, ElementChanged(u, t, Len(t), b)
    PROVE  u = Append(s, b)
  <1>1. /\ t \in Seq(S) /\ Len(t) = Len(s) + 1 /\ Len(s) \in Nat
        /\ \A i \in 1..Len(s) : t[i] = s[i]
    BY Appended
  <1>2. t # <<>>
    BY <1>1
  <1>3. /\ u \in Seq(S) /\ Len(u) = Len(t) /\ u[Len(t)] = b
        /\ \A i \in 1..(Len(t) - 1) : u[i] = t[i]
    <2>1. t \in Seq(S) /\ t # <<>> /\ b \in S /\ ElementChanged(u, t, Len(t), b)
      BY <1>1, <1>2
    <2> QED BY ONLY <2>1, ChangedLast
  <1>4. PICK v : v = Append(s, b)
    OBVIOUS
  <1>5. /\ v \in Seq(S) /\ Len(v) = Len(s) + 1 /\ v[Len(s) + 1] = b
        /\ \A i \in 1..Len(s) : v[i] = s[i]
        /\ \A i \in 1..Len(v) : i \in 1..Len(s) \/ i = Len(s) + 1
    BY <1>4, Appended
  <1>6. IsSequence(u) /\ IsSequence(v)
    BY <1>3, <1>5, AnySequence
  <1>7. Len(u) = Len(v) /\ \A i \in 1..Len(v) : v[i] = u[i]
    <2>1. Len(t) - 1 = Len(s)
      BY <1>1
    <2> QED BY <1>1, <1>3, <1>5, <2>1
  <1>8. u = v
    BY <1>6, <1>7, SameElements
  <1> QED BY <1>4, <1>8
=============================================================================

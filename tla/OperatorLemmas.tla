---------------------------- MODULE OperatorLemmas ----------------------------
(***************************************************************************)
(* Facts about the operators the models are built from, for the proofs     *)
(* about them: queues, sets of numbers, sums along a list, remainders, and *)
(* lists joined.                                                           *)
(***************************************************************************)
EXTENDS Totals, SequencesExt, SequenceTheorems, FiniteSetTheorems, WellFoundedInduction,
        TLAPS

-----------------------------------------------------------------------------
(* Queues, and sets of numbers.                                            *)

\* What RemoveAt leaves: the elements before i, then those after it.
LEMMA RemoveAtProperties ==
  ASSUME NEW S, NEW q \in Seq(S), NEW i \in 1 .. Len(q)
  PROVE  /\ RemoveAt(q, i) \in Seq(S)
         /\ Len(RemoveAt(q, i)) = Len(q) - 1
         /\ \A j \in 1 .. Len(q) - 1 :
              RemoveAt(q, i)[j] = IF j < i THEN q[j] ELSE q[j + 1]
<1> DEFINE a == SubSeq(q, 1, i - 1)
           b == SubSeq(q, i + 1, Len(q))
<1>1. Len(q) \in Nat /\ \A k \in 1 .. Len(q) : q[k] \in S
  BY LenProperties, ElementOfSeq
<1>2. /\ a \in Seq(S) /\ Len(a) = i - 1
      /\ \A j \in 1 .. i - 1 : a[j] = q[j]
  <2>1. \A k \in 1 .. i - 1 : q[k] \in S
    BY <1>1
  <2>2. i - 1 \in Int /\ 1 \in Int
    BY <1>1
  <2>3. /\ SubSeq(q, 1, i - 1) \in Seq(S)
        /\ Len(SubSeq(q, 1, i - 1)) = IF 1 <= i - 1 THEN i - 1 - 1 + 1 ELSE 0
        /\ \A j \in 1 .. i - 1 - 1 + 1 : SubSeq(q, 1, i - 1)[j] = q[1 + j - 1]
    BY <2>1, <2>2, SubSeqProperties
  <2> QED BY <1>1, <2>3
<1>3. /\ b \in Seq(S) /\ Len(b) = Len(q) - i
      /\ \A j \in 1 .. Len(q) - i : b[j] = q[i + j]
  <2>1. \A k \in i + 1 .. Len(q) : q[k] \in S
    BY <1>1
  <2>2. i + 1 \in Int /\ Len(q) \in Int
    BY <1>1
  <2>3. /\ SubSeq(q, i + 1, Len(q)) \in Seq(S)
        /\ Len(SubSeq(q, i + 1, Len(q))) =
             IF i + 1 <= Len(q) THEN Len(q) - (i + 1) + 1 ELSE 0
        /\ \A j \in 1 .. Len(q) - (i + 1) + 1 :
             SubSeq(q, i + 1, Len(q))[j] = q[i + 1 + j - 1]
    BY <2>1, <2>2, SubSeqProperties
  <2> QED BY <1>1, <2>3
<1> HIDE DEF a, b
<1>4. /\ a \o b \in Seq(S) /\ Len(a \o b) = Len(q) - 1
      /\ \A j \in 1 .. Len(q) - 1 :
           (a \o b)[j] = IF j <= i - 1 THEN a[j] ELSE b[j - (i - 1)]
  <2>1. /\ a \o b \in Seq(S)
        /\ Len(a \o b) = Len(a) + Len(b)
        /\ \A j \in 1 .. Len(a) + Len(b) :
             (a \o b)[j] = IF j <= Len(a) THEN a[j] ELSE b[j - Len(a)]
    BY <1>2, <1>3, ConcatProperties
  <2>2. Len(a) + Len(b) = Len(q) - 1
    BY <1>1, <1>2, <1>3
  <2> QED BY <1>2, <2>1, <2>2
<1>5. \A j \in 1 .. Len(q) - 1 : (a \o b)[j] = IF j < i THEN q[j] ELSE q[j + 1]
  <2> TAKE j \in 1 .. Len(q) - 1
  <2>1. CASE j < i
    BY <1>1, <1>2, <1>4, <2>1
  <2>2. CASE ~(j < i)
    <3>1. j - (i - 1) \in 1 .. Len(q) - i /\ i + (j - (i - 1)) = j + 1
      BY <1>1, <2>2
    <3> QED BY <1>1, <1>3, <1>4, <2>2, <3>1
  <2> QED BY <2>1, <2>2
<1> QED BY <1>4, <1>5 DEF RemoveAt, a, b

\* A queue without repetitions stays one when an element is taken out, and
\* loses that element alone.
LEMMA RemoveFromQueue ==
  ASSUME NEW S, NEW q \in Seq(S), IsInjective(q), NEW i \in 1 .. Len(q)
  PROVE  /\ IsInjective(RemoveAt(q, i))
         /\ Range(RemoveAt(q, i)) = Range(q) \ {q[i]}
<1> DEFINE r == RemoveAt(q, i)
<1>1. /\ r \in Seq(S) /\ Len(r) = Len(q) - 1
      /\ \A j \in 1 .. Len(q) - 1 : r[j] = IF j < i THEN q[j] ELSE q[j + 1]
  BY RemoveAtProperties
<1>2. Len(q) \in Nat /\ DOMAIN q = 1 .. Len(q) /\ DOMAIN r = 1 .. Len(q) - 1
  BY <1>1, LenProperties
<1> HIDE DEF r
<1>3. \A j, k \in 1 .. Len(q) : q[j] = q[k] => j = k
  BY <1>2 DEF IsInjective
<1>4. \A j, k \in 1 .. Len(q) - 1 : r[j] = r[k] => j = k
  <2> TAKE j, k \in 1 .. Len(q) - 1
  <2> HAVE r[j] = r[k]
  <2>1. j \in 1 .. Len(q) /\ j + 1 \in 1 .. Len(q)
        /\ k \in 1 .. Len(q) /\ k + 1 \in 1 .. Len(q)
    BY <1>2
  <2>2. /\ r[j] = IF j < i THEN q[j] ELSE q[j + 1]
        /\ r[k] = IF k < i THEN q[k] ELSE q[k + 1]
    BY <1>1
  <2>3. CASE j < i /\ k < i
    BY <1>3, <2>1, <2>2, <2>3
  <2>4. CASE ~(j < i) /\ ~(k < i)
    <3>1. q[j + 1] = q[k + 1]
      BY <2>2, <2>4
    <3>2. j + 1 = k + 1
      BY <1>3, <2>1, <3>1
    <3> QED BY <3>2
  <2>5. CASE j < i /\ ~(k < i)
    <3>1. q[j] = q[k + 1]
      BY <2>2, <2>5
    <3>2. j = k + 1
      BY <1>3, <2>1, <3>1
    <3> QED BY <2>5, <3>2
  <2>6. CASE ~(j < i) /\ k < i
    <3>1. q[j + 1] = q[k]
      BY <2>2, <2>6
    <3>2. j + 1 = k
      BY <1>3, <2>1, <3>1
    <3> QED BY <2>6, <3>2
  <2> QED BY <2>3, <2>4, <2>5, <2>6
<1>5. Range(r) \subseteq Range(q) \ {q[i]}
  <2> SUFFICES ASSUME NEW j \in 1 .. Len(q) - 1
               PROVE  r[j] \in Range(q) \ {q[i]}
    BY <1>2 DEF Range
  <2>1. r[j] = IF j < i THEN q[j] ELSE q[j + 1]
    BY <1>1
  <2>2. j \in 1 .. Len(q) /\ j + 1 \in 1 .. Len(q)
    BY <1>2
  <2>3. CASE j < i
    <3>1. r[j] = q[j] /\ q[j] # q[i]
      BY <1>3, <2>1, <2>2, <2>3
    <3> QED BY <1>2, <2>2, <3>1 DEF Range
  <2>4. CASE ~(j < i)
    <3>1. r[j] = q[j + 1] /\ q[j + 1] # q[i]
      BY <1>3, <2>1, <2>2, <2>4
    <3> QED BY <1>2, <2>2, <3>1 DEF Range
  <2> QED BY <2>3, <2>4
<1>6. Range(q) \ {q[i]} \subseteq Range(r)
  <2> SUFFICES ASSUME NEW k \in 1 .. Len(q), q[k] # q[i]
               PROVE  q[k] \in Range(r)
    BY <1>2 DEF Range
  <2>1. CASE k < i
    <3>1. k \in 1 .. Len(q) - 1 /\ r[k] = q[k]
      BY <1>1, <1>2, <2>1
    <3> QED BY <1>2, <3>1 DEF Range
  <2>2. CASE k > i
    <3>1. k - 1 \in 1 .. Len(q) - 1 /\ r[k - 1] = q[k]
      BY <1>1, <1>2, <2>2
    <3> QED BY <1>2, <3>1 DEF Range
  <2> QED BY <1>2, <2>1, <2>2
<1>7. IsInjective(r)
  BY <1>2, <1>4 DEF IsInjective
<1> QED BY <1>5, <1>6, <1>7 DEF r

\* Joining the end of a queue.
LEMMA AppendToQueue ==
  ASSUME NEW S, NEW q \in Seq(S), IsInjective(q), NEW e \in S, e \notin Range(q)
  PROVE  /\ Append(q, e) \in Seq(S) /\ Len(Append(q, e)) = Len(q) + 1
         /\ IsInjective(Append(q, e))
         /\ Range(Append(q, e)) = Range(q) \cup {e}
<1>1. /\ Append(q, e) \in Seq(S) /\ Len(Append(q, e)) = Len(q) + 1
      /\ DOMAIN q = 1 .. Len(q) /\ Len(q) \in Nat
      /\ DOMAIN Append(q, e) = 1 .. Len(q) + 1
      /\ \A j \in 1 .. Len(q) : Append(q, e)[j] = q[j]
      /\ Append(q, e)[Len(q) + 1] = e
  BY LenProperties
<1>2. \A j \in 1 .. Len(q) : q[j] # e
  BY <1>1 DEF Range
<1>3. IsInjective(Append(q, e))
  BY <1>1, <1>2 DEF IsInjective
<1>4. Range(Append(q, e)) = Range(q) \cup {e}
  BY <1>1 DEF Range
<1> QED BY <1>1, <1>3, <1>4

\* Joining the front of a queue.
LEMMA PutInFront ==
  ASSUME NEW S, NEW q \in Seq(S), IsInjective(q), NEW e \in S, e \notin Range(q)
  PROVE  /\ <<e>> \o q \in Seq(S)
         /\ IsInjective(<<e>> \o q)
         /\ Range(<<e>> \o q) = Range(q) \cup {e}
<1> DEFINE r == <<e>> \o q
<1>1. /\ r \in Seq(S) /\ Len(r) = 1 + Len(q) /\ Len(q) \in Nat
      /\ DOMAIN q = 1 .. Len(q) /\ DOMAIN r = 1 .. 1 + Len(q)
      /\ r[1] = e /\ \A j \in 1 .. Len(q) : r[j + 1] = q[j]
  <2>1. <<e>> \in Seq(S) /\ Len(<<e>>) = 1 /\ <<e>>[1] = e
    OBVIOUS
  <2>2. /\ r \in Seq(S) /\ Len(r) = Len(<<e>>) + Len(q)
        /\ \A j \in 1 .. Len(<<e>>) + Len(q) :
             r[j] = IF j <= Len(<<e>>) THEN <<e>>[j] ELSE q[j - Len(<<e>>)]
    BY <2>1, ConcatProperties
  <2>3. Len(q) \in Nat /\ DOMAIN q = 1 .. Len(q) /\ DOMAIN r = 1 .. Len(r)
    BY <2>2, LenProperties
  <2> HIDE DEF r
  <2> QED BY <2>1, <2>2, <2>3
<1> HIDE DEF r
<1>2. \A j \in 1 .. Len(q) : q[j] # e
  BY <1>1 DEF Range
<1>3. \A k \in DOMAIN r : k = 1 \/ (k - 1 \in 1 .. Len(q) /\ r[k] = q[k - 1])
  <2> TAKE k \in DOMAIN r
  <2>1. k = 1 \/ (k - 1 \in 1 .. Len(q) /\ (k - 1) + 1 = k)
    BY <1>1
  <2> QED BY <1>1, <2>1
<1>4. IsInjective(r)
  <2> SUFFICES ASSUME NEW j \in DOMAIN r, NEW k \in DOMAIN r, r[j] = r[k]
               PROVE  j = k
    BY DEF IsInjective
  <2>1. \A m, n \in 1 .. Len(q) : q[m] = q[n] => m = n
    BY <1>1 DEF IsInjective
  <2> QED BY <1>1, <1>2, <1>3, <2>1
<1>5. Range(r) = Range(q) \cup {e}
  <2>1. \A j \in 1 .. Len(q) : j + 1 \in DOMAIN r
    BY <1>1
  <2>2. 1 \in DOMAIN r
    BY <1>1
  <2>3. Range(r) \subseteq Range(q) \cup {e}
    <3> SUFFICES ASSUME NEW k \in DOMAIN r
                 PROVE  r[k] \in Range(q) \cup {e}
      BY DEF Range
    <3>1. CASE k = 1
      BY <1>1, <3>1
    <3>2. CASE k - 1 \in 1 .. Len(q) /\ r[k] = q[k - 1]
      BY <1>1, <3>2 DEF Range
    <3> QED BY <1>3, <3>1, <3>2
  <2>4. Range(q) \cup {e} \subseteq Range(r)
    <3>1. e \in Range(r)
      BY <1>1, <2>2 DEF Range
    <3>2. \A j \in 1 .. Len(q) : q[j] \in Range(r)
      <4> TAKE j \in 1 .. Len(q)
      <4>1. j + 1 \in DOMAIN r /\ r[j + 1] = q[j]
        BY <1>1, <2>1
      <4> QED BY <4>1 DEF Range
    <3> QED BY <1>1, <3>1, <3>2 DEF Range
  <2> QED BY <2>3, <2>4
<1> QED BY <1>1, <1>4, <1>5 DEF r

\* Leaving from the front of a queue.
LEMMA TakeFromFront ==
  ASSUME NEW S, NEW q \in Seq(S), IsInjective(q), q # <<>>
  PROVE  /\ Head(q) \in Range(q) /\ Head(q) \in S
         /\ Tail(q) \in Seq(S)
         /\ IsInjective(Tail(q))
         /\ Range(Tail(q)) = Range(q) \ {Head(q)}
<1>1. /\ Len(q) \in Nat \ {0} /\ DOMAIN q = 1 .. Len(q)
      /\ Head(q) = q[1] /\ Tail(q) \in Seq(S)
      /\ DOMAIN Tail(q) = 1 .. Len(q) - 1
      /\ \A j \in 1 .. Len(q) - 1 : Tail(q)[j] = q[j + 1]
  BY LenProperties, EmptySeq, HeadTailProperties
<1>2. \A j, k \in 1 .. Len(q) : q[j] = q[k] => j = k
  BY <1>1 DEF IsInjective
<1>3. IsInjective(Tail(q))
  BY <1>1, <1>2 DEF IsInjective
<1>4. Range(Tail(q)) \subseteq Range(q) \ {Head(q)}
  <2> SUFFICES ASSUME NEW j \in 1 .. Len(q) - 1
               PROVE  Tail(q)[j] \in Range(q) \ {Head(q)}
    BY <1>1 DEF Range
  <2>1. j + 1 \in 1 .. Len(q) /\ 1 \in 1 .. Len(q) /\ j + 1 # 1
    BY <1>1
  <2> QED BY <1>1, <1>2, <2>1 DEF Range
<1>5. Range(q) \ {Head(q)} \subseteq Range(Tail(q))
  <2> SUFFICES ASSUME NEW k \in 1 .. Len(q), q[k] # q[1]
               PROVE  q[k] \in Range(Tail(q))
    BY <1>1 DEF Range
  <2>1. k - 1 \in 1 .. Len(q) - 1 /\ (k - 1) + 1 = k
    BY <1>1
  <2>2. Tail(q)[k - 1] = q[k]
    BY <1>1, <2>1
  <2> QED BY <1>1, <2>1, <2>2 DEF Range
<1>6. 1 \in DOMAIN q /\ q[1] \in S
  BY <1>1, ElementOfSeq
<1> QED BY <1>1, <1>3, <1>4, <1>5, <1>6 DEF Range

\* A non-empty set of natural numbers has a least element.
LEMMA LeastNatExists ==
  ASSUME NEW T, T \subseteq Nat, T # {}
  PROVE  \E x \in T : \A y \in T : x <= y
<1> DEFINE R == OpToRel(<, Nat)
<1>1. \A x, y \in Nat : <<x, y>> \in R <=> x < y
  BY DEF OpToRel
<1>2. IsWellFoundedOn(R, Nat)
  BY NatLessThanWellFounded
<1> HIDE DEF R
<1>3. PICK x \in T : \A y \in T : ~(<<y, x>> \in R)
  BY <1>2, WFMin
<1>4. \A y \in T : <<y, x>> \in R <=> y < x
  BY <1>1
<1>5. \A y \in T : x \in Nat /\ y \in Nat /\ ~(y < x)
  BY <1>3, <1>4
<1> QED BY <1>5

\* Min and Max return the extremes of a non-empty set of numbers up to n.
LEMMA MinMaxProperties ==
  ASSUME NEW n \in Nat, NEW T, T \subseteq 0 .. n, T # {}
  PROVE  /\ Min(T) \in T /\ \A y \in T : Min(T) <= y
         /\ Max(T) \in T /\ \A y \in T : y <= Max(T)
<1>1. Min(T) \in T /\ \A y \in T : Min(T) <= y
  <2>0. T \subseteq Nat
    OBVIOUS
  <2>1. \E x \in T : \A y \in T : x <= y
    BY <2>0, LeastNatExists
  <2> QED BY <2>1 DEF Min
<1>2. Max(T) \in T /\ \A y \in T : y <= Max(T)
  <2> DEFINE U == {n - y : y \in T}
  <2>1. U \subseteq Nat /\ U # {}
    <3>1. \A y \in T : y \in Int /\ 0 <= y /\ y <= n
      OBVIOUS
    <3>2. \A y \in T : n - y \in Nat
      BY <3>1
    <3>3. PICK y \in T : TRUE
      OBVIOUS
    <3>4. n - y \in U
      OBVIOUS
    <3> QED BY <3>2, <3>4
  <2>2. PICK u \in U : \A v \in U : u <= v
    BY <2>1, LeastNatExists
  <2>3. PICK x \in T : u = n - x
    OBVIOUS
  <2>4. \A y \in T : n - x <= n - y
    BY <2>2, <2>3
  <2>5. \A y \in T : x \in Int /\ y \in Int /\ x >= y
    BY <2>4
  <2>6. \E z \in T : \A y \in T : z >= y
    BY <2>5
  <2>7. Max(T) \in T /\ \A y \in T : Max(T) >= y
    BY <2>6 DEF Max
  <2> QED BY <2>7
<1> QED BY <1>1, <1>2

\* The size of an interval.
LEMMA IntervalSize ==
  ASSUME NEW n \in Nat
  PROVE  IsFiniteSet(1 .. n) /\ Cardinality(1 .. n) = n
<1>1. 1 \in Int /\ n \in Int
  OBVIOUS
<1>2. IsFiniteSet(1 .. n) /\ Cardinality(1 .. n) = IF 1 > n THEN 0 ELSE n - 1 + 1
  BY <1>1, FS_Interval
<1> QED BY <1>2

\* A queue without repetitions has as many elements as places.
LEMMA QueueCardinality ==
  ASSUME NEW S, NEW q \in Seq(S), IsInjective(q)
  PROVE  IsFiniteSet(Range(q)) /\ Cardinality(Range(q)) = Len(q)
<1>1. Len(q) \in Nat /\ DOMAIN q = 1 .. Len(q) /\ q = [i \in 1 .. Len(q) |-> q[i]]
  BY LenProperties
<1>2. q \in Bijection(1 .. Len(q), Range(q))
  BY <1>1 DEF IsInjective, Range, Bijection, Injection, Surjection
<1>3. IsFiniteSet(1 .. Len(q)) /\ Cardinality(1 .. Len(q)) = Len(q)
  BY <1>1, IntervalSize
<1>4. ExistsBijection(1 .. Len(q), Range(q))
  BY <1>2 DEF ExistsBijection
<1> QED BY <1>3, <1>4, FS_Bijection

\* A step can be repeated any number of times.
LEMMA IterationExists ==
  ASSUME NEW S, NEW start \in S, NEW step \in [S -> S], NEW N \in Nat
  PROVE  \E f \in [1 .. N + 1 -> S] :
           f[1] = start /\ \A k \in 1 .. N : f[k + 1] = step[f[k]]
<1> DEFINE Goes(n, f) == f[1] = start /\ \A k \in 1 .. n : f[k + 1] = step[f[k]]
           Bad == {n \in 0 .. N : ~\E f \in [1 .. n + 1 -> S] : Goes(n, f)}
<1>1. SUFFICES ASSUME Bad # {} PROVE FALSE
  <2>1. N \in 0 .. N
    OBVIOUS
  <2> QED BY <2>1
<1>2. PICK n \in Bad : \A m \in Bad : n <= m
  <2>1. Bad \subseteq Nat
    OBVIOUS
  <2> HIDE DEF Bad
  <2> QED BY <1>1, <2>1, LeastNatExists
<1>3. n \in 0 .. N /\ n \in Nat /\ ~\E f \in [1 .. n + 1 -> S] : Goes(n, f)
  OBVIOUS
<1>4. n # 0
  <2>1. [i \in 1 .. 0 + 1 |-> start] \in [1 .. 0 + 1 -> S]
    OBVIOUS
  <2>2. Goes(0, [i \in 1 .. 0 + 1 |-> start])
    OBVIOUS
  <2> QED BY <1>3, <2>1, <2>2
<1>5. PICK g \in [1 .. n -> S] : Goes(n - 1, g)
  <2>1. n - 1 \in 0 .. N /\ ~(n <= n - 1) /\ (n - 1) + 1 = n
    BY <1>3, <1>4
  <2>2. n - 1 \notin Bad
    BY <1>2, <2>1
  <2> QED BY <2>1, <2>2
<1> DEFINE f == [i \in 1 .. n + 1 |-> IF i = n + 1 THEN step[g[n]] ELSE g[i]]
<1>6. /\ n \in 1 .. n /\ 1 # n + 1 /\ 1 \in 1 .. n + 1
      /\ \A i \in 1 .. n + 1 : i # n + 1 => i \in 1 .. n
      /\ \A k \in 1 .. n : k \in 1 .. n + 1 /\ k # n + 1 /\ k + 1 \in 1 .. n + 1
      /\ \A k \in 1 .. n : k # n => k \in 1 .. n - 1 /\ k + 1 # n + 1
  BY <1>3, <1>4
<1>7. f \in [1 .. n + 1 -> S]
  <2>1. step[g[n]] \in S /\ \A i \in 1 .. n : g[i] \in S
    BY <1>6
  <2> QED BY <1>6, <2>1
<1>8. f[1] = start
  BY <1>5, <1>6
<1>9. \A k \in 1 .. n : f[k + 1] = step[f[k]]
  <2> TAKE k \in 1 .. n
  <2>1. f[k] = g[k]
    BY <1>6
  <2>2. CASE k = n
    BY <1>6, <2>1, <2>2
  <2>3. CASE k # n
    <3>1. f[k + 1] = g[k + 1]
      BY <1>6, <2>3
    <3>2. g[k + 1] = step[g[k]]
      BY <1>5, <1>6, <2>3
    <3> QED BY <2>1, <3>1, <3>2
  <2> QED BY <2>2, <2>3
<1> HIDE DEF f
<1>10. Goes(n, f)
  BY <1>8, <1>9
<1> QED BY <1>3, <1>7, <1>10

-----------------------------------------------------------------------------
(* Sums along a list.                                                      *)
(*                                                                         *)
(* TotalOf is defined by recursion.  That its recursion has one solution,  *)
(* and only one, is shown with a least counterexample; every other fact    *)
(* gives the partial sums of the new list explicitly (TotalByPartials).    *)

\* f lists the sums of the first 0 .. n elements of w.
PartialSums(w, n, f) ==
  /\ f \in [0 .. n -> Int]
  /\ f[0] = 0
  /\ \A i \in 1 .. n : f[i] = f[i - 1] + w[i]

\* Every list has partial sums.
LEMMA PartialSumsExist ==
  ASSUME NEW w \in Seq(Int)
  PROVE  \E f : PartialSums(w, Len(w), f)
<1> DEFINE Bad == {n \in 0 .. Len(w) : ~\E f : PartialSums(w, n, f)}
<1>1. Len(w) \in Nat /\ \A i \in 1 .. Len(w) : w[i] \in Int
  BY LenProperties, ElementOfSeq
<1>2. SUFFICES ASSUME Bad # {} PROVE FALSE
  <2>1. Len(w) \in 0 .. Len(w)
    BY <1>1
  <2> QED BY <2>1
<1>3. PICK n \in Bad : \A m \in Bad : n <= m
  <2>1. Bad \subseteq Nat
    BY <1>1
  <2> HIDE DEF Bad
  <2> QED BY <1>2, <2>1, LeastNatExists
<1>4. n \in 0 .. Len(w) /\ n \in Nat /\ ~\E f : PartialSums(w, n, f)
  BY <1>1
<1>5. n # 0
  <2>1. PartialSums(w, 0, [i \in 0 .. 0 |-> 0])
    BY DEF PartialSums
  <2> QED BY <1>4, <2>1
<1>6. PICK g : PartialSums(w, n - 1, g)
  <2>1. n - 1 \in 0 .. Len(w) /\ ~(n <= n - 1)
    BY <1>1, <1>4, <1>5
  <2> QED BY <1>3, <2>1
<1> DEFINE f == [i \in 0 .. n |-> IF i = n THEN g[n - 1] + w[n] ELSE g[i]]
<1>7. /\ n \in 1 .. Len(w) /\ n - 1 \in 0 .. n - 1
      /\ \A i \in 0 .. n : i # n => i \in 0 .. n - 1
      /\ \A i \in 1 .. n : i - 1 \in 0 .. n - 1
  BY <1>1, <1>4, <1>5
<1>8. f \in [0 .. n -> Int]
  <2>1. g[n - 1] + w[n] \in Int
    BY <1>1, <1>6, <1>7 DEF PartialSums
  <2> QED BY <1>6, <1>7, <2>1 DEF PartialSums
<1>9. f[0] = 0
  BY <1>4, <1>5, <1>6 DEF PartialSums
<1>10. \A i \in 1 .. n : f[i] = f[i - 1] + w[i]
  <2> TAKE i \in 1 .. n
  <2>1. f[i - 1] = g[i - 1]
    BY <1>4, <1>7
  <2>2. CASE i = n
    BY <2>1, <2>2, <1>7
  <2>3. CASE i # n
    <3>1. i \in 1 .. n - 1
      BY <1>4, <2>3
    <3>2. g[i] = g[i - 1] + w[i]
      BY <1>6, <3>1 DEF PartialSums
    <3> QED BY <2>1, <2>3, <3>2
  <2> QED BY <2>2, <2>3
<1> HIDE DEF f
<1>11. PartialSums(w, n, f)
  BY <1>8, <1>9, <1>10 DEF PartialSums
<1> QED BY <1>4, <1>11

\* ... and only one: the total is the last of them.
LEMMA TotalByPartials ==
  ASSUME NEW w \in Seq(Int), NEW f, PartialSums(w, Len(w), f)
  PROVE  TotalOf(w) = f[Len(w)] /\ TotalOf(w) \in Int
<1> DEFINE n == Len(w)
           Solves(h) == h = [i \in 0 .. n |-> IF i = 0 THEN 0 ELSE h[i - 1] + w[i]]
           sum == CHOOSE h : Solves(h)
<1>1. n \in Nat /\ \A i \in 1 .. n : w[i] \in Int
  BY LenProperties, ElementOfSeq
<1>2. /\ f \in [0 .. n -> Int] /\ f[0] = 0
      /\ \A i \in 1 .. n : f[i] = f[i - 1] + w[i]
  BY DEF PartialSums
<1> HIDE DEF n
<1>3. \A i \in 0 .. n : f[i] = IF i = 0 THEN 0 ELSE f[i - 1] + w[i]
  <2> TAKE i \in 0 .. n
  <2>1. i = 0 \/ i \in 1 .. n
    BY <1>1
  <2> QED BY <1>2, <2>1
<1>4. Solves(f)
  BY <1>2, <1>3
<1>5. Solves(sum)
  <2> HIDE DEF Solves
  <2> QED BY <1>4
<1> HIDE DEF sum
<1>6. \A i \in 0 .. n : sum[i] = IF i = 0 THEN 0 ELSE sum[i - 1] + w[i]
  BY <1>5
<1>7. \A i \in 0 .. n : sum[i] = f[i]
  <2> DEFINE Bad == {i \in 0 .. n : sum[i] # f[i]}
  <2>1. SUFFICES ASSUME Bad # {} PROVE FALSE
    OBVIOUS
  <2>2. PICK k \in Bad : \A j \in Bad : k <= j
    <3>1. Bad \subseteq Nat
      BY <1>1
    <3> HIDE DEF Bad
    <3> QED BY <2>1, <3>1, LeastNatExists
  <2>3. k \in 0 .. n /\ sum[k] # f[k]
    OBVIOUS
  <2>4. CASE k = 0
    BY <1>3, <1>6, <2>3, <2>4
  <2>5. CASE k # 0
    <3>1. k - 1 \in 0 .. n /\ ~(k <= k - 1)
      BY <1>1, <2>3, <2>5
    <3>2. sum[k - 1] = f[k - 1]
      BY <2>2, <3>1
    <3>3. sum[k] = sum[k - 1] + w[k] /\ f[k] = f[k - 1] + w[k]
      BY <1>3, <1>6, <2>3, <2>5
    <3> QED BY <2>3, <3>2, <3>3
  <2> QED BY <2>4, <2>5
<1>8. TotalOf(w) = sum[n]
  BY DEF TotalOf, sum, n
<1> QED BY <1>1, <1>2, <1>7, <1>8 DEF n

\* The partial sums of a list, for use below.
LEMMA TotalPartials ==
  ASSUME NEW w \in Seq(Int)
  PROVE  \E f : PartialSums(w, Len(w), f) /\ TotalOf(w) = f[Len(w)]
BY PartialSumsExist, TotalByPartials

\* Integers add up to an integer.
LEMMA TotalIsInt ==
  ASSUME NEW w \in Seq(Int)
  PROVE  TotalOf(w) \in Int
BY PartialSumsExist, TotalByPartials

\* A list of zeros, which an empty list is too.
LEMMA TotalOfZeros ==
  ASSUME NEW w \in Seq(Int), \A i \in 1 .. Len(w) : w[i] = 0
  PROVE  TotalOf(w) = 0
<1> DEFINE f == [i \in 0 .. Len(w) |-> 0]
<1>1. Len(w) \in Nat
  BY LenProperties
<1>2. PartialSums(w, Len(w), f)
  BY <1>1 DEF PartialSums
<1>3. f[Len(w)] = 0
  BY <1>1
<1> QED BY <1>2, <1>3, TotalByPartials

\* One more element at the end.
LEMMA TotalOfAppend ==
  ASSUME NEW w \in Seq(Int), NEW e \in Int
  PROVE  TotalOf(Append(w, e)) = TotalOf(w) + e
<1> DEFINE n == Len(w)
           v == Append(w, e)
<1>1. /\ n \in Nat /\ v \in Seq(Int) /\ Len(v) = n + 1
      /\ \A i \in 1 .. n : v[i] = w[i]
      /\ v[n + 1] = e
  BY LenProperties
<1>2. PICK f : PartialSums(w, n, f) /\ TotalOf(w) = f[n]
  BY TotalPartials
<1> DEFINE g == [i \in 0 .. n + 1 |-> IF i = n + 1 THEN f[n] + e ELSE f[i]]
<1> HIDE DEF n, v
<1>3. \A i \in 0 .. n + 1 : i = n + 1 \/ i \in 0 .. n
  BY <1>1
<1>4. f[n] \in Int /\ \A i \in 0 .. n : f[i] \in Int
  BY <1>1, <1>2 DEF PartialSums
<1>5. g \in [0 .. n + 1 -> Int]
  BY <1>1, <1>3, <1>4
<1>6. g[0] = 0
  BY <1>1, <1>2 DEF PartialSums
<1>7. \A i \in 1 .. n + 1 : g[i] = g[i - 1] + v[i]
  <2> TAKE i \in 1 .. n + 1
  <2>1. g[i - 1] = f[i - 1]
    BY <1>1
  <2>2. CASE i = n + 1
    BY <1>1, <2>1, <2>2
  <2>3. CASE i # n + 1
    <3>1. i \in 1 .. n
      BY <1>1, <2>3
    <3> QED BY <1>1, <1>2, <2>1, <2>3, <3>1 DEF PartialSums
  <2> QED BY <2>2, <2>3
<1>8. g[n + 1] = f[n] + e
  BY <1>1
<1> HIDE DEF g
<1>9. PartialSums(v, Len(v), g)
  BY <1>1, <1>5, <1>6, <1>7 DEF PartialSums
<1>10. TotalOf(v) = g[n + 1]
  BY <1>1, <1>9, TotalByPartials
<1> QED BY <1>2, <1>8, <1>10 DEF v

\* One element fewer.
LEMMA TotalOfRemoval ==
  ASSUME NEW w \in Seq(Int), NEW p \in 1 .. Len(w)
  PROVE  TotalOf(RemoveAt(w, p)) = TotalOf(w) - w[p]
<1> DEFINE n == Len(w)
           v == RemoveAt(w, p)
<1>1. /\ n \in Nat /\ v \in Seq(Int) /\ Len(v) = n - 1 /\ p \in 1 .. n
      /\ \A i \in 1 .. n : w[i] \in Int
      /\ \A i \in 1 .. n - 1 : v[i] = IF i < p THEN w[i] ELSE w[i + 1]
  BY LenProperties, ElementOfSeq, RemoveAtProperties
<1>2. PICK f : PartialSums(w, n, f) /\ TotalOf(w) = f[n]
  BY TotalPartials
<1> HIDE DEF n, v
<1>3. /\ f \in [0 .. n -> Int] /\ f[0] = 0
      /\ \A i \in 1 .. n : f[i] = f[i - 1] + w[i]
  BY <1>2 DEF PartialSums
<1> DEFINE g == [i \in 0 .. n - 1 |-> IF i < p THEN f[i] ELSE f[i + 1] - w[p]]
<1>4. \A i \in 0 .. n - 1 : i \in 0 .. n /\ i + 1 \in 0 .. n
  BY <1>1
<1>5. \A i \in 0 .. n - 1 : g[i] \in Int /\ g[i] = IF i < p THEN f[i] ELSE f[i + 1] - w[p]
  <2> TAKE i \in 0 .. n - 1
  <2>1. g[i] = IF i < p THEN f[i] ELSE f[i + 1] - w[p]
    OBVIOUS
  <2>2. f[i] \in Int /\ f[i + 1] \in Int /\ w[p] \in Int
    BY <1>1, <1>3, <1>4
  <2> HIDE DEF g
  <2> QED BY <2>1, <2>2
<1>6. g \in [0 .. n - 1 -> Int]
  BY <1>5
<1> HIDE DEF g
<1>11. g[0] = 0
  <2>1. 0 \in 0 .. n - 1 /\ 0 < p
    BY <1>1
  <2> QED BY <1>3, <1>5, <2>1
<1>7. \A i \in 1 .. n - 1 : g[i] = g[i - 1] + v[i]
  <2> TAKE i \in 1 .. n - 1
  <2>1. i \in 0 .. n - 1 /\ i - 1 \in 0 .. n - 1 /\ i \in 1 .. n /\ i + 1 \in 1 .. n
        /\ (i + 1) - 1 = i /\ (i - 1) + 1 = i
    BY <1>1
  <2>2. f[i] = f[i - 1] + w[i] /\ f[i + 1] = f[i] + w[i + 1]
        /\ f[i] \in Int /\ f[i - 1] \in Int /\ f[i + 1] \in Int
        /\ w[i] \in Int /\ w[i + 1] \in Int /\ w[p] \in Int
    BY <1>1, <1>3, <1>4, <2>1
  <2>3. CASE i < p
    <3>1. g[i] = f[i] /\ g[i - 1] = f[i - 1] /\ v[i] = w[i]
      BY <1>1, <1>5, <2>1, <2>3
    <3> QED BY <2>2, <3>1
  <2>4. CASE i = p
    <3>1. g[i] = f[i + 1] - w[i] /\ g[i - 1] = f[i - 1] /\ v[i] = w[i + 1]
      BY <1>1, <1>5, <2>1, <2>4
    <3>2. \A x, y, z \in Int : ((x + y) + z) - y = x + z
      OBVIOUS
    <3>3. ((f[i - 1] + w[i]) + w[i + 1]) - w[i] = f[i - 1] + w[i + 1]
      BY <2>2, <3>2
    <3>4. f[i + 1] = (f[i - 1] + w[i]) + w[i + 1]
      BY <2>2
    <3>5. g[i] = ((f[i - 1] + w[i]) + w[i + 1]) - w[i]
      BY <3>1, <3>4
    <3> QED BY <3>1, <3>3, <3>5
  <2>5. CASE i > p
    <3>1. g[i] = f[i + 1] - w[p] /\ g[i - 1] = f[i] - w[p] /\ v[i] = w[i + 1]
      BY <1>1, <1>5, <2>1, <2>5
    <3> QED BY <2>2, <3>1
  <2> QED BY <1>1, <2>3, <2>4, <2>5
<1>8. g[n - 1] = f[n] - w[p]
  <2>1. n - 1 \in 0 .. n - 1 /\ (n - 1) + 1 = n
    BY <1>1
  <2>2. CASE n - 1 < p
    <3>1. p = n /\ n \in 1 .. n
      BY <1>1, <2>2
    <3>2. f[n] = f[n - 1] + w[p] /\ f[n - 1] \in Int /\ w[p] \in Int
      BY <1>1, <1>3, <1>4, <2>1, <3>1
    <3>3. g[n - 1] = f[n - 1]
      BY <1>5, <2>1, <2>2
    <3> QED BY <3>1, <3>2, <3>3
  <2>3. CASE ~(n - 1 < p)
    BY <1>5, <2>1, <2>3
  <2> QED BY <2>2, <2>3
<1>9. PartialSums(v, Len(v), g)
  BY <1>1, <1>6, <1>7, <1>11 DEF PartialSums
<1>10. TotalOf(v) = g[n - 1]
  BY <1>1, <1>9, TotalByPartials
<1> QED BY <1>2, <1>8, <1>10 DEF v

\* One element changed by d.
LEMMA TotalOfChange ==
  ASSUME NEW w \in Seq(Int), NEW v \in Seq(Int), Len(v) = Len(w),
         NEW p \in 1 .. Len(w), NEW d \in Int, v[p] = w[p] + d,
         \A i \in 1 .. Len(w) : i # p => v[i] = w[i]
  PROVE  TotalOf(v) = TotalOf(w) + d
<1> DEFINE n == Len(w)
<1>1. n \in Nat /\ p \in 1 .. n /\ Len(v) = n /\ \A i \in 1 .. n : w[i] \in Int
  BY LenProperties, ElementOfSeq
<1>2. PICK f : PartialSums(w, n, f) /\ TotalOf(w) = f[n]
  BY TotalPartials
<1>3. \A i \in 1 .. n : i # p => v[i] = w[i]
  OBVIOUS
<1> HIDE DEF n
<1>4. /\ f \in [0 .. n -> Int] /\ f[0] = 0
      /\ \A i \in 1 .. n : f[i] = f[i - 1] + w[i]
  BY <1>2 DEF PartialSums
<1> DEFINE g == [i \in 0 .. n |-> IF i < p THEN f[i] ELSE f[i] + d]
<1>9. \A i \in 0 .. n : g[i] \in Int /\ g[i] = IF i < p THEN f[i] ELSE f[i] + d
  <2> TAKE i \in 0 .. n
  <2>1. g[i] = IF i < p THEN f[i] ELSE f[i] + d
    OBVIOUS
  <2>2. f[i] \in Int
    BY <1>4
  <2> HIDE DEF g
  <2> QED BY <2>1, <2>2
<1>5. g \in [0 .. n -> Int] /\ g[0] = 0
  <2>1. g \in [0 .. n -> Int]
    BY <1>9
  <2>2. 0 \in 0 .. n /\ 0 < p
    BY <1>1
  <2> HIDE DEF g
  <2> QED BY <1>4, <1>9, <2>1, <2>2
<1> HIDE DEF g
<1>6. \A i \in 1 .. n : g[i] = g[i - 1] + v[i]
  <2> TAKE i \in 1 .. n
  <2>1. i \in 0 .. n /\ i - 1 \in 0 .. n
    BY <1>1
  <2>2. f[i] = f[i - 1] + w[i] /\ f[i] \in Int /\ f[i - 1] \in Int /\ w[i] \in Int
    BY <1>1, <1>4, <2>1
  <2>3. CASE i < p
    <3>1. g[i] = f[i] /\ g[i - 1] = f[i - 1] /\ v[i] = w[i]
      BY <1>1, <1>3, <1>9, <2>1, <2>3
    <3> QED BY <2>2, <3>1
  <2>4. CASE i = p
    <3>1. g[i] = f[i] + d /\ g[i - 1] = f[i - 1] /\ v[i] = w[i] + d
      BY <1>1, <1>9, <2>1, <2>4
    <3>2. \A x, y \in Int : (x + y) + d = x + (y + d)
      OBVIOUS
    <3>3. (f[i - 1] + w[i]) + d = f[i - 1] + (w[i] + d)
      BY <2>2, <3>2
    <3>4. g[i] = (f[i - 1] + w[i]) + d
      BY <2>2, <3>1
    <3> QED BY <3>1, <3>3, <3>4
  <2>5. CASE i > p
    <3>1. g[i] = f[i] + d /\ g[i - 1] = f[i - 1] + d /\ v[i] = w[i]
      BY <1>1, <1>3, <1>9, <2>1, <2>5
    <3>2. \A x, y \in Int : (x + y) + d = (x + d) + y
      OBVIOUS
    <3>3. (f[i - 1] + w[i]) + d = (f[i - 1] + d) + w[i]
      BY <2>2, <3>2
    <3> QED BY <2>2, <3>1, <3>3
  <2> QED BY <1>1, <2>3, <2>4, <2>5
<1>7. g[n] = f[n] + d
  <2>1. n \in 0 .. n /\ ~(n < p)
    BY <1>1
  <2> QED BY <1>9, <2>1
<1>8. TotalOf(v) = g[n]
  <2>1. PartialSums(v, Len(v), g)
    BY <1>1, <1>5, <1>6 DEF PartialSums
  <2> QED BY <1>1, <2>1, TotalByPartials
<1> QED BY <1>2, <1>7, <1>8

\* Larger elements, larger total.
LEMMA TotalIsMonotone ==
  ASSUME NEW w \in Seq(Int), NEW v \in Seq(Int), Len(v) = Len(w),
         \A i \in 1 .. Len(w) : w[i] <= v[i]
  PROVE  TotalOf(w) <= TotalOf(v)
<1> DEFINE n == Len(w)
<1>1. /\ n \in Nat /\ Len(v) = n
      /\ \A i \in 1 .. n : w[i] \in Int /\ v[i] \in Int /\ w[i] <= v[i]
  BY LenProperties, ElementOfSeq
<1>2. PICK f : PartialSums(w, n, f) /\ TotalOf(w) = f[n]
  BY TotalPartials
<1>3. PICK g : PartialSums(v, n, g) /\ TotalOf(v) = g[n]
  BY <1>1, TotalPartials
<1> HIDE DEF n
<1> DEFINE Bad == {i \in 0 .. n : ~(f[i] <= g[i])}
<1>4. Bad = {}
  <2>1. SUFFICES ASSUME Bad # {} PROVE FALSE
    OBVIOUS
  <2>2. PICK k \in Bad : \A j \in Bad : k <= j
    <3>1. Bad \subseteq Nat
      BY <1>1
    <3> HIDE DEF Bad
    <3> QED BY <2>1, <3>1, LeastNatExists
  <2>3. k \in 0 .. n /\ ~(f[k] <= g[k])
    OBVIOUS
  <2>4. k # 0
    BY <1>1, <1>2, <1>3, <2>3 DEF PartialSums
  <2>5. k \in 1 .. n /\ k - 1 \in 0 .. n /\ ~(k <= k - 1)
    BY <1>1, <2>3, <2>4
  <2>6. f[k - 1] <= g[k - 1]
    BY <2>2, <2>5
  <2>7. /\ f[k] = f[k - 1] + w[k] /\ g[k] = g[k - 1] + v[k]
        /\ f[k - 1] \in Int /\ g[k - 1] \in Int
    BY <1>2, <1>3, <2>5 DEF PartialSums
  <2>8. w[k] \in Int /\ v[k] \in Int /\ w[k] <= v[k]
    BY <1>1, <2>5
  <2> QED BY <2>3, <2>6, <2>7, <2>8
<1>5. n \in 0 .. n
  BY <1>1
<1> QED BY <1>2, <1>3, <1>4, <1>5

\* No element above m, no total above m times their number.
LEMMA TotalAtMost ==
  ASSUME NEW w \in Seq(Int), NEW m \in Nat, \A i \in 1 .. Len(w) : w[i] <= m
  PROVE  TotalOf(w) <= Len(w) * m
<1> DEFINE n == Len(w)
           v == [i \in 1 .. n |-> m]
           f == [i \in 0 .. n |-> i * m]
<1>1. n \in Nat
  BY LenProperties
<1>2. v \in Seq(Int) /\ Len(v) = n
  BY <1>1
<1>3. \A i \in Int : i * m \in Int /\ i * m = (i - 1) * m + m
  OBVIOUS
<1>4. PartialSums(v, n, f)
  <2>1. f \in [0 .. n -> Int]
    BY <1>1, <1>3
  <2>2. f[0] = 0
    BY <1>1
  <2>3. ASSUME NEW i \in 1 .. n PROVE f[i] = f[i - 1] + v[i]
    <3>1. i \in 0 .. n /\ i - 1 \in 0 .. n /\ i \in Int
      BY <1>1
    <3>2. f[i] = i * m /\ f[i - 1] = (i - 1) * m /\ v[i] = m
      BY <3>1
    <3> QED BY <1>3, <3>1, <3>2
  <2> QED BY <2>1, <2>2, <2>3 DEF PartialSums
<1>5. TotalOf(v) = f[n] /\ f[n] = n * m
  <2>1. f[n] = n * m
    BY <1>1
  <2> HIDE DEF f, v
  <2> QED BY <1>2, <1>4, <2>1, TotalByPartials
<1>6. TotalOf(w) <= TotalOf(v)
  <2>1. \A i \in 1 .. Len(w) : w[i] <= v[i]
    OBVIOUS
  <2> HIDE DEF v
  <2> QED BY <1>2, <2>1, TotalIsMonotone
<1> QED BY <1>5, <1>6

\* A total of natural numbers is one, and at least each of them.
LEMMA TotalOfNaturals ==
  ASSUME NEW w \in Seq(Int), \A i \in 1 .. Len(w) : w[i] \in Nat
  PROVE  /\ TotalOf(w) \in Nat
         /\ \A p \in 1 .. Len(w) : w[p] <= TotalOf(w)
<1> DEFINE n == Len(w)
<1>1. n \in Nat /\ \A i \in 1 .. n : w[i] \in Nat
  BY LenProperties
<1> HIDE DEF n
<1>2. ASSUME NEW v \in Seq(Int), Len(v) = n, \A i \in 1 .. n : v[i] \in Nat
      PROVE  TotalOf(v) \in Nat
  <2> DEFINE z == [i \in 1 .. n |-> 0]
  <2>1. z \in Seq(Int) /\ Len(z) = n
    BY <1>1, IsASeq
  <2>2. TotalOf(z) = 0
    BY <2>1, TotalOfZeros
  <2>3. \A i \in 1 .. n : z[i] <= v[i]
    BY <1>2
  <2> HIDE DEF z
  <2>4. 0 <= TotalOf(v)
    BY <1>2, <2>1, <2>2, <2>3, TotalIsMonotone
  <2>5. TotalOf(v) \in Int
    BY TotalIsInt
  <2> QED BY <2>4, <2>5
<1>3. TotalOf(w) \in Nat
  BY <1>1, <1>2 DEF n
<1>4. ASSUME NEW p \in 1 .. n PROVE w[p] <= TotalOf(w)
  <2> DEFINE v == [i \in 1 .. n |-> IF i = p THEN 0 ELSE w[i]]
  <2>1. v \in Seq(Int) /\ Len(v) = n /\ \A i \in 1 .. n : v[i] \in Nat
    <3>1. \A i \in 1 .. n : v[i] \in Nat /\ v[i] \in Int
      BY <1>1
    <3> QED BY <1>1, <3>1, IsASeq
  <2>2. v[p] = 0 /\ \A i \in 1 .. n : i # p => w[i] = v[i]
    OBVIOUS
  <2> HIDE DEF v
  <2>3. w[p] = v[p] + w[p] /\ w[p] \in Int
    BY <1>1, <2>2
  <2>4. TotalOf(w) = TotalOf(v) + w[p]
    BY <1>1, <2>1, <2>2, <2>3, TotalOfChange DEF n
  <2>5. TotalOf(v) \in Nat
    BY <1>2, <2>1
  <2> QED BY <2>3, <2>4, <2>5
<1> QED BY <1>3, <1>4 DEF n

-----------------------------------------------------------------------------
(* Remainders, for the proofs about cursors and slots that wrap around.    *)


\* A number is a multiple of n and its remainder.
LEMMA DivMod ==
  ASSUME NEW n \in Nat \ {0}, NEW a \in Int
  PROVE  \E q \in Int : a = n * q + (a % n) /\ a % n \in 0 .. n - 1
<1>1. a = n * (a \div n) + (a % n) /\ a % n \in 0 .. n - 1 /\ a \div n \in Int
  OBVIOUS
<1> QED BY <1>1

\* There is one remainder.
LEMMA Unique ==
  ASSUME NEW n \in Nat \ {0}, NEW q \in Int, NEW r \in 0 .. n - 1,
         NEW p \in Int, NEW s \in 0 .. n - 1, n * q + r = n * p + s
  PROVE  r = s
<1>1. CASE q >= p + 1
  <2>1. n * q >= n * (p + 1)
     BY <1>1
  <2>2. n * (p + 1) = n * p + n
     OBVIOUS
  <2> QED BY <2>1, <2>2
<1>2. CASE p >= q + 1
  <2>1. n * p >= n * (q + 1)
     BY <1>2
  <2>2. n * (q + 1) = n * q + n
     OBVIOUS
  <2> QED BY <2>1, <2>2
<1> QED BY <1>1, <1>2

\* A number below n is its own remainder.
LEMMA SmallMod ==
  ASSUME NEW n \in Nat \ {0}, NEW a \in 0 .. n - 1
  PROVE  a % n = a
  OBVIOUS

\* Adding a multiple of n changes no remainder.
LEMMA AddMultiple ==
  ASSUME NEW n \in Nat \ {0}, NEW a \in Int, NEW b \in Int, NEW k \in Int,
         b = a + n * k
  PROVE  b % n = a % n
<1>1. PICK q \in Int : a = n * q + (a % n) /\ a % n \in 0 .. n - 1
  BY DivMod
<1>2. PICK p \in Int : b = n * p + (b % n) /\ b % n \in 0 .. n - 1
  BY DivMod
<1>3. n * (q + k) = n * q + n * k
  OBVIOUS
<1>4. q + k \in Int
  OBVIOUS
<1> DEFINE r == a % n
           s == b % n
<1>5. r \in 0 .. n - 1 /\ s \in 0 .. n - 1 /\ n * (q + k) + r = n * p + s
  BY <1>1, <1>2, <1>3
<1> HIDE DEF r, s
<1>6. r = s
  BY <1>4, <1>5, Unique
<1> QED BY <1>6 DEF r, s

\* Remainders may be taken before subtracting.
LEMMA Difference ==
  ASSUME NEW n \in Nat \ {0}, NEW a \in Int, NEW b \in Int, NEW c \in Int
  PROVE  ((a % n) + c - (b % n)) % n = (a + c - b) % n
<1>1. PICK q \in Int : a = n * q + (a % n) /\ a % n \in 0 .. n - 1
  BY DivMod
<1>2. PICK p \in Int : b = n * p + (b % n) /\ b % n \in 0 .. n - 1
  BY DivMod
<1> DEFINE d == (a % n) + c - (b % n)
           e == a + c - b
<1>3. n * (q - p) = n * q - n * p
  OBVIOUS
<1>4. d \in Int /\ e \in Int /\ q - p \in Int /\ e = d + n * (q - p)
  BY <1>1, <1>2, <1>3
<1> HIDE DEF d, e
<1>5. e % n = d % n
  BY <1>4, AddMultiple
<1> QED BY <1>5 DEF d, e

\* Remainders may be taken before adding.
LEMMA ModOfMod ==
  ASSUME NEW n \in Nat \ {0}, NEW a \in Int, NEW b \in Int
  PROVE  ((a % n) + b) % n = (a + b) % n
<1>1. PICK q \in Int : a = n * q + (a % n) /\ a % n \in 0 .. n - 1
  BY DivMod
<1> DEFINE d == (a % n) + b
           e == a + b
<1>4. d \in Int /\ e \in Int /\ e = d + n * q
  BY <1>1
<1> HIDE DEF d, e
<1>5. e % n = d % n
  BY <1>4, AddMultiple
<1> QED BY <1>5 DEF d, e

\* Remainders may be taken by a multiple of m first.
LEMMA NestedMod ==
  ASSUME NEW m \in Nat \ {0}, NEW n \in Nat \ {0}, n % m = 0,
         NEW a \in Int, NEW b \in Int
  PROVE  ((a % n) + b) % m = (a + b) % m
<1>1. PICK q \in Int : a = n * q + (a % n) /\ a % n \in 0 .. n - 1
  BY DivMod
<1>2. PICK p \in Int : n = m * p
  <2>1. n \in Int
    OBVIOUS
  <2>2. PICK p \in Int : n = m * p + (n % m) /\ n % m \in 0 .. m - 1
    BY <2>1, DivMod
  <2> QED BY <2>2
<1>3. n * q = (m * p) * q /\ (m * p) * q = m * (p * q) /\ p * q \in Int
  BY <1>2
<1> DEFINE d == (a % n) + b
           e == a + b
           k == p * q
<1>4. d \in Int /\ e \in Int /\ k \in Int /\ e = d + m * k
  <2>1. e = d + n * q /\ d \in Int /\ e \in Int
    BY <1>1
  <2>2. k \in Int /\ n * q = m * k
    BY <1>3
  <2> QED BY <2>1, <2>2
<1> HIDE DEF d, e, k
<1>5. e % m = d % m
  BY <1>4, AddMultiple
<1> QED BY <1>5 DEF d, e

\* Two numbers closer than n with the same remainder are equal.
LEMMA SameSlot ==
  ASSUME NEW n \in Nat \ {0}, NEW a \in Int, NEW b \in Int,
         a % n = b % n, a - b < n, b - a < n
  PROVE  a = b
<1>1. PICK q \in Int : a = n * q + (a % n) /\ a % n \in 0 .. n - 1
  BY DivMod
<1>2. PICK p \in Int : b = n * p + (b % n) /\ b % n \in 0 .. n - 1
  BY DivMod
<1>3. n * (q - p) = n * q - n * p
  OBVIOUS
<1>4. a - b = n * (q - p)
  BY <1>1, <1>2, <1>3
<1>5. CASE q - p >= 1
  <2>1. n * (q - p) >= n
    BY <1>5
  <2> QED BY <1>4, <2>1
<1>6. CASE p - q >= 1
  <2>1. n * (p - q) >= n
    BY <1>6
  <2>2. n * (p - q) = 0 - n * (q - p)
    OBVIOUS
  <2> QED BY <1>4, <2>1, <2>2
<1> QED BY <1>3, <1>4, <1>5, <1>6

\* The multiple of m after m itself is 2 m.
LEMMA NextMultiple ==
  ASSUME NEW m \in Nat \ {0}, NEW n \in Nat \ {0}, n % m = 0, n > m
  PROVE  n >= 2 * m
<1>1. n \in Int
  OBVIOUS
<1>2. PICK p \in Int : n = m * p + (n % m) /\ n % m \in 0 .. m - 1
  BY <1>1, DivMod
<1>3. n = m * p
  BY <1>2
<1>4. CASE p <= 1
  <2>1. m * p <= m * 1
    BY <1>4
  <2> QED BY <1>3, <2>1
<1>5. CASE p >= 2
  <2>1. m * p >= m * 2
    BY <1>5
  <2> QED BY <1>3, <2>1
<1> QED BY <1>4, <1>5

-----------------------------------------------------------------------------
(* Lists one after the other.                                              *)

\* g lists what the first 1 .. n lists of ss make, one after the other.
PartialJoins(S, ss, n, g) ==
  /\ g \in [1 .. n -> Seq(S)]
  /\ \A i \in 1 .. n : g[i] = IF i = 1 THEN ss[i] ELSE g[i - 1] \o ss[i]

\* There are such lists.
LEMMA PartialJoinsExist ==
  ASSUME NEW S, NEW ss \in Seq(Seq(S))
  PROVE  \E g : PartialJoins(S, ss, Len(ss), g)
<1> DEFINE Bad == {n \in 0 .. Len(ss) : ~\E g : PartialJoins(S, ss, n, g)}
<1>1. Len(ss) \in Nat /\ \A i \in 1 .. Len(ss) : ss[i] \in Seq(S)
  BY LenProperties, ElementOfSeq
<1>2. SUFFICES ASSUME Bad # {} PROVE FALSE
  <2>1. Len(ss) \in 0 .. Len(ss)
    BY <1>1
  <2> QED BY <2>1
<1>3. PICK n \in Bad : \A m \in Bad : n <= m
  <2>1. Bad \subseteq Nat
    BY <1>1
  <2> HIDE DEF Bad
  <2> QED BY <1>2, <2>1, LeastNatExists
<1>4. n \in 0 .. Len(ss) /\ n \in Nat /\ ~\E g : PartialJoins(S, ss, n, g)
  BY <1>1
<1>5. n # 0
  <2>1. PartialJoins(S, ss, 0, [i \in 1 .. 0 |-> <<>>])
    BY DEF PartialJoins
  <2> QED BY <1>4, <2>1
<1>6. PICK f : PartialJoins(S, ss, n - 1, f)
  <2>1. n - 1 \in 0 .. Len(ss) /\ ~(n <= n - 1)
    BY <1>1, <1>4, <1>5
  <2> QED BY <1>3, <2>1
<1> DEFINE last == IF n = 1 THEN ss[n] ELSE f[n - 1] \o ss[n]
           g    == [i \in 1 .. n |-> IF i = n THEN last ELSE f[i]]
<1>7. /\ n \in 1 .. Len(ss) /\ n \in 1 .. n
      /\ \A i \in 1 .. n : i # n => i \in 1 .. n - 1
      /\ \A i \in 1 .. n : i # 1 => i - 1 \in 1 .. n - 1 /\ i - 1 # n /\ i - 1 \in 1 .. n
  BY <1>1, <1>4, <1>5
<1>8. f \in [1 .. n - 1 -> Seq(S)]
      /\ \A i \in 1 .. n - 1 : f[i] = IF i = 1 THEN ss[i] ELSE f[i - 1] \o ss[i]
  BY <1>6 DEF PartialJoins
<1>9. last \in Seq(S)
  <2>1. CASE n = 1
    BY <1>1, <1>7, <2>1
  <2>2. CASE n # 1
    <3>1. f[n - 1] \in Seq(S) /\ ss[n] \in Seq(S)
      BY <1>1, <1>7, <1>8, <2>2
    <3> QED BY <2>2, <3>1, ConcatProperties
  <2> QED BY <2>1, <2>2
<1>10. \A i \in 1 .. n : g[i] = IF i = 1 THEN ss[i] ELSE g[i - 1] \o ss[i]
  <2> TAKE i \in 1 .. n
  <2>1. i # 1 => g[i - 1] = f[i - 1]
    BY <1>7
  <2>2. CASE i = n
    BY <2>1, <2>2
  <2>3. CASE i # n
    BY <1>7, <1>8, <2>1, <2>3
  <2> QED BY <2>2, <2>3
<1>11. g \in [1 .. n -> Seq(S)]
  BY <1>7, <1>8, <1>9
<1> HIDE DEF g, last
<1>12. PartialJoins(S, ss, n, g)
  BY <1>10, <1>11 DEF PartialJoins
<1> QED BY <1>4, <1>12

\* What FlattenSeq makes is the last of them.
LEMMA FlattenByPartials ==
  ASSUME NEW S, NEW ss \in Seq(Seq(S)), NEW g, PartialJoins(S, ss, Len(ss), g), Len(ss) # 0
  PROVE  FlattenSeq(ss) = g[Len(ss)]
<1> DEFINE n == Len(ss)
           Solves(h) == h = [i \in 1 .. n |-> IF i = 1 THEN ss[i] ELSE h[i - 1] \o ss[i]]
           flatten == CHOOSE h : Solves(h)
<1>1. n \in Nat /\ n # 0
  BY LenProperties
<1>2. /\ g \in [1 .. n -> Seq(S)]
      /\ \A i \in 1 .. n : g[i] = IF i = 1 THEN ss[i] ELSE g[i - 1] \o ss[i]
  BY DEF PartialJoins
<1>3. FlattenSeq(ss) = flatten[n]
  BY <1>1 DEF FlattenSeq
<1> HIDE DEF n
<1>4. Solves(g)
  BY <1>2
<1>5. Solves(flatten)
  <2> HIDE DEF Solves
  <2> QED BY <1>4
<1> HIDE DEF flatten
<1>6. \A i \in 1 .. n : flatten[i] = IF i = 1 THEN ss[i] ELSE flatten[i - 1] \o ss[i]
  BY <1>5
<1>7. \A i \in 1 .. n : flatten[i] = g[i]
  <2> DEFINE Bad == {i \in 1 .. n : flatten[i] # g[i]}
  <2>1. SUFFICES ASSUME Bad # {} PROVE FALSE
    OBVIOUS
  <2>2. PICK k \in Bad : \A j \in Bad : k <= j
    <3>1. Bad \subseteq Nat
      BY <1>1
    <3> HIDE DEF Bad
    <3> QED BY <2>1, <3>1, LeastNatExists
  <2>3. k \in 1 .. n /\ flatten[k] # g[k]
    OBVIOUS
  <2>4. CASE k = 1
    BY <1>2, <1>6, <2>3, <2>4
  <2>5. CASE k # 1
    <3>1. k - 1 \in 1 .. n /\ ~(k <= k - 1)
      BY <1>1, <2>3, <2>5
    <3>2. flatten[k - 1] = g[k - 1]
      BY <2>2, <3>1
    <3>3. flatten[k] = flatten[k - 1] \o ss[k] /\ g[k] = g[k - 1] \o ss[k]
      BY <1>2, <1>6, <2>3, <2>5
    <3> QED BY <2>3, <3>2, <3>3
  <2> QED BY <2>4, <2>5
<1> QED BY <1>1, <1>3, <1>7 DEF n

\* One more list at the end.
LEMMA FlattenAppend ==
  ASSUME NEW S, NEW ss \in Seq(Seq(S)), NEW s \in Seq(S)
  PROVE  /\ FlattenSeq(ss) \in Seq(S)
         /\ FlattenSeq(Append(ss, s)) = FlattenSeq(ss) \o s
<1> DEFINE n == Len(ss)
           tt == Append(ss, s)
<1>1. /\ n \in Nat /\ tt \in Seq(Seq(S)) /\ Len(tt) = n + 1
      /\ \A i \in 1 .. n : tt[i] = ss[i] /\ tt[n + 1] = s
      /\ tt[n + 1] = s
  BY LenProperties, AppendProperties
<1>2. PICK g : PartialJoins(S, ss, n, g)
  BY PartialJoinsExist
<1>3. PICK h : PartialJoins(S, tt, n + 1, h)
  BY <1>1, PartialJoinsExist
<1> HIDE DEF tt
<1>4. FlattenSeq(tt) = h[n + 1]
  BY <1>1, <1>3, FlattenByPartials
<1>5. CASE n = 0
  <2>1. ss = <<>>
    BY <1>5, EmptySeq
  <2>2. FlattenSeq(ss) = <<>>
    BY <1>5, <2>1 DEF FlattenSeq
  <2>3. h[1] = s
    BY <1>1, <1>3, <1>5 DEF PartialJoins
  <2> QED BY <1>4, <1>5, <2>2, <2>3, ConcatEmptySeq DEF tt
<1>6. CASE n # 0
  <2>1. FlattenSeq(ss) = g[n]
    BY <1>2, <1>6, FlattenByPartials
  <2>2. g[n] \in Seq(S) /\ n \in 1 .. n
    <3>1. n \in 1 .. n
      BY <1>1, <1>6
    <3> QED BY <1>2, <3>1 DEF PartialJoins
  <2>3. PartialJoins(S, ss, n, [i \in 1 .. n |-> h[i]])
    <3>1. \A i \in 1 .. n : i \in 1 .. n + 1 /\ (i # 1 => i - 1 \in 1 .. n)
      BY <1>1
    <3>2. \A i \in 1 .. n : h[i] \in Seq(S) /\ h[i] = IF i = 1 THEN ss[i] ELSE h[i - 1] \o ss[i]
      BY <1>1, <1>3, <3>1 DEF PartialJoins
    <3> QED BY <3>1, <3>2 DEF PartialJoins
  <2>4. FlattenSeq(ss) = [i \in 1 .. n |-> h[i]][n]
    BY <2>3, <1>6, FlattenByPartials
  <2>5. FlattenSeq(ss) = h[n]
    BY <2>2, <2>4
  <2>6. n + 1 \in 1 .. n + 1 /\ n + 1 # 1 /\ (n + 1) - 1 = n
    BY <1>1, <1>6
  <2>7. h[n + 1] = h[n] \o s
    BY <1>1, <1>3, <2>6 DEF PartialJoins
  <2> QED BY <1>4, <2>1, <2>2, <2>5, <2>7 DEF tt
<1> QED BY <1>5, <1>6

\* One list of numbers after the other.
LEMMA TotalOfConcat ==
  ASSUME NEW w \in Seq(Int), NEW v \in Seq(Int)
  PROVE  TotalOf(w \o v) = TotalOf(w) + TotalOf(v)
<1> DEFINE n == Len(w)
           m == Len(v)
           u == w \o v
<1>1. /\ n \in Nat /\ m \in Nat /\ u \in Seq(Int) /\ Len(u) = n + m
      /\ \A i \in 1 .. n + m : u[i] = IF i <= n THEN w[i] ELSE v[i - n]
      /\ \A i \in 1 .. n : w[i] \in Int
  BY LenProperties, ConcatProperties, ElementOfSeq
<1>2. PICK f : PartialSums(w, n, f) /\ TotalOf(w) = f[n]
  BY TotalPartials
<1>3. PICK g : PartialSums(v, m, g) /\ TotalOf(v) = g[m]
  BY TotalPartials
<1> HIDE DEF n, m, u
<1> DEFINE h == [i \in 0 .. n + m |-> IF i <= n THEN f[i] ELSE f[n] + g[i - n]]
<1>4. /\ f \in [0 .. n -> Int] /\ f[0] = 0 /\ \A i \in 1 .. n : f[i] = f[i - 1] + w[i]
      /\ g \in [0 .. m -> Int] /\ g[0] = 0 /\ \A i \in 1 .. m : g[i] = g[i - 1] + v[i]
  BY <1>2, <1>3 DEF PartialSums
<1>5. n \in 0 .. n /\ f[n] \in Int /\ \A i \in 0 .. m : g[i] \in Int
  BY <1>1, <1>4
<1>6. h \in [0 .. n + m -> Int]
  <2>1. \A i \in 0 .. n + m : IF i <= n THEN i \in 0 .. n ELSE i - n \in 0 .. m
    BY <1>1
  <2> QED BY <1>4, <1>5, <2>1
<1>7. h[0] = 0
  BY <1>1, <1>4
<1>8. ASSUME NEW i \in 1 .. n + m PROVE h[i] = h[i - 1] + u[i]
  <2>1. i \in 0 .. n + m /\ i - 1 \in 0 .. n + m
    BY <1>1
  <2>2. CASE i <= n
    <3>1. i \in 1 .. n /\ i - 1 <= n
      BY <1>1, <2>2
    <3> QED BY <1>1, <1>4, <2>1, <2>2, <3>1
  <2>3. CASE ~(i <= n)
    <3>1. i - n \in 1 .. m /\ (i - 1) - n = (i - n) - 1
      BY <1>1, <2>3
    <3>2. g[i - n] = g[(i - 1) - n] + v[i - n] /\ u[i] = v[i - n]
      BY <1>1, <1>4, <2>3, <3>1
    <3>3. (i - 1) - n \in 0 .. m /\ g[(i - 1) - n] \in Int /\ v[i - n] \in Int
      <4>1. (i - 1) - n \in 0 .. m
        BY <1>1, <3>1
      <4>2. \A k \in 1 .. Len(v) : v[k] \in Int
        BY ElementOfSeq
      <4> QED BY <1>5, <3>1, <4>1, <4>2 DEF m
    <3>4. h[i - 1] = f[n] + g[(i - 1) - n]
      <4>1. CASE i - 1 = n
        <5>1. (i - 1) - n = 0
          BY <1>1, <4>1
        <5> QED BY <1>4, <1>5, <2>1, <4>1, <5>1
      <4>2. CASE i - 1 # n
        <5>1. ~(i - 1 <= n)
          BY <1>1, <2>3, <4>2
        <5> QED BY <2>1, <5>1
      <4> QED BY <4>1, <4>2
    <3>5. h[i] = f[n] + g[i - n]
      BY <2>1, <2>3
    <3> QED BY <1>5, <3>2, <3>3, <3>4, <3>5
  <2> QED BY <2>2, <2>3
<1>9. h[n + m] = f[n] + g[m]
  <2>1. n + m \in 0 .. n + m /\ (n + m <= n => m = 0) /\ (n + m) - n = m
    BY <1>1
  <2> QED BY <1>1, <1>4, <1>5, <2>1
<1> HIDE DEF h
<1>10. PartialSums(u, Len(u), h)
  BY <1>1, <1>6, <1>7, <1>8 DEF PartialSums
<1>11. TotalOf(u) = h[n + m]
  BY <1>1, <1>10, TotalByPartials
<1> QED BY <1>2, <1>3, <1>9, <1>11 DEF u

\* h lists start and what the first N steps make of it.
Iterates(S, start, step, N, h) ==
  h \in [0 .. N -> S] /\ h[0] = start /\ \A b \in 1 .. N : h[b] = step[h[b - 1]]

\* There is such a list.
LEMMA IterationFromZero ==
  ASSUME NEW S, NEW start \in S, NEW step \in [S -> S], NEW N \in Nat
  PROVE  \E h : Iterates(S, start, step, N, h)
<1>1. PICK f \in [1 .. N + 1 -> S] : f[1] = start /\ \A k \in 1 .. N : f[k + 1] = step[f[k]]
  BY IterationExists
<1> DEFINE h == [b \in 0 .. N |-> f[b + 1]]
<1>2. \A b \in 0 .. N : b + 1 \in 1 .. N + 1
  OBVIOUS
<1>3. h \in [0 .. N -> S]
  BY <1>2
<1>4. h[0] = start
  BY <1>1
<1>5. ASSUME NEW b \in 1 .. N PROVE h[b] = step[h[b - 1]]
  <2>1. b \in 0 .. N /\ b - 1 \in 0 .. N /\ (b - 1) + 1 = b
    OBVIOUS
  <2> QED BY <1>1, <2>1
<1> HIDE DEF h
<1> QED BY <1>3, <1>4, <1>5 DEF Iterates

\* f repeats the step, as far as it stays in S.
Repeats(S, start, step, N, f) ==
  f[0] = start /\ \A b \in 1 .. N : f[b - 1] \in S => f[b] = step[f[b - 1]]

\* There is one such list.
LEMMA IterationUnique ==
  ASSUME NEW S, NEW start, NEW step, NEW N \in Nat, NEW h, Iterates(S, start, step, N, h),
         NEW f, Repeats(S, start, step, N, f)
  PROVE  \A b \in 0 .. N : f[b] = h[b]
<1>1. /\ h \in [0 .. N -> S] /\ h[0] = start /\ \A b \in 1 .. N : h[b] = step[h[b - 1]]
  BY DEF Iterates
<1>2. f[0] = start /\ \A b \in 1 .. N : f[b - 1] \in S => f[b] = step[f[b - 1]]
  BY DEF Repeats
<1> DEFINE Bad == {b \in 0 .. N : f[b] # h[b]}
<1>3. SUFFICES ASSUME Bad # {} PROVE FALSE
  OBVIOUS
<1>4. PICK b \in Bad : \A c \in Bad : b <= c
  <2>1. Bad \subseteq Nat
    OBVIOUS
  <2> HIDE DEF Bad
  <2> QED BY <1>3, <2>1, LeastNatExists
<1>5. b \in 0 .. N /\ f[b] # h[b] /\ b # 0
  BY <1>1, <1>2
<1>6. b \in 1 .. N /\ b - 1 \in 0 .. N /\ ~(b <= b - 1)
  BY <1>5
<1>7. f[b - 1] = h[b - 1] /\ h[b - 1] \in S
  BY <1>1, <1>4, <1>6
<1> QED BY <1>1, <1>5, <1>6, <1>7, <1>2

=============================================================================

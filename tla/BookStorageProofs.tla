--------------------------- MODULE BookStorageProofs ---------------------------
(***************************************************************************)
(* The links in the slots and the bits in the words are the queues and the *)
(* set that OrderBook works on, for any number of slots and levels and any *)
(* width of a word.                                                        *)
(*                                                                         *)
(* The queues are the witness of the invariant: there is a queue of slots  *)
(* per level, and one of free slots, without a slot in common, which every *)
(* field of the memory is a function of (Shape).  A call changes the       *)
(* queues at one end or at one place, and few links with them.             *)
(***************************************************************************)
EXTENDS BookStorage, OperatorLemmas

\* The slot at place i of a queue; beyond its ends there is none.
At(sq, i) == IF i \in 1 .. Len(sq) THEN sq[i] ELSE nullptr

\* `link` leads from `start` through the slots of the queue sq and ends there.
Linked(sq, start, link) ==
  /\ start = At(sq, 1)
  /\ \A i \in 1 .. Len(sq) : link[sq[i]] = At(sq, i + 1)

-----------------------------------------------------------------------------
(* Chains.                                                                 *)

\* Following the links finds the queue.
LEMMA ChainOfQueue ==
  ASSUME NEW sq \in Seq(Slots), Len(sq) <= NumSlots, NEW start, NEW link,
         Linked(sq, start, link)
  PROVE  Chain(start, link) = sq
<1> DEFINE n == Len(sq)
           N == NumSlots
           f == [k \in 0 .. N |-> At(sq, k + 1)]
           Solves(h) == h = [k \in 0 .. N |->
                               IF k = 0 THEN start
                               ELSE IF h[k - 1] = nullptr THEN nullptr ELSE link[h[k - 1]]]
           hop == CHOOSE h : Solves(h)
<1>1. n \in Nat /\ N \in Nat /\ n <= N /\ DOMAIN sq = 1 .. n
  BY StorageAssumption, LenProperties
<1>2. \A i \in 1 .. n : sq[i] \in Slots /\ sq[i] # nullptr
  <2>1. \A i \in 1 .. n : sq[i] \in Slots
    BY ElementOfSeq
  <2> QED BY <2>1, <1>1 DEF Slots, nullptr
<1>3. \A i : At(sq, i) = IF i \in 1 .. n THEN sq[i] ELSE nullptr
  BY DEF At
<1>4. \A i \in 1 .. n : link[sq[i]] = At(sq, i + 1)
  BY DEF Linked
<1>5. start = At(sq, 1)
  BY DEF Linked
<1> HIDE DEF n, N
<1>6. \A k \in 0 .. N :
        f[k] = IF k = 0 THEN start
               ELSE IF f[k - 1] = nullptr THEN nullptr ELSE link[f[k - 1]]
  <2> TAKE k \in 0 .. N
  <2>1. CASE k = 0
    BY <2>1, <1>1, <1>5
  <2>2. CASE k # 0
    <3>1. k - 1 \in 0 .. N /\ (k - 1) + 1 = k /\ k \in Nat /\ k >= 1
      BY <1>1, <2>2
    <3>2. f[k] = At(sq, k + 1) /\ f[k - 1] = At(sq, k)
      BY <3>1
    <3>3. CASE k \in 1 .. n
      BY <1>2, <1>3, <1>4, <2>2, <3>2, <3>3
    <3>4. CASE k \notin 1 .. n
      <4>1. k + 1 \notin 1 .. n
        BY <1>1, <3>1, <3>4
      <4> QED BY <1>3, <2>2, <3>2, <3>4, <4>1
    <3> QED BY <3>3, <3>4
  <2> QED BY <2>1, <2>2
<1>7. Solves(f)
  BY <1>6
<1>8. Solves(hop)
  <2> HIDE DEF Solves, f
  <2> QED BY <1>7
<1> HIDE DEF hop
<1>9. \A k \in 0 .. N :
        hop[k] = IF k = 0 THEN start
                 ELSE IF hop[k - 1] = nullptr THEN nullptr ELSE link[hop[k - 1]]
  BY <1>8
<1>10. \A k \in 0 .. N : hop[k] = f[k]
  <2> DEFINE Bad == {k \in 0 .. N : hop[k] # f[k]}
  <2>1. SUFFICES ASSUME Bad # {} PROVE FALSE
    OBVIOUS
  <2>2. PICK k \in Bad : \A j \in Bad : k <= j
    <3>1. Bad \subseteq Nat
      BY <1>1
    <3> HIDE DEF Bad
    <3> QED BY <2>1, <3>1, LeastNatExists
  <2>3. k \in 0 .. N /\ hop[k] # f[k]
    OBVIOUS
  <2> HIDE DEF f
  <2>4. CASE k = 0
    BY <1>6, <1>9, <2>3, <2>4
  <2>5. CASE k # 0
    <3>1. k - 1 \in 0 .. N /\ ~(k <= k - 1)
      BY <1>1, <2>3, <2>5
    <3>2. hop[k - 1] = f[k - 1]
      BY <2>2, <3>1
    <3> QED BY <1>6, <1>9, <2>3, <2>5, <3>2
  <2> QED BY <2>4, <2>5
<1>11. {k \in 0 .. N : hop[k] # nullptr} = 0 .. n - 1
  <2>1. \A k \in 0 .. N : hop[k] = At(sq, k + 1)
    BY <1>10
  <2>2. \A k \in 0 .. N : k \in 0 .. n - 1 <=> k + 1 \in 1 .. n
    BY <1>1
  <2>3. 0 .. n - 1 \subseteq 0 .. N
    BY <1>1
  <2>4. \A k \in 0 .. N : hop[k] # nullptr <=> k + 1 \in 1 .. n
    BY <1>2, <1>3, <2>1
  <2> QED BY <2>2, <2>3, <2>4
<1>12. Cardinality(0 .. n - 1) = n
  BY <1>1, FS_Interval
<1>13. Chain(start, link) = [i \in 1 .. n |-> hop[i - 1]]
  BY <1>11, <1>12 DEF Chain, hop, N
<1>14. \A i \in 1 .. n : hop[i - 1] = sq[i]
  <2> TAKE i \in 1 .. n
  <2>1. i - 1 \in 0 .. N /\ (i - 1) + 1 = i
    BY <1>1
  <2> QED BY <1>3, <1>10, <2>1
<1> QED BY <1>1, <1>13, <1>14

-----------------------------------------------------------------------------
(* The bitmap: index i is bit i % WordBits of word i \div WordBits.        *)

\* Each index has one place.
LEMMA PlaceOfIndex ==
  ASSUME NEW i \in Nat
  PROVE  /\ i \div WordBits \in Nat /\ i % WordBits \in Bits
         /\ i = (i \div WordBits) * WordBits + (i % WordBits)
BY StorageAssumption DEF Bits

\* ... and places are ordered as the indices are, words first.
LEMMA PlaceOrder ==
  ASSUME NEW v \in Int, NEW w \in Int, v < w, NEW b \in Bits, NEW c \in Bits
  PROVE  v * WordBits + b < w * WordBits + c
<1>1. WordBits \in Nat \ {0} /\ b \in Int /\ c \in Int /\ b < WordBits /\ 0 <= c
  BY StorageAssumption DEF Bits
<1>2. PICK d \in Nat : w = v + 1 + d
  <2>1. w - v - 1 \in Nat /\ w = v + 1 + (w - v - 1)
    OBVIOUS
  <2> QED BY <2>1
<1>3. PICK x \in Int : x = v * WordBits
  BY <1>1
<1>4. PICK y \in Nat : y = d * WordBits
  BY <1>1
<1>5. w * WordBits = x + WordBits + y
  BY <1>1, <1>2, <1>3, <1>4
<1> QED BY <1>1, <1>3, <1>5

\* One place per index, once more.
LEMMA PlaceIsUnique ==
  ASSUME NEW v \in Int, NEW w \in Int, NEW b \in Bits, NEW c \in Bits,
         v * WordBits + b = w * WordBits + c
  PROVE  v = w /\ b = c
<1>1. WordBits \in Nat \ {0} /\ b \in Int /\ c \in Int
  BY StorageAssumption DEF Bits
<1>2. ~(v < w)
  <2>1. v < w => v * WordBits + b < w * WordBits + c
    BY PlaceOrder
  <2>2. PICK x \in Int : x = v * WordBits
    BY <1>1
  <2>3. PICK y \in Int : y = w * WordBits
    BY <1>1
  <2> QED BY <1>1, <2>1, <2>2, <2>3
<1>3. ~(w < v)
  <2>1. w < v => w * WordBits + c < v * WordBits + b
    BY PlaceOrder
  <2>2. PICK x \in Int : x = v * WordBits
    BY <1>1
  <2>3. PICK y \in Int : y = w * WordBits
    BY <1>1
  <2> QED BY <1>1, <2>1, <2>2, <2>3
<1>4. v = w
  BY <1>2, <1>3
<1>5. PICK x \in Int : x = v * WordBits
  BY <1>1
<1> QED BY <1>1, <1>4, <1>5

\* The bitmap has a word for each level.
LEMMA LevelHasWord ==
  ASSUME NEW l \in Levels
  PROVE  l \in Nat /\ l \div WordBits \in 0 .. NumWords - 1 /\ NumWords \in Nat
<1>1. WordBits \in Nat \ {0} /\ NumLevels \in Nat \ {0} /\ l \in Nat /\ l < NumLevels
  BY StorageAssumption DEF Levels
<1>2. PICK m \in Nat : m = NumLevels + WordBits - 1
  BY <1>1
<1>3. NumWords = m \div WordBits
  BY <1>2 DEF NumWords
<1>4. /\ NumWords \in Nat /\ m % WordBits \in Bits
      /\ m = NumWords * WordBits + (m % WordBits)
  BY <1>3, PlaceOfIndex
<1>5. PICK r \in Bits : r = m % WordBits
  BY <1>4
<1>6. PICK w \in Nat : w = l \div WordBits
  BY <1>1, PlaceOfIndex
<1>7. PICK b \in Bits : b = l % WordBits
  BY <1>1, PlaceOfIndex
<1>8. l = w * WordBits + b
  BY <1>1, <1>6, <1>7, PlaceOfIndex
<1>9. ~(w >= NumWords)
  <2>1. SUFFICES ASSUME w >= NumWords PROVE FALSE
    OBVIOUS
  <2>2. PICK x \in Int : x = w * WordBits
    BY <1>1
  <2>3. PICK y \in Int : y = NumWords * WordBits
    BY <1>1, <1>4
  <2>4. x >= y
    <3>1. PICK d \in Nat : w = NumWords + d
      <4>1. w - NumWords \in Nat /\ w = NumWords + (w - NumWords)
        BY <1>4, <2>1
      <4> QED BY <4>1
    <3>2. PICK z \in Nat : z = d * WordBits
      BY <1>1
    <3>3. w * WordBits = y + z
      BY <1>1, <1>4, <2>3, <3>1, <3>2
    <3> QED BY <2>2, <3>3
  <2>5. r \in Int /\ b \in Int /\ r < WordBits /\ 0 <= b
    BY <1>1 DEF Bits
  <2>6. m = y + r /\ l = x + b
    BY <1>4, <1>5, <1>8, <2>2, <2>3
  <2> QED BY <1>1, <1>2, <2>4, <2>5, <2>6
<1> QED BY <1>1, <1>4, <1>6, <1>9

WordsTypeOK == words \in [0 .. NumWords - 1 -> SUBSET Bits]

\* Membership in the set of levels, place by place.
LEMMA SetLevelsByPlace ==
  ASSUME WordsTypeOK
  PROVE  /\ \A w \in 0 .. NumWords - 1, b \in Bits :
              w * WordBits + b \in SetLevels <=> b \in words[w]
         /\ \A i \in SetLevels : \E w \in 0 .. NumWords - 1 : \E b \in words[w] :
              b \in Bits /\ i = w * WordBits + b
<1>1. \A w \in 0 .. NumWords - 1 : words[w] \subseteq Bits
  BY DEF WordsTypeOK
<1>2. DOMAIN words = 0 .. NumWords - 1
  BY DEF WordsTypeOK
<1>3. \A i \in SetLevels : \E w \in 0 .. NumWords - 1 : \E b \in words[w] :
        b \in Bits /\ i = w * WordBits + b
  BY <1>1, <1>2 DEF SetLevels
<1>4. ASSUME NEW w \in 0 .. NumWords - 1, NEW b \in words[w]
      PROVE  w * WordBits + b \in SetLevels
  BY <1>2 DEF SetLevels
<1>5. ASSUME NEW w \in 0 .. NumWords - 1, NEW b \in Bits, w * WordBits + b \in SetLevels
      PROVE  b \in words[w]
  <2>1. PICK v \in 0 .. NumWords - 1, c \in Bits :
          c \in words[v] /\ w * WordBits + b = v * WordBits + c
    BY <1>3, <1>5
  <2>2. w = v /\ b = c
    BY <2>1, PlaceIsUnique
  <2> QED BY <2>1, <2>2
<1> QED BY <1>3, <1>4, <1>5

\* set() adds the bit of a level and clear() takes it out, and no other.
LEMMA BitChanges ==
  ASSUME WordsTypeOK, NEW l \in Levels
  PROVE  /\ SetBit(l)   => WordsTypeOK' /\ SetLevels' = SetLevels \cup {l}
         /\ ClearBit(l) => WordsTypeOK' /\ SetLevels' = SetLevels \ {l}
<1>1. PICK lw \in 0 .. NumWords - 1 : lw = l \div WordBits
  BY LevelHasWord
<1>2. PICK lb \in Bits : lb = l % WordBits
  BY LevelHasWord, PlaceOfIndex
<1>3. l = lw * WordBits + lb
  BY <1>1, <1>2, LevelHasWord, PlaceOfIndex
<1>4. \A w \in 0 .. NumWords - 1, b \in Bits :
        w * WordBits + b = l => w = lw /\ b = lb
  <2> TAKE w \in 0 .. NumWords - 1, b \in Bits
  <2> QED BY <1>3, PlaceIsUnique
<1>5. /\ \A w \in 0 .. NumWords - 1, b \in Bits :
           w * WordBits + b \in SetLevels <=> b \in words[w]
      /\ \A i \in SetLevels : \E w \in 0 .. NumWords - 1 : \E b \in words[w] :
           b \in Bits /\ i = w * WordBits + b
  BY SetLevelsByPlace
<1>6. ASSUME WordsTypeOK'
      PROVE  /\ \A w \in 0 .. NumWords - 1, b \in Bits :
                  w * WordBits + b \in SetLevels' <=> b \in words'[w]
             /\ \A i \in SetLevels' : \E w \in 0 .. NumWords - 1 : \E b \in words'[w] :
                  b \in Bits /\ i = w * WordBits + b
  <2>1. DOMAIN words' = 0 .. NumWords - 1 /\ \A w \in 0 .. NumWords - 1 : words'[w] \subseteq Bits
    BY <1>6 DEF WordsTypeOK
  <2>2. SetLevels' = UNION {{w * WordBits + b : b \in words'[w]} : w \in DOMAIN words'}
    BY DEF SetLevels
  <2>3. \A i \in SetLevels' : \E w \in 0 .. NumWords - 1 : \E b \in words'[w] :
          b \in Bits /\ i = w * WordBits + b
    BY <2>1, <2>2
  <2>4. ASSUME NEW w \in 0 .. NumWords - 1, NEW b \in words'[w]
        PROVE  w * WordBits + b \in SetLevels'
    BY <2>1, <2>2
  <2>5. ASSUME NEW w \in 0 .. NumWords - 1, NEW b \in Bits, w * WordBits + b \in SetLevels'
        PROVE  b \in words'[w]
    <3>1. PICK v \in 0 .. NumWords - 1, c \in Bits :
            c \in words'[v] /\ w * WordBits + b = v * WordBits + c
      BY <2>3, <2>5
    <3>2. w = v /\ b = c
      BY <3>1, PlaceIsUnique
    <3> QED BY <3>1, <3>2
  <2> QED BY <2>3, <2>4, <2>5
<1>7. ASSUME SetBit(l)
      PROVE  WordsTypeOK' /\ SetLevels' = SetLevels \cup {l}
  <2>1. words' = [words EXCEPT ![lw] = words[lw] \cup {lb}]
    BY <1>1, <1>2, <1>7 DEF SetBit
  <2>2. WordsTypeOK' /\ \A w \in 0 .. NumWords - 1, b \in Bits :
          b \in words'[w] <=> b \in words[w] \/ (w = lw /\ b = lb)
    BY <2>1 DEF WordsTypeOK
  <2>3. \A i \in SetLevels' : i \in SetLevels \cup {l}
    <3> TAKE i \in SetLevels'
    <3>1. PICK w \in 0 .. NumWords - 1, b \in Bits :
            b \in words'[w] /\ i = w * WordBits + b
      BY <1>6, <2>2
    <3> QED BY <1>3, <1>5, <2>2, <3>1
  <2>4. \A i \in SetLevels \cup {l} : i \in SetLevels'
    <3> TAKE i \in SetLevels \cup {l}
    <3>1. CASE i = l
      BY <1>3, <1>6, <2>2, <3>1
    <3>2. CASE i \in SetLevels
      <4>1. PICK w \in 0 .. NumWords - 1, b \in Bits :
              b \in words[w] /\ i = w * WordBits + b
        BY <1>5, <3>2
      <4> QED BY <1>6, <2>2, <4>1
    <3> QED BY <3>1, <3>2
  <2> QED BY <2>2, <2>3, <2>4
<1>8. ASSUME ClearBit(l)
      PROVE  WordsTypeOK' /\ SetLevels' = SetLevels \ {l}
  <2>1. words' = [words EXCEPT ![lw] = words[lw] \ {lb}]
    BY <1>1, <1>2, <1>8 DEF ClearBit
  <2>2. WordsTypeOK' /\ \A w \in 0 .. NumWords - 1, b \in Bits :
          b \in words'[w] <=> b \in words[w] /\ ~(w = lw /\ b = lb)
    BY <2>1 DEF WordsTypeOK
  <2>3. \A i \in SetLevels' : i \in SetLevels \ {l}
    <3> TAKE i \in SetLevels'
    <3>1. PICK w \in 0 .. NumWords - 1, b \in Bits :
            b \in words'[w] /\ i = w * WordBits + b
      BY <1>6, <2>2
    <3> QED BY <1>4, <1>5, <2>2, <3>1
  <2>4. \A i \in SetLevels \ {l} : i \in SetLevels'
    <3> TAKE i \in SetLevels \ {l}
    <3>1. PICK w \in 0 .. NumWords - 1, b \in Bits :
            b \in words[w] /\ i = w * WordBits + b
      BY <1>5
    <3>2. ~(w = lw /\ b = lb)
      BY <1>3, <3>1
    <3> QED BY <1>6, <2>2, <3>1, <3>2
  <2> QED BY <2>2, <2>3, <2>4
<1> QED BY <1>7, <1>8

\* The least and the greatest element of a set of numbers.
LEMMA ExtremeElements ==
  ASSUME NEW T, T \subseteq Int, NEW x \in T
  PROVE  /\ (\A y \in T : x <= y) => Min(T) = x
         /\ (\A y \in T : y <= x) => Max(T) = x
<1>1. ASSUME \A y \in T : x <= y PROVE Min(T) = x
  <2>1. Min(T) \in T /\ \A y \in T : Min(T) <= y
    BY <1>1 DEF Min
  <2>2. Min(T) <= x /\ x <= Min(T) /\ x \in Int /\ Min(T) \in Int
    BY <1>1, <2>1
  <2> QED BY <2>2
<1>2. ASSUME \A y \in T : y <= x PROVE Max(T) = x
  <2>1. Max(T) \in T /\ \A y \in T : y <= Max(T)
    BY <1>2 DEF Max
  <2>2. Max(T) <= x /\ x <= Max(T) /\ x \in Int /\ Max(T) \in Int
    BY <1>2, <2>1
  <2> QED BY <2>2
<1> QED BY <1>1, <1>2

\* The extremes of a set of bits.
LEMMA ExtremeBits ==
  ASSUME NEW T, T \subseteq Bits, T # {}
  PROVE  /\ Min(T) \in T /\ \A y \in T : Min(T) <= y
         /\ Max(T) \in T /\ \A y \in T : y <= Max(T)
<1>1. WordBits - 1 \in Nat
  BY StorageAssumption
<1> QED BY <1>1, MinMaxProperties DEF Bits

\* The extremes of a set of words.
LEMMA ExtremeWords ==
  ASSUME NEW T, T \subseteq 0 .. NumWords - 1, T # {}
  PROVE  /\ Min(T) \in T /\ \A y \in T : Min(T) <= y
         /\ Max(T) \in T /\ \A y \in T : y <= Max(T)
<1>1. 0 \in Levels
  BY StorageAssumption DEF Levels
<1>2. NumWords - 1 \in Nat
  <2>1. NumWords \in Nat /\ 0 .. NumWords - 1 # {}
    BY <1>1, LevelHasWord
  <2> QED BY <2>1
<1> QED BY <1>2, MinMaxProperties

\* find_next_set returns the nearest set bit from an index on.
LEMMA NextSetIsNearest ==
  ASSUME WordsTypeOK, NEW from \in Nat
  PROVE  LET above == {i \in SetLevels : i >= from}
         IN  FindNextSet(from) = IF above = {} THEN kNotFound ELSE Min(above)
<1> DEFINE above == {i \in SetLevels : i >= from}
<1>1. PICK w \in Nat : w = from \div WordBits
  BY PlaceOfIndex
<1>2. PICK c \in Bits : c = from % WordBits
  BY PlaceOfIndex
<1>3. from = w * WordBits + c
  BY <1>1, <1>2, PlaceOfIndex
<1> DEFINE first == {b \in words[w] : b >= c}
           later == {v \in w + 1 .. NumWords - 1 : words[v] # {}}
<1>4. FindNextSet(from) = IF w >= NumWords THEN kNotFound
                          ELSE IF first # {} THEN w * WordBits + Min(first)
                          ELSE IF later # {} THEN Min(later) * WordBits + Min(words[Min(later)])
                          ELSE kNotFound
  BY <1>1, <1>2 DEF FindNextSet
<1>5. /\ \A v \in 0 .. NumWords - 1, b \in Bits :
           v * WordBits + b \in SetLevels <=> b \in words[v]
      /\ \A i \in SetLevels : \E v \in 0 .. NumWords - 1 : \E b \in words[v] :
           b \in Bits /\ i = v * WordBits + b
  BY SetLevelsByPlace
<1>6. \A v \in 0 .. NumWords - 1 : words[v] \subseteq Bits
  BY DEF WordsTypeOK
<1>7. NumWords \in Nat /\ WordBits \in Nat \ {0} /\ Bits \subseteq Nat
  <2>1. 0 \in Levels
    BY StorageAssumption DEF Levels
  <2> QED BY <2>1, LevelHasWord, StorageAssumption DEF Bits
<1>8. \A v \in Int, b \in Bits : v * WordBits + b \in Int
  BY <1>7
\* What lies above, place by place.
<1>9. \A v \in 0 .. NumWords - 1, b \in Bits :
        v * WordBits + b >= from <=> v > w \/ (v = w /\ b >= c)
  <2> TAKE v \in 0 .. NumWords - 1, b \in Bits
  <2>0. v \in Int /\ b \in Int /\ c \in Int /\ from \in Int
    BY <1>7
  <2>1. CASE v > w
    <3>1. w * WordBits + c < v * WordBits + b
      BY <2>0, <2>1, PlaceOrder
    <3> QED BY <1>3, <1>8, <2>0, <2>1, <3>1
  <2>2. CASE v < w
    <3>1. v * WordBits + b < w * WordBits + c
      BY <2>0, <2>2, PlaceOrder
    <3> QED BY <1>3, <1>8, <2>0, <2>2, <3>1
  <2>3. CASE v = w
    <3>1. PICK x \in Int : x = w * WordBits
      BY <1>7
    <3> QED BY <1>3, <2>0, <2>3, <3>1
  <2> QED BY <2>0, <2>1, <2>2, <2>3
<1>10. above \subseteq Int
  BY <1>5, <1>8
<1>11. \A i \in above : \E v \in 0 .. NumWords - 1 : \E b \in words[v] :
         b \in Bits /\ i = v * WordBits + b /\ (v > w \/ (v = w /\ b >= c))
  BY <1>5, <1>9
<1>12. \A v \in 0 .. NumWords - 1 : \A b \in words[v] :
         v > w \/ (v = w /\ b >= c) => v * WordBits + b \in above
  BY <1>5, <1>6, <1>9
<1> HIDE DEF above
<1>13. CASE w >= NumWords
  <2>1. above = {}
    BY <1>7, <1>11, <1>13
  <2> QED BY <1>4, <1>13, <2>1 DEF above
<1>14. CASE ~(w >= NumWords) /\ first # {}
  <2>1. w \in 0 .. NumWords - 1
    BY <1>7, <1>14
  <2>2. first \subseteq Bits
    BY <1>6, <2>1
  <2>3. PICK m : m = Min(first)
    OBVIOUS
  <2>4. m \in first /\ \A y \in first : m <= y
    BY <1>14, <2>2, <2>3, ExtremeBits
  <2>5. w * WordBits + m \in above
    BY <1>12, <2>1, <2>4
  <2>6. \A i \in above : w * WordBits + m <= i
    <3> TAKE i \in above
    <3>1. PICK v \in 0 .. NumWords - 1, b \in Bits :
            b \in words[v] /\ i = v * WordBits + b /\ (v > w \/ (v = w /\ b >= c))
      BY <1>11
    <3>2. m \in Bits /\ m \in Int /\ b \in Int
      <4> HIDE DEF first
      <4>1. m \in Bits
        BY <2>2, <2>4
      <4> QED BY <1>7, <4>1
    <3>3. CASE v > w
      <4>1. w * WordBits + m < v * WordBits + b
        BY <3>2, <3>3, PlaceOrder
      <4> QED BY <1>8, <3>1, <3>2, <4>1
    <3>4. CASE v = w /\ b >= c
      <4>1. m <= b
        BY <2>4, <3>1, <3>4
      <4>2. PICK x \in Int : x = w * WordBits
        BY <1>7
      <4> QED BY <3>1, <3>2, <3>4, <4>1, <4>2
    <3> QED BY <3>1, <3>3, <3>4
  <2>7. Min(above) = w * WordBits + m
    BY <1>10, <2>5, <2>6, ExtremeElements
  <2>8. FindNextSet(from) = w * WordBits + m
    BY <1>4, <1>14, <2>3
  <2> QED BY <2>5, <2>7, <2>8 DEF above
<1>15. CASE ~(w >= NumWords) /\ first = {} /\ later # {}
  <2>1. later \subseteq 0 .. NumWords - 1
    BY <1>7
  <2>2. PICK u : u = Min(later)
    OBVIOUS
  <2>3. u \in later /\ \A y \in later : u <= y
    BY <1>15, <2>1, <2>2, ExtremeWords
  <2>4. u \in 0 .. NumWords - 1 /\ u > w /\ words[u] # {} /\ u \in Int
    BY <1>7, <2>3
  <2>5. PICK m : m = Min(words[u])
    OBVIOUS
  <2>6. m \in words[u] /\ m \in Bits /\ \A y \in words[u] : m <= y
    BY <1>6, <2>4, <2>5, ExtremeBits
  <2>7. u * WordBits + m \in above
    BY <1>12, <2>4, <2>6
  <2>8. \A i \in above : u * WordBits + m <= i
    <3> TAKE i \in above
    <3>1. PICK v \in 0 .. NumWords - 1, b \in Bits :
            b \in words[v] /\ i = v * WordBits + b /\ (v > w \/ (v = w /\ b >= c))
      BY <1>11
    <3>2. m \in Int /\ b \in Int /\ v \in Int
      BY <1>7, <2>6
    <3>3. v > w
      BY <1>15, <3>1
    <3>4. v \in later
      BY <1>7, <3>1, <3>3
    <3>5. CASE u < v
      <4>1. u * WordBits + m < v * WordBits + b
        BY <2>4, <2>6, <3>2, <3>5, PlaceOrder
      <4> QED BY <1>8, <2>4, <2>6, <3>1, <3>2, <4>1
    <3>6. CASE u = v
      <4>1. m <= b
        BY <2>6, <3>1, <3>6
      <4>2. PICK x \in Int : x = u * WordBits
        BY <1>7, <2>4
      <4> QED BY <3>1, <3>2, <3>6, <4>1, <4>2
    <3>7. u <= v
      BY <2>3, <3>4
    <3> QED BY <2>4, <3>2, <3>5, <3>6, <3>7
  <2>9. Min(above) = u * WordBits + m
    BY <1>10, <2>7, <2>8, ExtremeElements
  <2>10. FindNextSet(from) = u * WordBits + m
    BY <1>4, <1>15, <2>2, <2>5
  <2> QED BY <2>7, <2>9, <2>10 DEF above
<1>16. CASE ~(w >= NumWords) /\ first = {} /\ later = {}
  <2>1. above = {}
    <3> SUFFICES ASSUME NEW i \in above PROVE FALSE
      OBVIOUS
    <3>1. PICK v \in 0 .. NumWords - 1, b \in Bits :
            b \in words[v] /\ i = v * WordBits + b /\ (v > w \/ (v = w /\ b >= c))
      BY <1>11
    <3>2. v > w
      BY <1>16, <3>1
    <3>3. v \in later
      BY <1>7, <3>1, <3>2
    <3> QED BY <1>16, <3>3
  <2> QED BY <1>4, <1>16, <2>1 DEF above
<1> QED BY <1>13, <1>14, <1>15, <1>16

\* find_prev_set returns the nearest set bit up to an index, beyond the last
\* word too.
LEMMA PrevSetIsNearest ==
  ASSUME WordsTypeOK, NEW from \in Nat
  PROVE  LET below == {i \in SetLevels : i <= from}
         IN  FindPrevSet(from) = IF below = {} THEN kNotFound ELSE Max(below)
<1> DEFINE below == {i \in SetLevels : i <= from}
<1>1. PICK w \in Nat : w = from \div WordBits
  BY PlaceOfIndex
<1>2. PICK c \in Bits : c = from % WordBits
  BY PlaceOfIndex
<1>3. from = w * WordBits + c
  BY <1>1, <1>2, PlaceOfIndex
<1>4. NumWords \in Nat /\ WordBits \in Nat \ {0} /\ Bits \subseteq Nat
  <2>1. 0 \in Levels
    BY StorageAssumption DEF Levels
  <2> QED BY <2>1, LevelHasWord, StorageAssumption DEF Bits
<1>5. \A v \in 0 .. NumWords - 1 : words[v] \subseteq Bits
  BY DEF WordsTypeOK
<1> DEFINE first == {b \in Bits : w < NumWords /\ b \in words[w] /\ b <= c}
           earlier == {v \in 0 .. NumWords - 1 : v < w /\ words[v] # {}}
<1>6. (IF w >= NumWords THEN {} ELSE words[w] \cap UpTo(c)) = first
  <2>1. UpTo(c) = {b \in Bits : b <= c}
    BY <1>4 DEF UpTo, Bits
  <2>2. CASE w >= NumWords
    BY <1>4, <2>2
  <2>3. CASE ~(w >= NumWords)
    <3>1. w < NumWords
      BY <1>4, <2>3
    <3> QED BY <2>1, <2>3, <3>1
  <2> QED BY <2>2, <2>3
<1>7. FindPrevSet(from) = IF first # {} THEN w * WordBits + Max(first)
                          ELSE IF earlier # {}
                          THEN Max(earlier) * WordBits + Max(words[Max(earlier)])
                          ELSE kNotFound
  BY <1>1, <1>2, <1>6 DEF FindPrevSet
<1>8. /\ \A v \in 0 .. NumWords - 1, b \in Bits :
           v * WordBits + b \in SetLevels <=> b \in words[v]
      /\ \A i \in SetLevels : \E v \in 0 .. NumWords - 1 : \E b \in words[v] :
           b \in Bits /\ i = v * WordBits + b
  BY SetLevelsByPlace
<1>9. \A v \in Int, b \in Bits : v * WordBits + b \in Int
  BY <1>4
\* What lies below, place by place.
<1>10. \A v \in 0 .. NumWords - 1, b \in Bits :
         v * WordBits + b <= from <=> v < w \/ (v = w /\ b <= c)
  <2> TAKE v \in 0 .. NumWords - 1, b \in Bits
  <2>0. v \in Int /\ b \in Int /\ c \in Int /\ from \in Int
    BY <1>4
  <2>1. CASE v > w
    <3>1. w * WordBits + c < v * WordBits + b
      BY <2>0, <2>1, PlaceOrder
    <3> QED BY <1>3, <1>9, <2>0, <2>1, <3>1
  <2>2. CASE v < w
    <3>1. v * WordBits + b < w * WordBits + c
      BY <2>0, <2>2, PlaceOrder
    <3> QED BY <1>3, <1>9, <2>0, <2>2, <3>1
  <2>3. CASE v = w
    <3>1. PICK x \in Int : x = w * WordBits
      BY <1>4
    <3> QED BY <1>3, <2>0, <2>3, <3>1
  <2> QED BY <2>0, <2>1, <2>2, <2>3
<1>11. below \subseteq Int
  BY <1>8, <1>9
<1>12. \A i \in below : \E v \in 0 .. NumWords - 1 : \E b \in words[v] :
         b \in Bits /\ i = v * WordBits + b /\ (v < w \/ (v = w /\ b <= c))
  BY <1>8, <1>10
<1>13. \A v \in 0 .. NumWords - 1 : \A b \in words[v] :
         v < w \/ (v = w /\ b <= c) => v * WordBits + b \in below
  BY <1>5, <1>8, <1>10
<1> HIDE DEF below
<1>14. CASE first # {}
  <2>1. first \subseteq Bits /\ w \in 0 .. NumWords - 1
    BY <1>4, <1>14
  <2>2. PICK m : m = Max(first)
    OBVIOUS
  <2>3. m \in first /\ \A y \in first : y <= m
    <3> HIDE DEF first
    <3> QED BY <1>14, <2>1, <2>2, ExtremeBits
  <2>4. m \in Bits /\ m \in words[w] /\ m <= c /\ m \in Int
    <3>1. m \in Bits /\ m \in words[w] /\ m <= c
      BY <2>3
    <3> QED BY <1>4, <3>1
  <2>5. w * WordBits + m \in below
    BY <1>13, <2>1, <2>4
  <2>6. \A i \in below : i <= w * WordBits + m
    <3> TAKE i \in below
    <3>1. PICK v \in 0 .. NumWords - 1, b \in Bits :
            b \in words[v] /\ i = v * WordBits + b /\ (v < w \/ (v = w /\ b <= c))
      BY <1>12
    <3>2. b \in Int
      BY <1>4
    <3>3. CASE v < w
      <4>1. v * WordBits + b < w * WordBits + m
        BY <2>4, <3>3, PlaceOrder
      <4> QED BY <1>9, <2>4, <3>1, <4>1
    <3>4. CASE v = w /\ b <= c
      <4>1. b <= m
        BY <2>1, <2>3, <3>1, <3>4
      <4>2. PICK x \in Int : x = w * WordBits
        BY <1>4
      <4> QED BY <2>4, <3>1, <3>2, <3>4, <4>1, <4>2
    <3> QED BY <3>1, <3>3, <3>4
  <2>7. Max(below) = w * WordBits + m
    BY <1>11, <2>5, <2>6, ExtremeElements
  <2>8. FindPrevSet(from) = w * WordBits + m
    BY <1>7, <1>14, <2>2
  <2> QED BY <2>5, <2>7, <2>8 DEF below
<1>15. CASE first = {} /\ earlier # {}
  <2>1. earlier \subseteq 0 .. NumWords - 1
    OBVIOUS
  <2>2. PICK u : u = Max(earlier)
    OBVIOUS
  <2>3. u \in earlier /\ \A y \in earlier : y <= u
    <3> HIDE DEF earlier
    <3> QED BY <1>15, <2>1, <2>2, ExtremeWords
  <2>4. u \in 0 .. NumWords - 1 /\ u < w /\ words[u] # {} /\ u \in Int
    BY <1>4, <2>3
  <2>5. PICK m : m = Max(words[u])
    OBVIOUS
  <2>6. m \in words[u] /\ m \in Bits /\ \A y \in words[u] : y <= m
    BY <1>5, <2>4, <2>5, ExtremeBits
  <2>7. u * WordBits + m \in below
    BY <1>13, <2>4, <2>6
  <2>8. \A i \in below : i <= u * WordBits + m
    <3> TAKE i \in below
    <3>1. PICK v \in 0 .. NumWords - 1, b \in Bits :
            b \in words[v] /\ i = v * WordBits + b /\ (v < w \/ (v = w /\ b <= c))
      BY <1>12
    <3>2. m \in Int /\ b \in Int /\ v \in Int
      BY <1>4, <2>6
    <3>3. v < w
      <4>1. ~(v = w /\ b <= c)
        BY <1>4, <1>15, <3>1
      <4> QED BY <3>1, <4>1
    <3>4. v \in earlier
      BY <3>1, <3>3
    <3>5. CASE v < u
      <4>1. v * WordBits + b < u * WordBits + m
        BY <2>4, <2>6, <3>2, <3>5, PlaceOrder
      <4> QED BY <1>9, <2>4, <2>6, <3>1, <3>2, <4>1
    <3>6. CASE u = v
      <4>1. b <= m
        BY <2>6, <3>1, <3>6
      <4>2. PICK x \in Int : x = u * WordBits
        BY <1>4, <2>4
      <4> QED BY <3>1, <3>2, <3>6, <4>1, <4>2
    <3>7. v <= u
      BY <2>3, <3>4
    <3> QED BY <2>4, <3>2, <3>5, <3>6, <3>7
  <2>9. Max(below) = u * WordBits + m
    BY <1>11, <2>7, <2>8, ExtremeElements
  <2>10. FindPrevSet(from) = u * WordBits + m
    BY <1>7, <1>15, <2>2, <2>5
  <2> QED BY <2>7, <2>9, <2>10 DEF below
<1>16. CASE first = {} /\ earlier = {}
  <2>1. below = {}
    <3> SUFFICES ASSUME NEW i \in below PROVE FALSE
      OBVIOUS
    <3>1. PICK v \in 0 .. NumWords - 1, b \in Bits :
            b \in words[v] /\ i = v * WordBits + b /\ (v < w \/ (v = w /\ b <= c))
      BY <1>12
    <3>2. v < w
      <4>1. ~(v = w /\ b <= c)
        BY <1>4, <1>16, <3>1
      <4> QED BY <3>1, <4>1
    <3>3. v \in earlier
      BY <3>1, <3>2
    <3> QED BY <1>16, <3>3
  <2> QED BY <1>7, <1>16, <2>1 DEF below
<1> QED BY <1>14, <1>15, <1>16

-----------------------------------------------------------------------------
(* The links.                                                              *)

Cells == [prev: Slots \cup {nullptr}, next: Slots \cup {nullptr}]

\* The null pointer is no slot.
LEMMA NullIsNoSlot == nullptr \notin Slots
BY StorageAssumption DEF nullptr, Slots

\* Places of a queue that grows at its end, ...
LEMMA AtAppend ==
  ASSUME NEW sq \in Seq(Slots), NEW e \in Slots, NEW i \in Int
  PROVE  At(Append(sq, e), i) = IF i = Len(sq) + 1 THEN e ELSE At(sq, i)
<1> DEFINE n == Len(sq)
           r == Append(sq, e)
<1>1. n \in Nat /\ Len(r) = n + 1 /\ r[n + 1] = e /\ \A j \in 1 .. n : r[j] = sq[j]
  BY AppendProperties, LenProperties
<1>2. At(r, i) = IF i \in 1 .. n + 1 THEN r[i] ELSE nullptr
  BY <1>1 DEF At
<1>3. At(sq, i) = IF i \in 1 .. n THEN sq[i] ELSE nullptr
  BY DEF At
<1> HIDE DEF n, r
<1>4. At(r, i) = IF i = n + 1 THEN e ELSE At(sq, i)
  BY <1>1, <1>2, <1>3
<1> QED BY <1>4 DEF n, r

\* ... of one that loses its first element, ...
LEMMA AtTail ==
  ASSUME NEW sq \in Seq(Slots), sq # <<>>, NEW i \in Nat \ {0}
  PROVE  At(Tail(sq), i) = At(sq, i + 1)
<1> DEFINE n == Len(sq)
           r == Tail(sq)
<1>1. n \in Nat /\ Len(r) = n - 1 /\ \A j \in 1 .. n - 1 : r[j] = sq[j + 1]
  BY HeadTailProperties, LenProperties
<1>2. At(r, i) = IF i \in 1 .. n - 1 THEN r[i] ELSE nullptr
  BY <1>1 DEF At
<1>3. At(sq, i + 1) = IF i + 1 \in 1 .. n THEN sq[i + 1] ELSE nullptr
  BY DEF At
<1> HIDE DEF n, r
<1>4. At(r, i) = At(sq, i + 1)
  BY <1>1, <1>2, <1>3
<1> QED BY <1>4 DEF n, r

\* ... of one that gets a new first element, ...
LEMMA AtFront ==
  ASSUME NEW sq \in Seq(Slots), NEW e \in Slots, NEW i \in Nat \ {0}
  PROVE  /\ At(<<e>> \o sq, i) = IF i = 1 THEN e ELSE At(sq, i - 1)
         /\ Len(<<e>> \o sq) = Len(sq) + 1
<1> DEFINE n == Len(sq)
           r == <<e>> \o sq
<1>1. <<e>> \in Seq(Slots) /\ Len(<<e>>) = 1 /\ <<e>>[1] = e
  OBVIOUS
<1>2. n \in Nat /\ Len(r) = 1 + n
      /\ \A j \in 1 .. 1 + n : r[j] = IF j <= 1 THEN <<e>>[j] ELSE sq[j - 1]
  BY <1>1, ConcatProperties, LenProperties
<1>3. At(r, i) = IF i \in 1 .. 1 + n THEN r[i] ELSE nullptr
  BY <1>2 DEF At
<1>4. At(sq, i - 1) = IF i - 1 \in 1 .. n THEN sq[i - 1] ELSE nullptr
  BY DEF At
<1> HIDE DEF n, r
<1>5. Len(r) = n + 1
  BY <1>2
<1>6. i = 1 => At(r, i) = e
  BY <1>1, <1>2, <1>3
<1>7. i # 1 => At(r, i) = At(sq, i - 1)
  BY <1>2, <1>3, <1>4
<1> QED BY <1>5, <1>6, <1>7 DEF n, r

\* ... and of one that loses the element at p.
LEMMA AtRemoval ==
  ASSUME NEW sq \in Seq(Slots), NEW p \in 1 .. Len(sq), NEW i \in Nat
  PROVE  At(RemoveAt(sq, p), i) = IF i < p THEN At(sq, i) ELSE At(sq, i + 1)
<1> DEFINE n == Len(sq)
           r == RemoveAt(sq, p)
<1>1. n \in Nat /\ Len(r) = n - 1 /\ p \in 1 .. n
      /\ \A j \in 1 .. n - 1 : r[j] = IF j < p THEN sq[j] ELSE sq[j + 1]
  BY RemoveAtProperties, LenProperties
<1>2. At(r, i) = IF i \in 1 .. n - 1 THEN r[i] ELSE nullptr
  BY <1>1 DEF At
<1>3. /\ At(sq, i) = IF i \in 1 .. n THEN sq[i] ELSE nullptr
      /\ At(sq, i + 1) = IF i + 1 \in 1 .. n THEN sq[i + 1] ELSE nullptr
  BY DEF At
<1> HIDE DEF n, r
<1>4. At(r, i) = IF i < p THEN At(sq, i) ELSE At(sq, i + 1)
  BY <1>1, <1>2, <1>3
<1> QED BY <1>4 DEF n, r

\* new is mem with one link of the slot s changed to v.
NextSet(new, mem, s, v) ==
  /\ new = [mem EXCEPT ![s].next = v] /\ new \in [Slots -> Cells]
  /\ new[s].next = v /\ new[s].prev = mem[s].prev
  /\ \A x \in Slots \ {s} : new[x] = mem[x]
PrevSet(new, mem, s, v) ==
  /\ new = [mem EXCEPT ![s].prev = v] /\ new \in [Slots -> Cells]
  /\ new[s].prev = v /\ new[s].next = mem[s].next
  /\ \A x \in Slots \ {s} : new[x] = mem[x]

\* Changing one link of a slot.
LEMMA LinkChanges ==
  ASSUME NEW mem \in [Slots -> Cells], NEW s \in Slots, NEW v \in Slots \cup {nullptr}
  PROVE  /\ \E new : NextSet(new, mem, s, v)
         /\ \E new : PrevSet(new, mem, s, v)
<1>1. PICK c \in Cells : c = mem[s]
  OBVIOUS
<1>2. PICK d \in Cells : d = [c EXCEPT !.next = v] /\ d.next = v /\ d.prev = c.prev
  <2>1. /\ [c EXCEPT !.next = v] \in Cells
        /\ [c EXCEPT !.next = v].next = v /\ [c EXCEPT !.next = v].prev = c.prev
    BY DEF Cells
  <2> QED BY <2>1
<1>3. PICK e \in Cells : e = [c EXCEPT !.prev = v] /\ e.prev = v /\ e.next = c.next
  <2>1. /\ [c EXCEPT !.prev = v] \in Cells
        /\ [c EXCEPT !.prev = v].prev = v /\ [c EXCEPT !.prev = v].next = c.next
    BY DEF Cells
  <2> QED BY <2>1
<1>4. PICK newd : newd = [mem EXCEPT ![s] = d]
  OBVIOUS
<1>5. PICK newe : newe = [mem EXCEPT ![s] = e]
  OBVIOUS
<1>6. newd = [mem EXCEPT ![s].next = v] /\ newe = [mem EXCEPT ![s].prev = v]
  BY <1>1, <1>2, <1>3, <1>4, <1>5
<1>7. /\ newd \in [Slots -> Cells] /\ newd[s] = d
      /\ \A x \in Slots \ {s} : newd[x] = mem[x]
  BY <1>4
<1>8. /\ newe \in [Slots -> Cells] /\ newe[s] = e
      /\ \A x \in Slots \ {s} : newe[x] = mem[x]
  BY <1>5
<1>9. newd[s].next = v /\ newd[s].prev = mem[s].prev
  BY <1>1, <1>2, <1>7
<1>10. newe[s].prev = v /\ newe[s].next = mem[s].next
  BY <1>1, <1>3, <1>8
<1> QED BY <1>6, <1>7, <1>8, <1>9, <1>10 DEF NextSet, PrevSet

\* What push_back writes.
LEMMA PushBackWrites ==
  ASSUME cells \in [Slots -> Cells], NEW s \in Slots, NEW l \in Levels,
         tails[l] \in Slots \cup {nullptr}, tails[l] # s,
         NEW mem, mem = PushBack(cells, s, l)
  PROVE  /\ mem \in [Slots -> Cells]
         /\ mem[s].prev = tails[l] /\ mem[s].next = nullptr
         /\ \A x \in Slots \ {s} :
              /\ mem[x].prev = cells[x].prev
              /\ mem[x].next = IF x = tails[l] THEN s ELSE cells[x].next
<1>1. PICK t \in Slots \cup {nullptr} : t = tails[l] /\ t # s
  OBVIOUS
<1>2. PICK linked : linked = [cells EXCEPT ![s] = [prev |-> t, next |-> nullptr]]
  OBVIOUS
<1>3. mem = IF t = nullptr THEN linked ELSE [linked EXCEPT ![t].next = s]
  BY <1>1, <1>2 DEF PushBack
<1>4. /\ linked \in [Slots -> Cells]
      /\ linked[s] = [prev |-> t, next |-> nullptr]
      /\ \A x \in Slots \ {s} : linked[x] = cells[x]
  BY <1>2 DEF Cells
<1>5. CASE t = nullptr
  BY <1>1, <1>3, <1>4, <1>5, NullIsNoSlot
<1>6. CASE t # nullptr
  <2>1. t \in Slots
    BY <1>6
  <2>2. PICK new : NextSet(new, linked, t, s)
    BY <1>4, <2>1, LinkChanges
  <2>3. mem = new /\ new \in [Slots -> Cells]
    BY <1>3, <1>6, <2>2 DEF NextSet
  <2>4. new[s].prev = t /\ new[s].next = nullptr
    BY <1>1, <1>4, <2>2 DEF NextSet
  <2>5. ASSUME NEW x \in Slots \ {s}
        PROVE  new[x].prev = cells[x].prev /\ new[x].next = IF x = t THEN s ELSE cells[x].next
    BY <1>4, <2>1, <2>2 DEF NextSet
  <2> QED BY <1>1, <2>3, <2>4, <2>5
<1> QED BY <1>5, <1>6

\* What unlink and deallocate write.
LEMMA RemovalWrites ==
  ASSUME cells \in [Slots -> Cells], NEW s \in Slots,
         NEW p, p = cells[s].prev, p # s, NEW n, n = cells[s].next, n # s,
         freeHead \in Slots \cup {nullptr},
         NEW mem, mem = CellsWithout(s)
  PROVE  /\ mem \in [Slots -> Cells]
         /\ mem[s].prev = freeHead
         /\ \A x \in Slots \ {s} :
              /\ mem[x].next = IF x = p THEN n ELSE cells[x].next
              /\ mem[x].prev = IF x = n THEN p ELSE cells[x].prev
<1>1. p \in Slots \cup {nullptr} /\ n \in Slots \cup {nullptr}
  BY DEF Cells
<1>2. PICK m1 : m1 = IF p = nullptr THEN cells ELSE [cells EXCEPT ![p].next = n]
  OBVIOUS
<1>3. PICK m2 : m2 = IF n = nullptr THEN m1 ELSE [m1 EXCEPT ![n].prev = p]
  OBVIOUS
<1>4. mem = [m2 EXCEPT ![s].prev = freeHead]
  BY <1>2, <1>3 DEF CellsWithout, Relinked, Unlink
<1>5. /\ m1 \in [Slots -> Cells]
      /\ \A x \in Slots : /\ m1[x].next = IF x = p THEN n ELSE cells[x].next
                          /\ m1[x].prev = cells[x].prev
  <2>1. CASE p = nullptr
    BY <1>2, <2>1, NullIsNoSlot
  <2>2. CASE p # nullptr
    <3>1. PICK new : NextSet(new, cells, p, n)
      <4>1. p \in Slots
        BY <1>1, <2>2
      <4> QED BY <1>1, <4>1, LinkChanges
    <3>2. m1 = new
      BY <1>2, <2>2, <3>1 DEF NextSet
    <3> QED BY <3>1, <3>2 DEF NextSet
  <2> QED BY <2>1, <2>2
<1>6. /\ m2 \in [Slots -> Cells]
      /\ \A x \in Slots : /\ m2[x].next = m1[x].next
                          /\ m2[x].prev = IF x = n THEN p ELSE m1[x].prev
  <2>1. CASE n = nullptr
    BY <1>3, <1>5, <2>1, NullIsNoSlot
  <2>2. CASE n # nullptr
    <3>1. PICK new : PrevSet(new, m1, n, p)
      <4>1. n \in Slots
        BY <1>1, <2>2
      <4> QED BY <1>1, <1>5, <4>1, LinkChanges
    <3>2. m2 = new
      BY <1>3, <2>2, <3>1 DEF PrevSet
    <3> QED BY <1>5, <3>1, <3>2 DEF PrevSet
  <2> QED BY <2>1, <2>2
<1>7. PICK new : PrevSet(new, m2, s, freeHead)
  BY <1>6, LinkChanges
<1>8. mem = new
  BY <1>4, <1>7 DEF PrevSet
<1> QED BY <1>5, <1>6, <1>7, <1>8 DEF PrevSet

-----------------------------------------------------------------------------
(* The invariant.                                                          *)

Queues == [Levels -> Seq(Slots)]

\* How many slots the queue of each level links.
Lengths(q) == [i \in 1 .. NumLevels |-> Len(q[i - 1])]

\* The queues, the free slots and the live orders share nothing.
Separate(q, f) ==
  /\ IsInjective(f) /\ \A l \in Levels : IsInjective(q[l])
  /\ level \in [Slots -> Levels] /\ live \subseteq Slots
  /\ \A l \in Levels : \A s \in Range(q[l]) : s \in live /\ level[s] = l
  /\ \A s \in live : s \in Range(q[level[s]])
  /\ \A s \in Range(f) : s \notin live

\* The fields of the levels are those of the queues q.
LevelFields(q) ==
  /\ heads  = [l \in Levels |-> At(q[l], 1)]
  /\ tails  = [l \in Levels |-> At(q[l], Len(q[l]))]
  /\ counts = [l \in Levels |-> Len(q[l])]

\* So are the links in the slots.
LinkFields(q, f) ==
  /\ cells \in [Slots -> Cells]
  /\ \A l \in Levels : \A i \in 1 .. Len(q[l]) :
       /\ cells[q[l][i]].prev = At(q[l], i - 1)
       /\ cells[q[l][i]].next = At(q[l], i + 1)
  /\ freeHead = At(f, 1)
  /\ \A i \in 1 .. Len(f) : cells[f[i]].prev = At(f, i + 1)

WordFields(q) == WordsTypeOK /\ SetLevels = {l \in Levels : q[l] # <<>>}

Numbers(q, f) == inUse = NumSlots - Len(f) /\ inUse = TotalOf(Lengths(q))

Shape(q, f) ==
  Separate(q, f) /\ LevelFields(q) /\ LinkFields(q, f) /\ WordFields(q) /\ Numbers(q, f)

StorageInv == \E q \in Queues, f \in Seq(Slots) : Shape(q, f)

\* A slot is at one place of one queue.
LEMMA PlacesApart ==
  ASSUME NEW q \in Queues, NEW f \in Seq(Slots), Separate(q, f)
  PROVE  /\ \A l \in Levels : \A i \in 1 .. Len(q[l]) :
              q[l][i] \in Slots /\ q[l][i] \in live /\ level[q[l][i]] = l
         /\ \A l \in Levels : \A i, j \in 1 .. Len(q[l]) : q[l][i] = q[l][j] => i = j
         /\ \A i \in 1 .. Len(f) : f[i] \in Slots /\ f[i] \notin live
         /\ \A i, j \in 1 .. Len(f) : f[i] = f[j] => i = j
<1>1. \A l \in Levels : q[l] \in Seq(Slots)
  BY DEF Queues
<1>2. \A l \in Levels : DOMAIN q[l] = 1 .. Len(q[l]) /\ DOMAIN f = 1 .. Len(f)
  BY <1>1, LenProperties
<1>3. ASSUME NEW l \in Levels, NEW i \in 1 .. Len(q[l])
      PROVE  q[l][i] \in Slots /\ q[l][i] \in live /\ level[q[l][i]] = l
  <2>1. q[l][i] \in Slots
    BY <1>1, ElementOfSeq
  <2>2. q[l][i] \in Range(q[l])
    BY <1>2 DEF Range
  <2> QED BY <2>1, <2>2 DEF Separate
<1>4. ASSUME NEW l \in Levels, NEW i \in 1 .. Len(q[l]), NEW j \in 1 .. Len(q[l]),
             q[l][i] = q[l][j]
      PROVE  i = j
  <2>1. IsInjective(q[l])
    BY DEF Separate
  <2> QED BY <1>2, <1>4, <2>1 DEF IsInjective
<1>5. ASSUME NEW i \in 1 .. Len(f)
      PROVE  f[i] \in Slots /\ f[i] \notin live
  <2>1. f[i] \in Slots
    BY ElementOfSeq
  <2>2. DOMAIN f = 1 .. Len(f)
    BY LenProperties
  <2>3. f[i] \in Range(f)
    BY <2>2 DEF Range
  <2> QED BY <2>1, <2>3 DEF Separate
<1>6. ASSUME NEW i \in 1 .. Len(f), NEW j \in 1 .. Len(f), f[i] = f[j]
      PROVE  i = j
  <2>1. DOMAIN f = 1 .. Len(f) /\ IsInjective(f)
    BY LenProperties DEF Separate
  <2> QED BY <1>6, <2>1 DEF IsInjective
<1> QED BY <1>3, <1>4, <1>5, <1>6

\* The order that a handle leads to is at a place of its level.
LEMMA LiveIsLinked ==
  ASSUME NEW q \in Queues, NEW f \in Seq(Slots), Separate(q, f), NEW s \in live
  PROVE  s \in Slots /\ level[s] \in Levels
         /\ \E i \in 1 .. Len(q[level[s]]) : s = q[level[s]][i]
<1>1. s \in Slots /\ level[s] \in Levels /\ s \in Range(q[level[s]])
  BY DEF Separate
<1>2. q[level[s]] \in Seq(Slots)
  BY <1>1 DEF Queues
<1>3. DOMAIN q[level[s]] = 1 .. Len(q[level[s]])
  BY <1>2, LenProperties
<1> QED BY <1>1, <1>3 DEF Range

\* What a place of a queue holds.
LEMMA AtProperties ==
  ASSUME NEW sq \in Seq(Slots), NEW i
  PROVE  /\ At(sq, i) \in Slots \cup {nullptr}
         /\ i \in 1 .. Len(sq) <=> At(sq, i) # nullptr
         /\ i \in 1 .. Len(sq) => At(sq, i) = sq[i]
<1>1. i \in 1 .. Len(sq) => sq[i] \in Slots /\ sq[i] # nullptr
  BY ElementOfSeq, NullIsNoSlot
<1> QED BY <1>1 DEF At

\* The lengths are a list of natural numbers.
LEMMA LengthsProperties ==
  ASSUME NEW q \in Queues
  PROVE  /\ Lengths(q) \in Seq(Int) /\ Len(Lengths(q)) = NumLevels
         /\ \A l \in Levels : Len(q[l]) \in Nat /\ l + 1 \in 1 .. NumLevels
                              /\ Lengths(q)[l + 1] = Len(q[l])
         /\ \A i \in 1 .. NumLevels : i - 1 \in Levels /\ Lengths(q)[i] = Len(q[i - 1])
<1>1. NumLevels \in Nat
  BY StorageAssumption
<1>2. \A i \in 1 .. NumLevels : i - 1 \in Levels
  BY <1>1 DEF Levels
<1>3. \A l \in Levels : q[l] \in Seq(Slots) /\ Len(q[l]) \in Nat
  <2>1. \A l \in Levels : q[l] \in Seq(Slots)
    BY DEF Queues
  <2> QED BY <2>1, LenProperties
<1>4. \A i \in 1 .. NumLevels : Len(q[i - 1]) \in Int
  BY <1>2, <1>3
<1>5. Lengths(q) \in Seq(Int) /\ Len(Lengths(q)) = NumLevels
  BY <1>1, <1>4 DEF Lengths
<1>6. \A l \in Levels : l + 1 \in 1 .. NumLevels /\ (l + 1) - 1 = l
  BY <1>1 DEF Levels
<1>7. \A i \in 1 .. NumLevels : Lengths(q)[i] = Len(q[i - 1])
  BY DEF Lengths
<1> QED BY <1>2, <1>3, <1>5, <1>6, <1>7

\* No queue is longer than the slab.
LEMMA LengthsBounded ==
  ASSUME NEW q \in Queues, NEW f \in Seq(Slots), Numbers(q, f)
  PROVE  Len(f) <= NumSlots /\ \A l \in Levels : Len(q[l]) <= NumSlots
<1>1. /\ \A i \in 1 .. Len(Lengths(q)) : Lengths(q)[i] \in Nat
      /\ Lengths(q) \in Seq(Int)
  BY LengthsProperties
<1>2. /\ TotalOf(Lengths(q)) \in Nat
      /\ \A i \in 1 .. Len(Lengths(q)) : Lengths(q)[i] <= TotalOf(Lengths(q))
  BY <1>1, TotalOfNaturals
<1>3. Len(f) \in Nat /\ NumSlots \in Nat
  BY StorageAssumption, LenProperties
<1>4. TotalOf(Lengths(q)) = NumSlots - Len(f)
  BY DEF Numbers
<1>5. Len(f) <= NumSlots /\ TotalOf(Lengths(q)) <= NumSlots
  BY <1>2, <1>3, <1>4
<1>6. \A l \in Levels : Len(q[l]) \in Nat /\ Len(q[l]) <= TotalOf(Lengths(q))
  BY <1>2, LengthsProperties
<1> QED BY <1>2, <1>3, <1>5, <1>6

\* One level's queue is replaced by one of `by` more slots.
LEMMA TotalOfLengths ==
  ASSUME NEW q \in Queues, NEW q2 \in Queues, NEW l \in Levels, NEW by \in Int,
         Len(q2[l]) = Len(q[l]) + by, \A k \in Levels : k # l => q2[k] = q[k]
  PROVE  TotalOf(Lengths(q2)) = TotalOf(Lengths(q)) + by
<1>1. PICK p \in 1 .. NumLevels : p = l + 1
  BY LengthsProperties
<1>2. Lengths(q2)[p] = Lengths(q)[p] + by
  BY <1>1, LengthsProperties
<1>3. \A i \in 1 .. NumLevels : i # p => Lengths(q2)[i] = Lengths(q)[i]
  <2> TAKE i \in 1 .. NumLevels
  <2> HAVE i # p
  <2>1. i - 1 \in Levels /\ i - 1 # l
    <3>1. l \in Int
      BY StorageAssumption DEF Levels
    <3> QED BY <1>1, <3>1, LengthsProperties
  <2>2. q2[i - 1] = q[i - 1]
    BY <2>1
  <2>3. Lengths(q)[i] = Len(q[i - 1])
    BY LengthsProperties
  <2>4. Lengths(q2)[i] = Len(q2[i - 1])
    BY LengthsProperties
  <2> QED BY <2>2, <2>3, <2>4
<1>4. PICK w \in Seq(Int) : w = Lengths(q) /\ Len(w) = NumLevels
  BY LengthsProperties
<1>5. PICK v \in Seq(Int) : v = Lengths(q2) /\ Len(v) = NumLevels
  BY LengthsProperties
<1>6. TotalOf(v) = TotalOf(w) + by
  <2>1. Len(v) = Len(w) /\ p \in 1 .. Len(w)
    BY <1>4, <1>5
  <2>2. v[p] = w[p] + by
    BY <1>2, <1>4, <1>5
  <2>3. \A i \in 1 .. Len(w) : i # p => v[i] = w[i]
    BY <1>3, <1>4, <1>5
  <2> QED BY <2>1, <2>2, <2>3, TotalOfChange
<1> QED BY <1>4, <1>5, <1>6

-----------------------------------------------------------------------------
(* The steps.                                                              *)

\* The slots as the constructor threads them, and empty levels.
LEMMA InitShape ==
  ASSUME Init
  PROVE  /\ [l \in Levels |-> <<>>] \in Queues
         /\ [i \in 1 .. NumSlots |-> i] \in Seq(Slots)
         /\ Shape([l \in Levels |-> <<>>], [i \in 1 .. NumSlots |-> i])
<1>1. PICK q : q = [l \in Levels |-> <<>>]
  OBVIOUS
<1>2. PICK f : f = [i \in 1 .. NumSlots |-> i]
  OBVIOUS
<1>3. q \in Queues /\ \A l \in Levels : q[l] = <<>> /\ Len(q[l]) = 0
  BY <1>1 DEF Queues
<1>4. NumSlots \in Nat /\ NumLevels \in Nat \ {0}
  BY StorageAssumption
<1>5. f \in Seq(Slots) /\ Len(f) = NumSlots /\ \A i \in 1 .. NumSlots : f[i] = i
  BY <1>2, <1>4 DEF Slots
<1>6. Separate(q, f)
  <2>1. IsInjective(f)
    BY <1>5 DEF IsInjective
  <2>2. \A l \in Levels : IsInjective(q[l]) /\ Range(q[l]) = {}
    BY <1>3 DEF IsInjective, Range
  <2>3. level \in [Slots -> Levels] /\ live = {}
    BY <1>4 DEF Init, Levels
  <2> QED BY <2>1, <2>2, <2>3 DEF Separate
<1>7. LevelFields(q)
  <2>1. \A l \in Levels : At(q[l], 1) = nullptr /\ At(q[l], Len(q[l])) = nullptr
    BY <1>3 DEF At
  <2> QED BY <1>3, <2>1 DEF LevelFields, Init, nullptr
<1>8. LinkFields(q, f)
  <2>1. cells \in [Slots -> Cells]
    BY <1>4 DEF Init, Cells, Slots
  <2>2. freeHead = At(f, 1)
    BY <1>4, <1>5 DEF Init, At
  <2>3. ASSUME NEW i \in 1 .. Len(f)
        PROVE  cells[f[i]].prev = At(f, i + 1)
    <3>1. f[i] = i /\ i \in Slots /\ i \in 1 .. NumSlots
      BY <1>5 DEF Slots
    <3>2. cells[i].prev = IF i = NumSlots THEN nullptr ELSE i + 1
      BY <3>1 DEF Init
    <3>3. At(f, i + 1) = IF i + 1 \in 1 .. NumSlots THEN i + 1 ELSE nullptr
      BY <1>5 DEF At
    <3>4. i + 1 \in 1 .. NumSlots <=> i # NumSlots
      BY <1>4, <3>1
    <3> QED BY <3>1, <3>2, <3>3, <3>4
  <2>4. \A l \in Levels : 1 .. Len(q[l]) = {}
    BY <1>3
  <2> QED BY <2>1, <2>2, <2>3, <2>4 DEF LinkFields
<1>9. WordFields(q)
  <2>1. words = [w \in 0 .. NumWords - 1 |-> {}]
    BY DEF Init
  <2>2. WordsTypeOK
    BY <2>1 DEF WordsTypeOK
  <2>3. \A i \in SetLevels : FALSE
    BY <2>1, <2>2, SetLevelsByPlace
  <2>4. {l \in Levels : q[l] # <<>>} = {}
    BY <1>3
  <2> QED BY <2>2, <2>3, <2>4 DEF WordFields
<1>10. Numbers(q, f)
  <2>1. Lengths(q) \in Seq(Int) /\ \A i \in 1 .. Len(Lengths(q)) : Lengths(q)[i] = 0
    BY <1>3, LengthsProperties
  <2>2. TotalOf(Lengths(q)) = 0
    BY <2>1, TotalOfZeros
  <2>3. inUse = 0
    BY DEF Init
  <2> QED BY <1>4, <1>5, <2>2, <2>3 DEF Numbers
<1> QED BY <1>1, <1>2, <1>3, <1>5, <1>6, <1>7, <1>8, <1>9, <1>10 DEF Shape

\* insert_resting_ takes the first free slot and puts it last at its level.
LEMMA InsertShape ==
  ASSUME NEW q \in Queues, NEW f \in Seq(Slots), Shape(q, f),
         NEW l \in Levels, InsertResting(l),
         NEW q2, q2 = [q EXCEPT ![l] = Append(q[l], Head(f))], NEW f2, f2 = Tail(f)
  PROVE  f # <<>> /\ q2 \in Queues /\ f2 \in Seq(Slots) /\ Shape(q2, f2)'
<1> USE DEF Shape
<1>1. freeHead = At(f, 1) /\ freeHead # nullptr
  BY DEF LinkFields, InsertResting, Allocate
<1>2. f # <<>> /\ 1 \in 1 .. Len(f) /\ freeHead = f[1] /\ f[1] = Head(f)
  BY <1>1, AtProperties, HeadTailProperties, LenProperties
<1>3. PICK s \in Slots : s = Head(f) /\ s = freeHead /\ s = f[1] /\ s \notin live
  BY <1>2, PlacesApart
<1>4. \A k \in Levels : q[k] \in Seq(Slots) /\ Len(q[k]) \in Nat
  <2>1. \A k \in Levels : q[k] \in Seq(Slots)
    BY DEF Queues
  <2> QED BY <2>1, LenProperties
<1>5. q2[l] = Append(q[l], s) /\ \A k \in Levels : k # l => q2[k] = q[k]
  BY <1>3 DEF Queues
<1>6. IsInjective(q[l]) /\ s \notin Range(q[l])
  BY <1>3 DEF Separate
<1>7. /\ q2[l] \in Seq(Slots) /\ Len(q2[l]) = Len(q[l]) + 1 /\ IsInjective(q2[l])
      /\ Range(q2[l]) = Range(q[l]) \cup {s}
  BY <1>4, <1>5, <1>6, AppendToQueue
<1>8. q2 \in Queues
  BY <1>3, <1>4, <1>5, <1>7 DEF Queues
<1>9. /\ f2 \in Seq(Slots) /\ IsInjective(f2) /\ Range(f2) = Range(f) \ {s}
      /\ Len(f2) = Len(f) - 1 /\ Len(f) \in Nat
  BY <1>2, <1>3, TakeFromFront, HeadTailProperties, LenProperties DEF Separate
<1>10. /\ live' = live \cup {s} /\ level' = [level EXCEPT ![s] = l]
       /\ cells' = PushBack(cells, s, l)
       /\ freeHead' = cells[s].prev /\ inUse' = inUse + 1
       /\ heads' = IF tails[l] = nullptr THEN [heads EXCEPT ![l] = s] ELSE heads
       /\ tails' = [tails EXCEPT ![l] = s]
       /\ counts' = [counts EXCEPT ![l] = counts[l] + 1]
  BY <1>3 DEF InsertResting, Allocate
<1>11. Separate(q2, f2)'
  <2>1. level' \in [Slots -> Levels] /\ live' \subseteq Slots
    BY <1>3, <1>10 DEF Separate
  <2>2. level'[s] = l /\ \A x \in live : level'[x] = level[x]
    BY <1>3, <1>10 DEF Separate
  <2>3. ASSUME NEW k \in Levels, NEW x \in Range(q2[k])
        PROVE  x \in live' /\ level'[x] = k
    <3>1. x \in Range(q[k]) \/ (k = l /\ x = s)
      BY <1>5, <1>7
    <3>2. x \in Range(q[k]) => x \in live /\ level[x] = k
      BY DEF Separate
    <3> QED BY <1>10, <2>2, <3>1, <3>2
  <2>4. ASSUME NEW x \in live'
        PROVE  x \in Range(q2[level'[x]])
    <3>1. x = s \/ x \in live
      BY <1>10
    <3>2. CASE x = s
      BY <1>7, <2>2, <3>2
    <3>3. CASE x \in live
      <4>1. x \in Range(q[level[x]]) /\ level'[x] = level[x] /\ level[x] \in Levels
        BY <2>2, <3>3 DEF Separate
      <4> QED BY <1>5, <1>7, <4>1
    <3> QED BY <3>1, <3>2, <3>3
  <2>5. \A x \in Range(f2) : x \notin live'
    BY <1>9, <1>10 DEF Separate
  <2>6. \A k \in Levels : IsInjective(q2[k])
    BY <1>5, <1>7 DEF Separate
  <2> QED BY <1>9, <2>1, <2>3, <2>4, <2>5, <2>6 DEF Separate
<1>12. LevelFields(q2)'
  <2>1. \A k \in Levels : k # l =>
          /\ heads'[k] = heads[k] /\ tails'[k] = tails[k] /\ counts'[k] = counts[k]
    BY <1>10 DEF LevelFields
  <2>2. tails'[l] = s /\ counts'[l] = counts[l] + 1
    BY <1>10 DEF LevelFields
  <2>3. heads'[l] = IF tails[l] = nullptr THEN s ELSE heads[l]
    BY <1>10 DEF LevelFields
  <2>4. \A k \in Levels :
          /\ heads[k] = At(q[k], 1) /\ tails[k] = At(q[k], Len(q[k]))
          /\ counts[k] = Len(q[k])
    BY DEF LevelFields
  <2>5. /\ At(q2[l], Len(q2[l])) = s
        /\ At(q2[l], 1) = IF Len(q[l]) = 0 THEN s ELSE At(q[l], 1)
    <3>1. At(q2[l], Len(q2[l])) = s
      BY <1>4, <1>5, <1>7, AtAppend
    <3>2. At(q2[l], 1) = IF 1 = Len(q[l]) + 1 THEN s ELSE At(q[l], 1)
      BY <1>4, <1>5, AtAppend
    <3> QED BY <1>4, <3>1, <3>2
  <2>6. tails[l] = nullptr <=> Len(q[l]) = 0
    <3>1. Len(q[l]) \in 1 .. Len(q[l]) <=> At(q[l], Len(q[l])) # nullptr
      BY <1>4, AtProperties
    <3> QED BY <1>4, <2>4, <3>1
  <2>7. \A k \in Levels :
          /\ heads'[k] = At(q2[k], 1) /\ tails'[k] = At(q2[k], Len(q2[k]))
          /\ counts'[k] = Len(q2[k])
    <3> TAKE k \in Levels
    <3>1. CASE k = l
      BY <1>7, <2>2, <2>3, <2>4, <2>5, <2>6, <3>1
    <3>2. CASE k # l
      BY <1>5, <2>1, <2>4, <3>2
    <3> QED BY <3>1, <3>2
  <2>8. /\ heads' = [k \in Levels |-> heads'[k]] /\ tails' = [k \in Levels |-> tails'[k]]
        /\ counts' = [k \in Levels |-> counts'[k]]
    BY <1>10 DEF LevelFields
  <2> QED BY <2>7, <2>8 DEF LevelFields
<1>13. /\ cells' \in [Slots -> Cells]
       /\ cells'[s].prev = tails[l] /\ cells'[s].next = nullptr
       /\ \A x \in Slots \ {s} :
            /\ cells'[x].prev = cells[x].prev
            /\ cells'[x].next = IF x = tails[l] THEN s ELSE cells[x].next
  <2>1. tails[l] = At(q[l], Len(q[l]))
    BY DEF LevelFields
  <2>2. tails[l] \in Slots \cup {nullptr}
    BY <1>4, <2>1, AtProperties
  <2>3. tails[l] # s
    <3>1. CASE tails[l] = nullptr
      BY <3>1, NullIsNoSlot
    <3>2. CASE tails[l] # nullptr
      <4>1. Len(q[l]) \in 1 .. Len(q[l]) /\ tails[l] = q[l][Len(q[l])]
        BY <1>4, <2>1, <3>2, AtProperties
      <4>2. tails[l] \in live
        BY <4>1, PlacesApart
      <4> QED BY <1>3, <4>2
    <3> QED BY <3>1, <3>2
  <2>4. cells \in [Slots -> Cells]
    BY DEF LinkFields
  <2> QED BY <1>10, <2>2, <2>3, <2>4, PushBackWrites
<1>14. LinkFields(q2, f2)'
  <2>1. freeHead' = At(f2, 1)
    <3>1. cells[f[1]].prev = At(f, 1 + 1)
      BY <1>2 DEF LinkFields
    <3>2. At(f2, 1) = At(f, 1 + 1)
      BY <1>2, AtTail
    <3> QED BY <1>3, <1>10, <3>1, <3>2
  <2>2. ASSUME NEW i \in 1 .. Len(f2)
        PROVE  cells'[f2[i]].prev = At(f2, i + 1)
    <3>1. i + 1 \in 1 .. Len(f) /\ i \in Nat \ {0}
      BY <1>9
    <3>2. f2[i] = f[i + 1]
      BY <1>2, <1>9, HeadTailProperties
    <3>3. f[i + 1] \in Slots \ {s}
      BY <1>2, <1>3, <3>1, PlacesApart
    <3>4. cells[f[i + 1]].prev = At(f, (i + 1) + 1)
      BY <3>1 DEF LinkFields
    <3>5. At(f2, i + 1) = At(f, (i + 1) + 1)
      BY <1>2, <3>1, AtTail
    <3> QED BY <1>13, <3>2, <3>3, <3>4, <3>5
  <2>3. ASSUME NEW k \in Levels, NEW i \in 1 .. Len(q2[k]), k # l
        PROVE  /\ cells'[q2[k][i]].prev = At(q2[k], i - 1)
               /\ cells'[q2[k][i]].next = At(q2[k], i + 1)
    <3>1. q2[k] = q[k] /\ i \in 1 .. Len(q[k])
      BY <1>5, <2>3
    <3>2. PICK x \in Slots : x = q[k][i] /\ x \in live /\ level[x] = k
      BY <3>1, PlacesApart
    <3>3. x # s /\ x # tails[l]
      <4>1. tails[l] = At(q[l], Len(q[l]))
        BY DEF LevelFields
      <4>2. tails[l] = nullptr \/ level[tails[l]] = l
        <5>1. CASE Len(q[l]) \in 1 .. Len(q[l])
          BY <1>4, <4>1, <5>1, AtProperties, PlacesApart
        <5>2. CASE Len(q[l]) \notin 1 .. Len(q[l])
          BY <1>4, <4>1, <5>2, AtProperties
        <5> QED BY <5>1, <5>2
      <4> QED BY <1>3, <2>3, <3>2, <4>2, NullIsNoSlot
    <3>4. cells[x].prev = At(q[k], i - 1) /\ cells[x].next = At(q[k], i + 1)
      BY <3>1, <3>2 DEF LinkFields
    <3> QED BY <1>13, <3>1, <3>2, <3>3, <3>4
  <2>4. ASSUME NEW i \in 1 .. Len(q2[l])
        PROVE  /\ cells'[q2[l][i]].prev = At(q2[l], i - 1)
               /\ cells'[q2[l][i]].next = At(q2[l], i + 1)
    <3>1. PICK n \in Nat : n = Len(q[l])
      BY <1>4
    <3>2. tails[l] = At(q[l], n)
      BY <3>1 DEF LevelFields
    <3>3. \A j \in Int : At(q2[l], j) = IF j = n + 1 THEN s ELSE At(q[l], j)
      BY <1>4, <1>5, <3>1, AtAppend
    <3>4. i \in 1 .. n + 1
      BY <1>7, <3>1
    <3>5. CASE i = n + 1
      <4>1. q2[l][i] = s
        BY <1>4, <1>5, <3>1, <3>5, AppendProperties
      <4>2. At(q2[l], i - 1) = At(q[l], n)
        BY <3>1, <3>3, <3>5
      <4>3. At(q2[l], i + 1) = nullptr
        <5>1. i + 1 \notin 1 .. Len(q2[l])
          BY <1>7, <3>1, <3>5
        <5> QED BY <5>1 DEF At
      <4> QED BY <1>13, <3>2, <4>1, <4>2, <4>3
    <3>6. CASE i # n + 1
      <4>1. i \in 1 .. n /\ i \in Int
        BY <3>1, <3>4, <3>6
      <4>2. q2[l][i] = q[l][i]
        BY <1>4, <1>5, <3>1, <4>1, AppendProperties
      <4>3. PICK x \in Slots : x = q[l][i] /\ x \in live
        BY <3>1, <4>1, PlacesApart
      <4>4. x # s
        BY <1>3, <4>3
      <4>5. cells[x].prev = At(q[l], i - 1) /\ cells[x].next = At(q[l], i + 1)
        BY <3>1, <4>1, <4>3 DEF LinkFields
      <4>6. At(q2[l], i - 1) = At(q[l], i - 1)
        BY <3>1, <3>3, <4>1
      <4>7. cells'[x].prev = At(q2[l], i - 1)
        BY <1>13, <4>4, <4>5, <4>6
      <4>8. At(q2[l], i + 1) = IF i = n THEN s ELSE At(q[l], i + 1)
        BY <3>1, <3>3, <4>1
      <4>9. x = tails[l] <=> i = n
        <5>1. n \in 1 .. n
          BY <3>1, <4>1
        <5>2. tails[l] = q[l][n]
          BY <1>4, <3>1, <3>2, <5>1, AtProperties
        <5>3. q[l][i] = q[l][n] <=> i = n
          BY <3>1, <4>1, <5>1, PlacesApart
        <5> QED BY <4>3, <5>2, <5>3
      <4>10. cells'[x].next = At(q2[l], i + 1)
        BY <1>13, <4>4, <4>5, <4>8, <4>9
      <4> QED BY <4>2, <4>3, <4>7, <4>10
    <3> QED BY <3>5, <3>6
  <2> QED BY <1>13, <2>1, <2>2, <2>3, <2>4 DEF LinkFields
<1>15. WordFields(q2)'
  <2>1. SetLevels = {k \in Levels : q[k] # <<>>} /\ WordsTypeOK
    BY DEF WordFields
  <2>2. q2[l] # <<>>
    <3>1. Len(q2[l]) # 0
      BY <1>4, <1>7
    <3> QED BY <3>1
  <2>3. {k \in Levels : q2[k] # <<>>} = SetLevels \cup {l}
    BY <1>5, <2>1, <2>2
  <2>4. CASE counts[l] = 0
    <3>1. SetBit(l)
      BY <2>4 DEF InsertResting
    <3> QED BY <2>1, <2>3, <3>1, BitChanges DEF WordFields
  <2>5. CASE counts[l] # 0
    <3>1. UNCHANGED words
      BY <2>5 DEF InsertResting
    <3>2. counts[l] = Len(q[l])
      BY DEF LevelFields
    <3>3. q[l] # <<>>
      BY <2>5, <3>2
    <3>4. l \in SetLevels
      BY <2>1, <3>3
    <3>5. SetLevels' = SetLevels /\ WordsTypeOK'
      BY <2>1, <3>1 DEF SetLevels, WordsTypeOK
    <3> QED BY <2>3, <3>4, <3>5 DEF WordFields
  <2> QED BY <2>4, <2>5
<1>16. Numbers(q2, f2)'
  <2>1. TotalOf(Lengths(q2)) = TotalOf(Lengths(q)) + 1
    <3>1. PICK one \in Int : one = 1
      OBVIOUS
    <3>2. Len(q2[l]) = Len(q[l]) + one
      BY <1>7, <3>1
    <3>3. TotalOf(Lengths(q2)) = TotalOf(Lengths(q)) + one
      BY <1>5, <1>8, <3>2, TotalOfLengths
    <3> QED BY <3>1, <3>3
  <2>2. NumSlots \in Nat
    BY StorageAssumption
  <2> QED BY <1>9, <1>10, <2>1, <2>2 DEF Numbers
<1> QED BY <1>2, <1>8, <1>9, <1>11, <1>12, <1>14, <1>15, <1>16

\* remove_from_book_ and deallocate take an order out of its place and put its
\* slot in front of the free ones.
LEMMA RemoveShape ==
  ASSUME NEW q \in Queues, NEW f \in Seq(Slots), Shape(q, f),
         NEW l \in Levels, NEW i \in 1 .. Len(q[l]), NEW s \in Slots, s = q[l][i],
         RemoveFromBook(s),
         NEW q2, q2 = [q EXCEPT ![l] = RemoveAt(q[l], i)], NEW f2, f2 = <<s>> \o f
  PROVE  q2 \in Queues /\ f2 \in Seq(Slots) /\ Shape(q2, f2)'
<1> USE DEF Shape
<1>1. s \in live /\ level[s] = l
  BY PlacesApart
<1>2. \A k \in Levels : q[k] \in Seq(Slots) /\ Len(q[k]) \in Nat
  <2>1. \A k \in Levels : q[k] \in Seq(Slots)
    BY DEF Queues
  <2> QED BY <2>1, LenProperties
<1>3. PICK n \in Nat : n = Len(q[l]) /\ i \in 1 .. n
  BY <1>2
<1>4. q2[l] = RemoveAt(q[l], i) /\ \A k \in Levels : k # l => q2[k] = q[k]
  BY DEF Queues
<1>5. /\ q2[l] \in Seq(Slots) /\ Len(q2[l]) = n - 1 /\ IsInjective(q2[l])
      /\ Range(q2[l]) = Range(q[l]) \ {s}
      /\ \A j \in 1 .. n - 1 : q2[l][j] = IF j < i THEN q[l][j] ELSE q[l][j + 1]
  <2>1. IsInjective(q[l])
    BY DEF Separate
  <2> QED BY <1>2, <1>3, <1>4, <2>1, RemoveAtProperties, RemoveFromQueue
<1>6. q2 \in Queues
  BY <1>2, <1>4, <1>5 DEF Queues
<1>7. s \notin Range(f) /\ IsInjective(f)
  BY <1>1 DEF Separate
<1>8. /\ f2 \in Seq(Slots) /\ IsInjective(f2) /\ Range(f2) = Range(f) \cup {s}
      /\ Len(f2) = Len(f) + 1 /\ Len(f) \in Nat
      /\ \A j \in Nat \ {0} : At(f2, j) = IF j = 1 THEN s ELSE At(f, j - 1)
  <2>1. f2 \in Seq(Slots) /\ IsInjective(f2) /\ Range(f2) = Range(f) \cup {s}
    BY <1>7, PutInFront
  <2>2. /\ Len(f2) = Len(f) + 1
        /\ \A j \in Nat \ {0} : At(f2, j) = IF j = 1 THEN s ELSE At(f, j - 1)
    BY AtFront
  <2> QED BY <2>1, <2>2, LenProperties
<1>9. PICK p \in Slots \cup {nullptr} : p = cells[s].prev /\ p = At(q[l], i - 1)
  BY <1>2, AtProperties DEF LinkFields
<1>10. PICK x \in Slots \cup {nullptr} : x = cells[s].next /\ x = At(q[l], i + 1)
  BY <1>2, AtProperties DEF LinkFields
<1>11. /\ \A j \in 1 .. n : q[l][j] \in Slots /\ q[l][j] # nullptr /\ (q[l][j] = p <=> j = i - 1)
       /\ \A j \in 1 .. n : q[l][j] = x <=> j = i + 1
       /\ \A j \in 1 .. n : q[l][j] = s <=> j = i
  <2>1. \A j, k \in 1 .. n : q[l][j] = q[l][k] => j = k
    BY <1>3, PlacesApart
  <2>2. \A j \in 1 .. n : q[l][j] \in Slots /\ q[l][j] # nullptr
    BY <1>3, PlacesApart, NullIsNoSlot
  <2>3. p = IF i - 1 \in 1 .. n THEN q[l][i - 1] ELSE nullptr
    BY <1>3, <1>9 DEF At
  <2>4. x = IF i + 1 \in 1 .. n THEN q[l][i + 1] ELSE nullptr
    BY <1>3, <1>10 DEF At
  <2>5. \A j \in 1 .. n : q[l][j] = p <=> j = i - 1
    BY <2>1, <2>2, <2>3
  <2>6. \A j \in 1 .. n : q[l][j] = x <=> j = i + 1
    BY <2>1, <2>2, <2>4
  <2> QED BY <1>3, <2>1, <2>2, <2>5, <2>6
<1>12. p # s /\ x # s
  BY <1>3, <1>11
<1>13. (p = nullptr <=> i = 1) /\ (x = nullptr <=> i = n)
  <2>1. i - 1 \in 1 .. n <=> p # nullptr
    BY <1>2, <1>3, <1>9, AtProperties
  <2>2. i + 1 \in 1 .. n <=> x # nullptr
    BY <1>2, <1>3, <1>10, AtProperties
  <2> QED BY <1>3, <2>1, <2>2
<1>14. /\ cells' = CellsWithout(s)
       /\ heads' = IF p = nullptr THEN [heads EXCEPT ![l] = x] ELSE heads
       /\ tails' = IF x = nullptr THEN [tails EXCEPT ![l] = p] ELSE tails
       /\ counts' = [counts EXCEPT ![l] = counts[l] - 1]
       /\ freeHead' = s /\ inUse' = inUse - 1 /\ live' = live \ {s} /\ level' = level
  BY <1>1, <1>9, <1>10 DEF RemoveFromBook, Deallocate
<1>15. /\ cells' \in [Slots -> Cells]
       /\ cells'[s].prev = freeHead
       /\ \A y \in Slots \ {s} :
            /\ cells'[y].next = IF y = p THEN x ELSE cells[y].next
            /\ cells'[y].prev = IF y = x THEN p ELSE cells[y].prev
  <2>1. cells \in [Slots -> Cells] /\ freeHead = At(f, 1)
    BY DEF LinkFields
  <2>2. freeHead \in Slots \cup {nullptr}
    BY <2>1, AtProperties
  <2>3. PICK mem : mem = CellsWithout(s)
    OBVIOUS
  <2>4. /\ mem \in [Slots -> Cells]
        /\ mem[s].prev = freeHead
        /\ \A y \in Slots \ {s} :
             /\ mem[y].next = IF y = p THEN x ELSE cells[y].next
             /\ mem[y].prev = IF y = x THEN p ELSE cells[y].prev
    <3>1. p = cells[s].prev /\ p # s /\ x = cells[s].next /\ x # s
      BY <1>9, <1>10, <1>12
    <3>2. cells \in [Slots -> Cells]
      BY <2>1
    <3> HIDE DEF Shape
    <3> QED BY <2>2, <2>3, <3>1, <3>2, RemovalWrites
  <2> QED BY <1>14, <2>3, <2>4
<1>16. Separate(q2, f2)'
  <2>1. level' \in [Slots -> Levels] /\ live' \subseteq Slots
    BY <1>14 DEF Separate
  <2>2. \A k \in Levels : IsInjective(q2[k])
    BY <1>4, <1>5 DEF Separate
  <2>3. ASSUME NEW k \in Levels, NEW y \in Range(q2[k])
        PROVE  y \in live' /\ level'[y] = k
    <3>1. y \in Range(q[k]) /\ ~(k = l /\ y = s)
      BY <1>4, <1>5
    <3>2. y \in live /\ level[y] = k
      BY <3>1 DEF Separate
    <3> QED BY <1>1, <1>14, <3>1, <3>2
  <2>4. ASSUME NEW y \in live'
        PROVE  y \in Range(q2[level'[y]])
    <3>1. y \in live /\ y # s /\ level'[y] = level[y]
      BY <1>14
    <3>2. y \in Range(q[level[y]]) /\ level[y] \in Levels
      BY <3>1 DEF Separate
    <3> QED BY <1>4, <1>5, <3>1, <3>2
  <2>5. \A y \in Range(f2) : y \notin live'
    BY <1>8, <1>14 DEF Separate
  <2> QED BY <1>8, <2>1, <2>2, <2>3, <2>4, <2>5 DEF Separate
\* Places of the shorter queue.
<1>17. /\ \A j \in Nat : At(q2[l], j) = IF j < i THEN At(q[l], j) ELSE At(q[l], j + 1)
  BY <1>2, <1>4, AtRemoval
<1>18. LevelFields(q2)'
  <2>1. \A k \in Levels :
          /\ heads[k] = At(q[k], 1) /\ tails[k] = At(q[k], Len(q[k]))
          /\ counts[k] = Len(q[k])
    BY DEF LevelFields
  <2>2. \A k \in Levels : k # l =>
          /\ heads'[k] = heads[k] /\ tails'[k] = tails[k] /\ counts'[k] = counts[k]
    BY <1>14 DEF LevelFields
  <2>3. /\ heads'[l] = IF p = nullptr THEN x ELSE heads[l]
        /\ tails'[l] = IF x = nullptr THEN p ELSE tails[l]
        /\ counts'[l] = counts[l] - 1
    BY <1>14 DEF LevelFields
  <2>4. heads'[l] = At(q2[l], 1)
    <3>1. At(q2[l], 1) = IF 1 < i THEN At(q[l], 1) ELSE At(q[l], 1 + 1)
      BY <1>17
    <3>2. CASE i = 1
      BY <1>10, <1>13, <2>3, <3>1, <3>2
    <3>3. CASE i # 1
      BY <1>3, <1>13, <2>1, <2>3, <3>1, <3>3
    <3> QED BY <3>2, <3>3
  <2>5. tails'[l] = At(q2[l], n - 1)
    <3>1. n - 1 \in Nat
      BY <1>3
    <3>2. At(q2[l], n - 1) = IF n - 1 < i THEN At(q[l], n - 1) ELSE At(q[l], (n - 1) + 1)
      BY <1>17, <3>1
    <3>3. CASE i = n
      BY <1>3, <1>9, <1>13, <2>3, <3>2, <3>3
    <3>4. CASE i # n
      BY <1>3, <1>13, <2>1, <2>3, <3>2, <3>4
    <3> QED BY <3>3, <3>4
  <2>6. \A k \in Levels :
          /\ heads'[k] = At(q2[k], 1) /\ tails'[k] = At(q2[k], Len(q2[k]))
          /\ counts'[k] = Len(q2[k])
    <3> TAKE k \in Levels
    <3>1. CASE k = l
      BY <1>3, <1>5, <2>1, <2>3, <2>4, <2>5, <3>1
    <3>2. CASE k # l
      BY <1>4, <2>1, <2>2, <3>2
    <3> QED BY <3>1, <3>2
  <2>7. /\ heads' = [k \in Levels |-> heads'[k]] /\ tails' = [k \in Levels |-> tails'[k]]
        /\ counts' = [k \in Levels |-> counts'[k]]
    BY <1>14 DEF LevelFields
  <2> QED BY <2>6, <2>7 DEF LevelFields
<1>19. LinkFields(q2, f2)'
  <2>1. freeHead' = At(f2, 1)
    BY <1>8, <1>14
  <2>2. ASSUME NEW j \in 1 .. Len(f2)
        PROVE  cells'[f2[j]].prev = At(f2, j + 1)
    <3>0. f2[j] = At(f2, j)
      BY DEF At
    <3>1. f2[j] = At(f2, j) /\ j \in Nat \ {0} /\ j + 1 \in Nat \ {0} /\ (j + 1) - 1 = j
          /\ j + 1 # 1
      <4>1. PICK m \in Nat : m = Len(f2)
        BY <1>8
      <4>2. j \in 1 .. m
        BY <4>1
      <4>3. j \in Nat \ {0} /\ j + 1 \in Nat \ {0} /\ (j + 1) - 1 = j /\ j + 1 # 1
        BY <4>2
      <4> QED BY <3>0, <4>3
    <3>2. At(f2, j + 1) = At(f, j) /\ f2[j] = IF j = 1 THEN s ELSE At(f, j - 1)
      BY <1>8, <3>1
    <3>3. CASE j = 1
      BY <1>15, <3>2, <3>3 DEF LinkFields
    <3>4. CASE j # 1
      <4>1. j - 1 \in 1 .. Len(f) /\ (j - 1) + 1 = j
        BY <1>8, <3>1, <3>4
      <4>2. PICK y \in Slots : y = f[j - 1] /\ y \notin live
        BY <4>1, PlacesApart
      <4>3. f2[j] = y
        BY <3>2, <3>4, <4>1, <4>2 DEF At
      <4>4. cells[y].prev = At(f, j)
        BY <4>1, <4>2 DEF LinkFields
      <4>5. y # s /\ y # x
        <5>1. x = nullptr \/ x \in live
          <6>1. x # nullptr => i + 1 \in 1 .. Len(q[l]) /\ x = q[l][i + 1]
            BY <1>2, <1>10, AtProperties
          <6> QED BY <6>1, PlacesApart
        <5> QED BY <1>1, <4>2, <5>1, NullIsNoSlot
      <4> QED BY <1>15, <3>2, <4>3, <4>4, <4>5
    <3> QED BY <3>3, <3>4
  <2>3. ASSUME NEW k \in Levels, NEW j \in 1 .. Len(q2[k]), k # l
        PROVE  /\ cells'[q2[k][j]].prev = At(q2[k], j - 1)
               /\ cells'[q2[k][j]].next = At(q2[k], j + 1)
    <3>1. q2[k] = q[k] /\ j \in 1 .. Len(q[k])
      BY <1>4, <2>3
    <3>2. PICK y \in Slots : y = q[k][j] /\ y \in live /\ level[y] = k
      BY <3>1, PlacesApart
    <3>3. cells[y].prev = At(q[k], j - 1) /\ cells[y].next = At(q[k], j + 1)
      BY <3>1, <3>2 DEF LinkFields
    <3>4. y # s
      BY <1>1, <2>3, <3>2
    <3>5. y # p
      <4>1. p # nullptr => i - 1 \in 1 .. Len(q[l]) /\ p = q[l][i - 1]
        BY <1>2, <1>9, AtProperties
      <4>2. p # nullptr => level[p] = l
        BY <4>1, PlacesApart
      <4> QED BY <2>3, <3>2, <4>2, NullIsNoSlot
    <3>6. y # x
      <4>1. x # nullptr => i + 1 \in 1 .. Len(q[l]) /\ x = q[l][i + 1]
        BY <1>2, <1>10, AtProperties
      <4>2. x # nullptr => level[x] = l
        BY <4>1, PlacesApart
      <4> QED BY <2>3, <3>2, <4>2, NullIsNoSlot
    <3> QED BY <1>15, <3>1, <3>2, <3>3, <3>4, <3>5, <3>6
  <2>4. ASSUME NEW j \in 1 .. Len(q2[l])
        PROVE  /\ cells'[q2[l][j]].prev = At(q2[l], j - 1)
               /\ cells'[q2[l][j]].next = At(q2[l], j + 1)
    <3>1. j \in 1 .. n - 1 /\ j \in Nat /\ j - 1 \in Nat /\ j + 1 \in Nat
      BY <1>3, <1>5
    <3>2. PICK k \in 1 .. n : k = IF j < i THEN j ELSE j + 1
      BY <1>3, <3>1
    <3>3. PICK y \in Slots : y = q[l][k] /\ y = q2[l][j]
      BY <1>5, <1>11, <3>1, <3>2
    <3>4. cells[y].prev = At(q[l], k - 1) /\ cells[y].next = At(q[l], k + 1)
      BY <1>3, <3>3 DEF LinkFields
    <3>5. y # s /\ (y = p <=> k = i - 1) /\ (y = x <=> k = i + 1)
      <4>1. k # i
        BY <1>3, <3>1, <3>2
      <4> QED BY <1>11, <3>3, <4>1
    <3>6. /\ cells'[y].next = IF k = i - 1 THEN At(q[l], i + 1) ELSE At(q[l], k + 1)
          /\ cells'[y].prev = IF k = i + 1 THEN At(q[l], i - 1) ELSE At(q[l], k - 1)
      BY <1>9, <1>10, <1>15, <3>4, <3>5
    <3>7. At(q2[l], j + 1) = IF j + 1 < i THEN At(q[l], j + 1) ELSE At(q[l], (j + 1) + 1)
      BY <1>17, <3>1
    <3>8. At(q2[l], j - 1) = IF j - 1 < i THEN At(q[l], j - 1) ELSE At(q[l], (j - 1) + 1)
      BY <1>17, <3>1
    <3>9. CASE j < i
      <4>1. k = j /\ (k = i - 1 <=> ~(j + 1 < i)) /\ k # i + 1 /\ j - 1 < i
        BY <1>3, <3>1, <3>2, <3>9
      <4>2. k = i - 1 => (j + 1) + 1 = i + 1
        BY <1>3, <3>1, <4>1
      <4> QED BY <3>3, <3>6, <3>7, <3>8, <4>1, <4>2
    <3>10. CASE ~(j < i)
      <4>1. /\ k = j + 1 /\ k # i - 1 /\ ~(j + 1 < i) /\ (k = i + 1 <=> j - 1 < i)
            /\ k - 1 = (j - 1) + 1
        BY <1>3, <3>1, <3>2, <3>10
      <4>2. k = i + 1 => j - 1 = i - 1
        BY <1>3, <3>1, <4>1
      <4> QED BY <3>3, <3>6, <3>7, <3>8, <4>1, <4>2
    <3> QED BY <3>9, <3>10
  <2> QED BY <1>15, <2>1, <2>2, <2>3, <2>4 DEF LinkFields
<1>20. WordFields(q2)'
  <2>1. SetLevels = {k \in Levels : q[k] # <<>>} /\ WordsTypeOK
    BY DEF WordFields
  <2>2. counts[l] = n
    BY <1>3 DEF LevelFields
  <2>3. CASE n = 1
    <3>1. ClearBit(l)
      BY <1>1, <2>2, <2>3 DEF RemoveFromBook
    <3>2. q2[l] = <<>>
      <4>1. Len(q2[l]) = 0
        BY <1>5, <2>3
      <4> QED BY <1>5, <4>1, EmptySeq
    <3>3. {k \in Levels : q2[k] # <<>>} = SetLevels \ {l}
      BY <1>4, <2>1, <3>2
    <3> QED BY <2>1, <3>1, <3>3, BitChanges DEF WordFields
  <2>4. CASE n # 1
    <3>1. UNCHANGED words
      BY <1>1, <2>2, <2>4 DEF RemoveFromBook
    <3>2. q2[l] # <<>> /\ q[l] # <<>>
      <4>1. Len(q2[l]) # 0 /\ Len(q[l]) # 0
        <5>1. n - 1 # 0 /\ n # 0
          BY <1>3, <2>4
        <5> QED BY <1>3, <1>5, <5>1
      <4> QED BY <4>1
    <3>3. {k \in Levels : q2[k] # <<>>} = SetLevels
      BY <1>4, <2>1, <3>2
    <3>4. SetLevels' = SetLevels /\ WordsTypeOK'
      BY <2>1, <3>1 DEF SetLevels, WordsTypeOK
    <3> QED BY <3>3, <3>4 DEF WordFields
  <2> QED BY <2>3, <2>4
<1>21. Numbers(q2, f2)'
  <2>1. PICK by \in Int : by = -1
    OBVIOUS
  <2>2. Len(q2[l]) = Len(q[l]) + by
    BY <1>3, <1>5, <2>1
  <2>3. TotalOf(Lengths(q2)) = TotalOf(Lengths(q)) + by
    BY <1>4, <1>6, <2>2, TotalOfLengths
  <2>4. NumSlots \in Nat
    BY StorageAssumption
  <2> QED BY <1>8, <1>14, <2>1, <2>3, <2>4 DEF Numbers
<1> QED BY <1>6, <1>8, <1>16, <1>18, <1>19, <1>20, <1>21

\* Nothing changes if no variable does.
LEMMA StutterShape ==
  ASSUME NEW q \in Queues, NEW f \in Seq(Slots), Shape(q, f), UNCHANGED vars
  PROVE  Shape(q, f)'
<1> USE DEF Shape
<1>1. /\ cells' = cells /\ level' = level /\ freeHead' = freeHead /\ inUse' = inUse
      /\ heads' = heads /\ tails' = tails /\ counts' = counts /\ words' = words
      /\ live' = live
  BY DEF vars
<1>2. Separate(q, f)'
  BY <1>1 DEF Separate
<1>3. LevelFields(q)'
  BY <1>1 DEF LevelFields
<1>4. LinkFields(q, f)'
  BY <1>1 DEF LinkFields
<1>5. WordFields(q)'
  BY <1>1 DEF WordFields, WordsTypeOK, SetLevels
<1>6. Numbers(q, f)'
  BY <1>1 DEF Numbers
<1> QED BY <1>2, <1>3, <1>4, <1>5, <1>6

\* There are such queues in every state.
THEOREM StorageInvariance == Spec => []StorageInv
<1>1. Init => StorageInv
  BY InitShape DEF StorageInv
<1>2. StorageInv /\ [Next]_vars => StorageInv'
  <2> SUFFICES ASSUME StorageInv, [Next]_vars PROVE StorageInv'
    OBVIOUS
  <2>1. PICK q \in Queues, f \in Seq(Slots) : Shape(q, f)
    BY DEF StorageInv
  <2>2. ASSUME NEW l \in Levels, InsertResting(l)
        PROVE  StorageInv'
    <3>1. PICK q2 : q2 = [q EXCEPT ![l] = Append(q[l], Head(f))]
      OBVIOUS
    <3>2. PICK f2 : f2 = Tail(f)
      OBVIOUS
    <3>3. q2 \in Queues /\ f2 \in Seq(Slots) /\ Shape(q2, f2)'
      BY <2>1, <2>2, <3>1, <3>2, InsertShape
    <3> QED BY <3>3 DEF StorageInv
  <2>3. ASSUME NEW s \in live, RemoveFromBook(s)
        PROVE  StorageInv'
    <3>1. PICK l \in Levels, i \in 1 .. Len(q[level[s]]) :
            l = level[s] /\ s = q[l][i] /\ s \in Slots
      BY <2>1, LiveIsLinked DEF Shape
    <3>2. i \in 1 .. Len(q[l])
      BY <3>1
    <3>3. PICK q2 : q2 = [q EXCEPT ![l] = RemoveAt(q[l], i)]
      OBVIOUS
    <3>4. PICK f2 : f2 = <<s>> \o f
      OBVIOUS
    <3>5. q2 \in Queues /\ f2 \in Seq(Slots) /\ Shape(q2, f2)'
      BY <2>1, <2>3, <3>1, <3>2, <3>3, <3>4, RemoveShape
    <3> QED BY <3>5 DEF StorageInv
  <2>4. CASE UNCHANGED vars
    BY <2>1, <2>4, StutterShape DEF StorageInv
  <2> QED BY <2>2, <2>3, <2>4 DEF Next
<1> QED BY <1>1, <1>2, PTL DEF Spec

-----------------------------------------------------------------------------
(* What the invariant says of the memory.                                  *)

\* The searches return what a walk over the set of levels would, from every
\* index, whatever the width of a word and however many bits the last one uses.
THEOREM BitmapExact == Spec => []SearchesExact
<1>1. StorageInv => SearchesExact
  <2> SUFFICES ASSUME StorageInv, NEW from \in 0 .. (NumWords + 1) * WordBits
               PROVE  LET above == {i \in SetLevels : i >= from}
                          below == {i \in SetLevels : i <= from}
                      IN  /\ FindNextSet(from) = IF above = {} THEN kNotFound ELSE Min(above)
                          /\ FindPrevSet(from) = IF below = {} THEN kNotFound ELSE Max(below)
    BY DEF SearchesExact
  <2>1. WordsTypeOK
    BY DEF StorageInv, Shape, WordFields
  <2>2. from \in Nat
    OBVIOUS
  <2> QED BY <2>1, <2>2, NextSetIsNearest, PrevSetIsNearest
<1> QED BY <1>1, StorageInvariance, PTL

Mapped(q, f) ==
  /\ [l \in Levels |-> Queue(l)] = q /\ FreeList = f
  /\ SetLevels = {l \in Levels : q[l] # <<>>}
  /\ \A l \in Levels : Chain(tails[l], PrevLinks) = Reverse(q[l])

ShapesAreMapped ==
  \A q \in Queues, f \in Seq(Slots) : Shape(q, f) => Mapped(q, f)

\* Following the links from either end finds the queues.
LEMMA LinksAreQueues == ShapesAreMapped
<1> SUFFICES ASSUME NEW q \in Queues, NEW f \in Seq(Slots), Shape(q, f)
             PROVE  Mapped(q, f)
  BY DEF ShapesAreMapped
<1>1. Separate(q, f) /\ LevelFields(q) /\ LinkFields(q, f) /\ WordFields(q) /\ Numbers(q, f)
  BY DEF Shape
<1>2. Len(f) <= NumSlots /\ \A l \in Levels : Len(q[l]) <= NumSlots
  BY <1>1, LengthsBounded
<1>3. \A s \in Slots : NextLinks[s] = cells[s].next /\ PrevLinks[s] = cells[s].prev
  BY DEF NextLinks, PrevLinks
<1>4. \A l \in Levels : q[l] \in Seq(Slots)
  BY DEF Queues
<1>5. \A l \in Levels : Queue(l) = q[l]
  <2> TAKE l \in Levels
  <2>1. heads[l] = At(q[l], 1)
    BY <1>1 DEF LevelFields
  <2>2. \A i \in 1 .. Len(q[l]) : NextLinks[q[l][i]] = At(q[l], i + 1)
    BY <1>1, <1>3, PlacesApart DEF LinkFields
  <2>3. Linked(q[l], heads[l], NextLinks)
    BY <2>1, <2>2 DEF Linked
  <2> QED BY <1>2, <1>4, <2>3, ChainOfQueue DEF Queue
<1>6. FreeList = f
  <2>1. freeHead = At(f, 1)
    BY <1>1 DEF LinkFields
  <2>2. \A i \in 1 .. Len(f) : PrevLinks[f[i]] = At(f, i + 1)
    BY <1>1, <1>3, PlacesApart DEF LinkFields
  <2>3. Linked(f, freeHead, PrevLinks)
    BY <2>1, <2>2 DEF Linked
  <2> QED BY <1>2, <2>3, ChainOfQueue DEF FreeList
<1>7. ASSUME NEW l \in Levels
      PROVE  Chain(tails[l], PrevLinks) = Reverse(q[l])
  <2>1. PICK n \in Nat : n = Len(q[l])
    BY <1>4, LenProperties
  <2>2. PICK r : r = Reverse(q[l])
    OBVIOUS
  <2>3. \A i \in 1 .. n : (n - i) + 1 \in 1 .. n /\ q[l][(n - i) + 1] \in Slots
    <3> TAKE i \in 1 .. n
    <3>1. (n - i) + 1 \in 1 .. n
      BY <2>1
    <3> QED BY <1>4, <2>1, <3>1, ElementOfSeq
  <2>4. r = [i \in 1 .. n |-> q[l][(n - i) + 1]]
    BY <2>1, <2>2 DEF Reverse
  <2>5. /\ r \in Seq(Slots) /\ Len(r) = n
        /\ \A i \in 1 .. n : r[i] = q[l][(n - i) + 1]
    BY <2>1, <2>3, <2>4
  <2>6. ASSUME NEW i \in 1 .. n + 1
        PROVE  At(r, i) = At(q[l], (n - i) + 1)
    <3>1. At(r, i) = IF i \in 1 .. n THEN r[i] ELSE nullptr
      BY <2>5 DEF At
    <3>2. At(q[l], (n - i) + 1) = IF (n - i) + 1 \in 1 .. n THEN q[l][(n - i) + 1] ELSE nullptr
      BY <2>1 DEF At
    <3>3. i \in 1 .. n <=> (n - i) + 1 \in 1 .. n
      BY <2>1
    <3> QED BY <2>5, <3>1, <3>2, <3>3
  <2>7. tails[l] = At(r, 1)
    <3>1. tails[l] = At(q[l], n)
      BY <1>1, <2>1 DEF LevelFields
    <3>2. 1 \in 1 .. n + 1 /\ (n - 1) + 1 = n
      BY <2>1
    <3> QED BY <2>6, <3>1, <3>2
  <2>8. \A i \in 1 .. Len(r) : PrevLinks[r[i]] = At(r, i + 1)
    <3> TAKE i \in 1 .. Len(r)
    <3>1. PICK k \in 1 .. n : k = (n - i) + 1 /\ r[i] = q[l][k]
      BY <2>3, <2>5
    <3>2. q[l][k] \in Slots /\ cells[q[l][k]].prev = At(q[l], k - 1)
      BY <1>1, <2>1, PlacesApart DEF LinkFields
    <3>3. i + 1 \in 1 .. n + 1 /\ (n - (i + 1)) + 1 = k - 1
      BY <2>5, <3>1
    <3>4. At(r, i + 1) = At(q[l], k - 1)
      BY <2>6, <3>3
    <3> QED BY <1>3, <3>1, <3>2, <3>4
  <2>9. Linked(r, tails[l], PrevLinks)
    BY <2>7, <2>8 DEF Linked
  <2> QED BY <1>2, <2>1, <2>2, <2>5, <2>9, ChainOfQueue
<1>8. [l \in Levels |-> Queue(l)] = q
  BY <1>5 DEF Queues
<1> QED BY <1>1, <1>6, <1>7, <1>8 DEF Mapped, WordFields

\* A level reads the same backwards as forwards, whatever slots were reused.
THEOREM ListsSymmetric == Spec => []ListsReadBothWays
<1>1. StorageInv => ListsReadBothWays
  <2> SUFFICES ASSUME StorageInv, NEW l \in Levels
               PROVE  Chain(tails[l], PrevLinks) = Reverse(Queue(l))
    BY DEF ListsReadBothWays
  <2>1. PICK q \in Queues, f \in Seq(Slots) : Mapped(q, f)
    BY LinksAreQueues DEF StorageInv, ShapesAreMapped
  <2> QED BY <2>1 DEF Mapped
<1> QED BY <1>1, StorageInvariance, PTL

\* open_orders() is the number of slots in use and of orders linked.
THEOREM OpenOrdersCounted == Spec => []OpenOrdersExact
<1>1. StorageInv => OpenOrdersExact
  <2> SUFFICES ASSUME StorageInv PROVE OpenOrdersExact
    OBVIOUS
  <2>1. PICK q \in Queues, f \in Seq(Slots) : Shape(q, f)
    BY DEF StorageInv
  <2>2. Mapped(q, f)
    BY <2>1, LinksAreQueues DEF ShapesAreMapped
  <2>3. \A i \in 1 .. NumLevels : i - 1 \in Levels
    BY LengthsProperties
  <2>4. [i \in 1 .. NumLevels |-> Len(Queue(i - 1))] = Lengths(q)
    BY <2>2, <2>3 DEF Mapped, Lengths
  <2> QED BY <2>1, <2>2, <2>4 DEF Shape, Numbers, Mapped, OpenOrdersExact
<1> QED BY <1>1, StorageInvariance, PTL

\* The queues are what LevelQueues works on: an insertion joins the level it
\* is for, a removal leaves it from wherever it stands, and the set of levels
\* in the words is that of the queues that are not empty.
THEOREM RefinesLevelQueues == Spec => ImplementsLevelQueues
<1>1. Init => LQ!Init
  <2> SUFFICES ASSUME Init PROVE LQ!Init
    OBVIOUS
  <2>1. PICK q \in Queues, f \in Seq(Slots) :
          q = [l \in Levels |-> <<>>] /\ f = [i \in 1 .. NumSlots |-> i] /\ Shape(q, f)
    BY InitShape
  <2>2. Mapped(q, f)
    BY <2>1, LinksAreQueues DEF ShapesAreMapped
  <2>3. SetLevels = {}
    BY <2>1, <2>2 DEF Mapped
  <2> QED BY <2>1, <2>2, <2>3 DEF Mapped, LQ!Init, Levels, LQ!Levels
<1>2. StorageInv /\ [Next]_vars => [LQ!Next]_(LQ!vars)
  <2> SUFFICES ASSUME StorageInv, [Next]_vars PROVE [LQ!Next]_(LQ!vars)
    OBVIOUS
  <2>1. PICK q \in Queues, f \in Seq(Slots) : Shape(q, f)
    BY DEF StorageInv
  <2>2. Mapped(q, f)
    BY <2>1, LinksAreQueues DEF ShapesAreMapped
  <2>3. ShapesAreMapped'
    BY LinksAreQueues, PTL
  <2>4. \A q2 \in Queues, f2 \in Seq(Slots) : Shape(q2, f2)' => Mapped(q2, f2)'
    BY <2>3 DEF ShapesAreMapped
  <2>5. ASSUME NEW l \in Levels, InsertResting(l)
        PROVE  LQ!Next
    <3>1. PICK q2 : q2 = [q EXCEPT ![l] = Append(q[l], Head(f))]
      OBVIOUS
    <3>2. PICK f2 : f2 = Tail(f)
      OBVIOUS
    <3>3. f # <<>> /\ q2 \in Queues /\ f2 \in Seq(Slots) /\ Shape(q2, f2)'
      BY <2>1, <2>5, <3>1, <3>2, InsertShape
    <3>4. Mapped(q2, f2)'
      BY <2>4, <3>3
    <3>5. LQ!Join(l)
      BY <2>2, <3>1, <3>2, <3>3, <3>4
      DEF Mapped, LQ!Join, LQ!Occupied, LQ!Levels, Levels
    <3> QED BY <3>5 DEF LQ!Next, LQ!Levels, Levels
  <2>6. ASSUME NEW s \in live, RemoveFromBook(s)
        PROVE  LQ!Next
    <3>1. PICK l \in Levels, i \in 1 .. Len(q[level[s]]) :
            l = level[s] /\ s = q[l][i] /\ s \in Slots
      BY <2>1, LiveIsLinked DEF Shape
    <3>2. i \in 1 .. Len(q[l])
      BY <3>1
    <3>3. PICK q2 : q2 = [q EXCEPT ![l] = RemoveAt(q[l], i)]
      OBVIOUS
    <3>4. PICK f2 : f2 = <<s>> \o f
      OBVIOUS
    <3>5. q2 \in Queues /\ f2 \in Seq(Slots) /\ Shape(q2, f2)'
      BY <2>1, <2>6, <3>1, <3>2, <3>3, <3>4, RemoveShape
    <3>6. Mapped(q2, f2)'
      BY <2>4, <3>5
    <3>7. LQ!Leave(l, i)
      <4>1. [k \in Levels |-> Queue(k)]' = [q EXCEPT ![l] = RemoveAt(q[l], i)]
        BY <3>3, <3>6 DEF Mapped
      <4>2. FreeList' = <<q[l][i]>> \o f
        BY <3>1, <3>4, <3>6 DEF Mapped
      <4>3. SetLevels' = LQ!Occupied([k \in Levels |-> Queue(k)]')
        BY <3>6 DEF Mapped, LQ!Occupied, LQ!Levels, Levels
      <4>4. [k \in Levels |-> Queue(k)] = q /\ FreeList = f
        BY <2>2 DEF Mapped
      <4>5. LQ!RemoveAt(q[l], i) = RemoveAt(q[l], i)
        BY DEF LQ!RemoveAt, RemoveAt
      <4> QED BY <4>1, <4>2, <4>3, <4>4, <4>5 DEF LQ!Leave
    <3>8. DOMAIN q[l] = 1 .. Len(q[l])
      <4>1. q[l] \in Seq(Slots)
        BY DEF Queues
      <4> QED BY <4>1, LenProperties
    <3> QED BY <2>2, <3>2, <3>7, <3>8 DEF Mapped, LQ!Next, LQ!Levels, Levels
  <2>7. CASE UNCHANGED vars
    <3>1. Shape(q, f)'
      BY <2>1, <2>7, StutterShape
    <3>2. Mapped(q, f)'
      BY <2>4, <3>1
    <3> QED BY <2>2, <3>2 DEF Mapped, LQ!vars
  <2> QED BY <2>5, <2>6, <2>7 DEF Next
<1> QED BY <1>1, <1>2, StorageInvariance, PTL DEF Spec, ImplementsLevelQueues, LQ!Spec

=============================================================================

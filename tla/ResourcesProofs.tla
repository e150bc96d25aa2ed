--------------------------- MODULE ResourcesProofs ---------------------------
(* What holds of the images and the plans the threads match by, whatever tasks the *)
(* files make, for any directories, threads and loads: the bytes the cache counts   *)
(* are those of its plans, and a plan is made of the image it is used for.          *)
EXTENDS Resources, FiniteSetTheorems, SequenceTheorems, TLAPS

-----------------------------------------------------------------------------
(* Induction over the numbers, from the well-foundedness of inclusion.             *)

LEMMA Least ==
  ASSUME NEW T \in SUBSET Nat, T # {}
  PROVE  \E x \in T : \A y \in T : x <= y
<1>1. PICK n \in T : TRUE OBVIOUS
<1> DEFINE S == 0 .. n
           R == StrictSubsetOrdering(S)
           F == {0 .. k : k \in {m \in T : m <= n}}
<1>2. IsWellFoundedOn(R, SUBSET S)
  <2>1. IsFiniteSet(S)
    BY FS_Interval
  <2> HIDE DEF S
  <2>2. FiniteSubsetsOf(S) = SUBSET S
    BY <2>1, FS_FiniteSubsetsOfFinite
  <2> QED BY <2>2, FS_StrictSubsetOrderingWellFounded
<1>3. F \subseteq SUBSET S /\ F # {}
  BY <1>1
<1>4. \E x \in F : \A y \in F : ~(<<y, x>> \in R)
  <2> HIDE DEF R, F, S
  <2> QED BY <1>2, <1>3, WFMin
<1>5. PICK k \in {m \in T : m <= n} : \A y \in F : ~(<<y, 0 .. k>> \in R)
  BY <1>4
<1>6. ASSUME NEW y \in T, y < k
      PROVE  FALSE
  <2>1. 0 .. y \in F
    BY <1>5, <1>6
  <2>2. k \in 0 .. k /\ k \notin 0 .. y
    BY <1>5, <1>6
  <2>3. 0 .. y \subseteq 0 .. k /\ 0 .. k \subseteq S
    BY <1>5, <1>6
  <2>4. <<0 .. y, 0 .. k>> \in R
    BY <2>2, <2>3 DEF StrictSubsetOrdering
  <2> QED BY <2>1, <2>4, <1>5
<1> QED BY <1>5, <1>6

-----------------------------------------------------------------------------
(* The cache of the plans.                                                         *)

Weight(c, i) == PlanBytes(c.plans[c.lru[i]].image)

\* s[i] is what the first i of the list take together.
Sums(s, c) ==
  /\ s \in [0 .. Len(c.lru) -> Nat]
  /\ s[0] = 0
  /\ \A i \in 1 .. Len(c.lru) : s[i] = s[i - 1] + Weight(c, i)

\* The plans are those of the list, which names each once.
Listed(c) ==
  /\ c = [plans |-> c.plans, lru |-> c.lru, total |-> c.total, revision |-> c.revision]
  /\ c.plans = [k \in DOMAIN c.plans |-> c.plans[k]]
  /\ \A k \in DOMAIN c.plans : c.plans[k].image \in Images
  /\ c.lru \in Seq(DOMAIN c.plans)
  /\ \A k \in DOMAIN c.plans : \E i \in 1 .. Len(c.lru) : c.lru[i] = k
  /\ \A i, j \in 1 .. Len(c.lru) : c.lru[i] = c.lru[j] => i = j
Counted(c) == \E s : Sums(s, c) /\ c.total = s[Len(c.lru)]
Bounded(c) == c.total <= MaxBytes \/ Len(c.lru) = 1
CacheInv(c) == Listed(c) /\ Counted(c) /\ Bounded(c)

\* Whatever a plan in the list takes is a number.
LEMMA WeightIsNat ==
  ASSUME NEW c, Listed(c), NEW i \in 1 .. Len(c.lru)
  PROVE  Weight(c, i) \in Nat
<1>1. c.lru[i] \in DOMAIN c.plans
  BY ElementOfSeq DEF Listed
<1> QED BY <1>1, BytesAssumption DEF Listed, Weight

LEMMA EmptyCacheInv ==
  ASSUME NEW c, c.plans = <<>>, c.lru = <<>>, c.total = 0,
         c = [plans |-> c.plans, lru |-> c.lru, total |-> c.total, revision |-> c.revision]
  PROVE  CacheInv(c)
<1>1. DOMAIN c.plans = {} /\ Len(c.lru) = 0
  OBVIOUS
<1>2. c.lru \in Seq(DOMAIN c.plans)
  BY EmptySeq
<1>3. c.plans = [k \in DOMAIN c.plans |-> c.plans[k]]
  BY <1>1
<1>4. Listed(c)
  BY <1>1, <1>2, <1>3 DEF Listed
<1>5. Sums([i \in 0 .. 0 |-> 0], c)
  BY <1>1 DEF Sums
<1>6. Counted(c)
  <2>1. [i \in 0 .. 0 |-> 0][0] = 0
    OBVIOUS
  <2> QED BY <1>1, <1>5, <2>1 DEF Counted
<1>7. Bounded(c)
  BY MaxBytesAssumption DEF Bounded
<1> QED BY <1>4, <1>6, <1>7 DEF CacheInv

LEMMA SyncInv ==
  ASSUME NEW c, CacheInv(c), NEW revision
  PROVE  LET d == SyncCacheRevision(c, revision)
         IN CacheInv(d) /\ (d.plans = c.plans \/ DOMAIN d.plans = {})
<1>1. CASE c.revision = revision
  BY <1>1 DEF SyncCacheRevision
<1>2. CASE c.revision # revision
  <2> DEFINE d == [plans |-> <<>>, lru |-> <<>>, total |-> 0, revision |-> revision]
  <2>1. SyncCacheRevision(c, revision) = d
    BY <1>2 DEF SyncCacheRevision, EmptyCache
  <2>2. CacheInv(d)
    <3>1. /\ d.plans = <<>> /\ d.lru = <<>> /\ d.total = 0
          /\ d = [plans |-> d.plans, lru |-> d.lru, total |-> d.total, revision |-> d.revision]
      OBVIOUS
    <3> HIDE DEF d
    <3> QED BY <3>1, EmptyCacheInv
  <2> QED BY <2>1, <2>2
<1> QED BY <1>1, <1>2

\* A place of a list made its first: the list that is written, and what it is.
Moved(q, i) == <<q[i]>> \o SubSeq(q, 1, i - 1) \o SubSeq(q, i + 1, Len(q))
FrontOf(r, q, i, S) ==
  /\ r \in Seq(S) /\ Len(r) = Len(q)
  /\ \A j \in 1 .. Len(q) : r[j] = IF j = 1 THEN q[i] ELSE IF j <= i THEN q[j - 1] ELSE q[j]

LEMMA MovedToFront ==
  ASSUME NEW S, NEW q \in Seq(S), NEW i \in 1 .. Len(q)
  PROVE  FrontOf(Moved(q, i), q, i, S)
<1> DEFINE a == <<q[i]>>
           b == SubSeq(q, 1, i - 1)
           d == SubSeq(q, i + 1, Len(q))
<1>1. q[i] \in S /\ Len(q) \in Nat /\ \A j \in 1 .. Len(q) : q[j] \in S
  BY ElementOfSeq
<1>2. a \in Seq(S) /\ Len(a) = 1 /\ a[1] = q[i]
  BY <1>1
<1>3. b \in Seq(S) /\ Len(b) = i - 1 /\ \A j \in 1 .. (i - 1) : b[j] = q[j]
  BY SubSeqProperties, <1>1
<1>4. d \in Seq(S) /\ Len(d) = Len(q) - i /\ \A j \in 1 .. (Len(q) - i) : d[j] = q[i + j]
  BY SubSeqProperties, <1>1
<1> HIDE DEF a, b, d
<1> DEFINE e == a \o b
           m == e \o d
<1>5. e \in Seq(S) /\ Len(e) = i /\ \A j \in 1 .. i : e[j] = IF j = 1 THEN q[i] ELSE q[j - 1]
  <2>1. /\ e \in Seq(S) /\ Len(e) = Len(a) + Len(b)
        /\ \A j \in 1 .. Len(a) + Len(b) : e[j] = IF j <= Len(a) THEN a[j] ELSE b[j - Len(a)]
    BY <1>2, <1>3, ConcatProperties
  <2> HIDE DEF e
  <2>2. Len(e) = i
    BY <2>1, <1>1, <1>2, <1>3
  <2>3. ASSUME NEW j \in 1 .. i
        PROVE  e[j] = IF j = 1 THEN q[i] ELSE q[j - 1]
    <3>1. CASE j = 1
      BY <3>1, <2>1, <1>1, <1>2, <1>3
    <3>2. CASE j # 1
      <4>1. e[j] = b[j - 1] /\ j - 1 \in 1 .. i - 1
        BY <3>2, <2>1, <1>1, <1>2, <1>3
      <4> QED BY <3>2, <4>1, <1>3
    <3> QED BY <3>1, <3>2
  <2> QED BY <2>1, <2>2, <2>3
<1> HIDE DEF e
<1>6. /\ m \in Seq(S) /\ Len(m) = Len(e) + Len(d)
      /\ \A j \in 1 .. Len(e) + Len(d) : m[j] = IF j <= Len(e) THEN e[j] ELSE d[j - Len(e)]
  <2>1. e \in Seq(S) /\ d \in Seq(S)
    BY <1>4, <1>5
  <2> QED BY <2>1, ConcatProperties
<1> HIDE DEF m
<1>7. Len(m) = Len(q)
  BY <1>6, <1>1, <1>4, <1>5
<1>8. ASSUME NEW j \in 1 .. Len(q)
      PROVE  m[j] = IF j = 1 THEN q[i] ELSE IF j <= i THEN q[j - 1] ELSE q[j]
  <2>1. CASE j <= i
    BY <2>1, <1>1, <1>4, <1>5, <1>6
  <2>2. CASE j > i
    <3>1. m[j] = d[j - i] /\ j - i \in 1 .. Len(q) - i
      BY <2>2, <1>1, <1>4, <1>5, <1>6
    <3>2. d[j - i] = q[i + (j - i)]
      BY <3>1, <1>4
    <3> QED BY <3>1, <3>2, <2>2, <1>1
  <2> QED BY <2>1, <2>2, <1>1
<1>9. m = Moved(q, i)
  BY DEF Moved, m, e, a, b, d
<1>10. FrontOf(m, q, i, S)
  BY <1>6, <1>7, <1>8 DEF FrontOf
<1> QED BY <1>9, <1>10

LEMMA TouchedInv ==
  ASSUME NEW c, CacheInv(c), NEW key \in DOMAIN c.plans
  PROVE  CacheInv(Touched(c, key)) /\ Touched(c, key).plans = c.plans
<1> DEFINE q == c.lru
           n == Len(q)
           i == CHOOSE j \in DOMAIN q : q[j] = key
           m == <<q[i]>> \o SubSeq(q, 1, i - 1) \o SubSeq(q, i + 1, Len(q))
           d == [plans |-> c.plans, lru |-> m, total |-> c.total, revision |-> c.revision]
           from(j) == IF j = 1 THEN i ELSE IF j <= i THEN j - 1 ELSE j
<1>1. /\ Listed(c) /\ Counted(c) /\ Bounded(c)
      /\ q \in Seq(DOMAIN c.plans) /\ n \in Nat /\ DOMAIN q = 1 .. n
  BY DEF CacheInv, Listed
<1>2. i \in 1 .. n /\ q[i] = key
  BY <1>1 DEF Listed
<1>3. Touched(c, key) = d
  <2>1. c = [plans |-> c.plans, lru |-> c.lru, total |-> c.total, revision |-> c.revision]
    BY <1>1 DEF Listed
  <2>2. Touched(c, key) = [c EXCEPT !.lru = <<key>> \o SubSeq(@, 1, i - 1) \o SubSeq(@, i + 1, Len(@))]
    BY DEF Touched
  <2>3. Touched(c, key) = [c EXCEPT !.lru = m]
    BY <2>2, <1>2
  <2> HIDE DEF m
  <2> QED BY <2>1, <2>3
<1>4. m \in Seq(DOMAIN c.plans) /\ Len(m) = n /\ \A j \in 1 .. n : m[j] = q[from(j)]
  <2> HIDE DEF i
  <2>1. /\ m \in Seq(DOMAIN c.plans) /\ Len(m) = n
        /\ \A j \in 1 .. n : m[j] = IF j = 1 THEN q[i] ELSE IF j <= i THEN q[j - 1] ELSE q[j]
    <3>1. FrontOf(Moved(q, i), q, i, DOMAIN c.plans)
      BY <1>1, <1>2, MovedToFront
    <3>2. m = Moved(q, i)
      BY DEF Moved
    <3> HIDE DEF m
    <3> QED BY <3>1, <3>2 DEF FrontOf
  <2> HIDE DEF m
  <2> QED BY <2>1
<1> HIDE DEF i, m
<1>5. Listed(d)
  <2>1. ASSUME NEW k \in DOMAIN c.plans
        PROVE  \E j \in 1 .. n : m[j] = k
    <3>1. PICK j \in 1 .. n : q[j] = k
      BY <1>1 DEF Listed
    <3> DEFINE to == IF j = i THEN 1 ELSE IF j < i THEN j + 1 ELSE j
    <3>2. to \in 1 .. n /\ from(to) = j
      BY <1>1, <1>2
    <3> HIDE DEF to
    <3> QED BY <1>4, <3>1, <3>2
  <2>2. ASSUME NEW j \in 1 .. n, NEW k \in 1 .. n, m[j] = m[k]
        PROVE  j = k
    <3>1. from(j) \in 1 .. n /\ from(k) \in 1 .. n
      BY <1>1, <1>2
    <3>2. q[from(j)] = q[from(k)]
      BY <1>4, <2>2
    <3> HIDE DEF from
    <3>3. from(j) = from(k)
      BY <3>1, <3>2, <1>1 DEF Listed
    <3> QED BY <3>3, <1>1, <1>2 DEF from
  <2>3. /\ c.plans = [k \in DOMAIN c.plans |-> c.plans[k]]
        /\ \A k \in DOMAIN c.plans : c.plans[k].image \in Images
    BY <1>1 DEF Listed
  <2>4. /\ d = [plans |-> d.plans, lru |-> d.lru, total |-> d.total, revision |-> d.revision]
        /\ d.plans = c.plans /\ d.lru = m
    OBVIOUS
  <2> HIDE DEF d
  <2> QED BY <2>1, <2>2, <2>3, <2>4, <1>4 DEF Listed
<1>6. Counted(d)
  <2>1. PICK s : Sums(s, c) /\ c.total = s[n]
    BY <1>1 DEF Counted
  <2>2. /\ s \in [0 .. n -> Nat] /\ s[0] = 0
        /\ \A j \in 1 .. n : s[j] = s[j - 1] + Weight(c, j)
    BY <2>1 DEF Sums
  <2>3. \A j \in 1 .. n : Weight(c, j) \in Nat
    BY <1>1, WeightIsNat
  <2>4. \A j \in 1 .. n : Weight(d, j) = Weight(c, from(j))
    BY <1>4 DEF Weight
  <2> DEFINE r == [j \in 0 .. n |->
                     IF j = 0 THEN 0 ELSE IF j <= i THEN Weight(c, i) + s[j - 1] ELSE s[j]]
  <2>5. r \in [0 .. n -> Nat]
    <3>1. ASSUME NEW j \in 0 .. n
          PROVE  (IF j = 0 THEN 0 ELSE IF j <= i THEN Weight(c, i) + s[j - 1] ELSE s[j]) \in Nat
      <4>1. CASE j = 0
        BY <4>1
      <4>2. CASE j # 0 /\ j <= i
        <5>1. j - 1 \in 0 .. n
          BY <4>2, <1>1, <1>2
        <5>2. s[j - 1] \in Nat /\ Weight(c, i) \in Nat
          BY <5>1, <1>2, <2>2, <2>3
        <5> QED BY <4>2, <5>2
      <4>3. CASE j # 0 /\ ~(j <= i)
        BY <4>3, <2>2
      <4> QED BY <4>1, <4>2, <4>3
    <3> QED BY <3>1
  <2> i - 1 \in 0 .. n /\ s[i - 1] \in Nat /\ Weight(c, i) \in Nat /\ s[i] = s[i - 1] + Weight(c, i)
    <3>1. i - 1 \in 0 .. n
      BY <1>1, <1>2
    <3> QED BY <3>1, <1>2, <2>2, <2>3
  <2>6. r[0] = 0 /\ r[n] = s[n]
    <3>1. CASE i = n
      <4>1. r[n] = Weight(c, i) + s[n - 1] /\ r[0] = 0
        BY <3>1, <1>1, <1>2
      <4> HIDE DEF r
      <4> QED BY <3>1, <4>1
    <3>2. CASE i # n
      BY <3>2, <1>1, <1>2
    <3> QED BY <3>1, <3>2
  <2>7. ASSUME NEW j \in 1 .. n
        PROVE  r[j] = r[j - 1] + Weight(d, j)
    <3>1. CASE j = 1
      BY <3>1, <1>1, <1>2, <2>2, <2>3, <2>4
    <3>2. CASE j # 1 /\ j <= i
      <4>1. Weight(d, j) = Weight(c, j - 1)
        BY <3>2, <2>4
      <4>2. r[j] = Weight(c, i) + s[j - 1] /\ r[j - 1] = Weight(c, i) + s[j - 2]
        BY <3>2, <1>1, <1>2
      <4>3. j - 1 \in 1 .. n /\ j - 2 \in 0 .. n /\ (j - 1) - 1 = j - 2
        BY <3>2, <1>1, <1>2
      <4>4. s[j - 1] = s[(j - 1) - 1] + Weight(c, j - 1)
        BY <4>3, <2>2
      <4>5. s[j - 2] \in Nat /\ Weight(c, j - 1) \in Nat
        BY <4>3, <2>2, <2>3
      <4> HIDE DEF r
      <4> QED BY <4>1, <4>2, <4>3, <4>4, <4>5
    <3>3. CASE j > i
      <4>1. Weight(d, j) = Weight(c, j)
        BY <3>3, <1>1, <1>2, <2>4
      <4>2. r[j] = s[j] /\ r[j - 1] = IF j - 1 = i THEN Weight(c, i) + s[i - 1] ELSE s[j - 1]
        BY <3>3, <1>1, <1>2
      <4>3. s[j] = s[j - 1] + Weight(c, j)
        BY <2>2
      <4> HIDE DEF r
      <4> QED BY <4>1, <4>2, <4>3
    <3> QED BY <3>1, <3>2, <3>3, <1>1, <1>2
  <2>8. d.lru = m /\ d.total = c.total
    OBVIOUS
  <2> HIDE DEF r, d
  <2>9. Sums(r, d)
    BY <2>5, <2>6, <2>7, <2>8, <1>4 DEF Sums
  <2> QED BY <2>9, <2>6, <2>8, <2>1, <1>4 DEF Counted
<1>7. Bounded(d)
  BY <1>1, <1>4 DEF Bounded
<1> QED BY <1>3, <1>5, <1>6, <1>7 DEF CacheInv

\* What is left of a cache when the first k of its list are kept.
Prefix(c, s, k) ==
  [plans |-> [x \in DOMAIN c.plans \ {c.lru[j] : j \in k + 1 .. Len(c.lru)} |-> c.plans[x]],
   lru |-> SubSeq(c.lru, 1, k), total |-> s[k], revision |-> c.revision]

\* The first k of a list.
LEMMA FirstOfList ==
  ASSUME NEW S, NEW q \in Seq(S), NEW k \in 0 .. Len(q)
  PROVE  /\ SubSeq(q, 1, k) \in Seq(S)
         /\ Len(SubSeq(q, 1, k)) = k
         /\ \A j \in 1 .. k : SubSeq(q, 1, k)[j] = q[j]
<1>1. \A j \in 1 .. k : q[j] \in S
  BY ElementOfSeq
<1> QED BY <1>1, SubSeqProperties

LEMMA FirstAmong ==
  ASSUME NEW T, NEW q, NEW k \in Nat, \A j \in 1 .. k : q[j] \in T
  PROVE  SubSeq(q, 1, k) \in Seq(T)
BY SubSeqProperties

LEMMA PrefixListed ==
  ASSUME NEW c, Listed(c), NEW s, Sums(s, c), NEW k \in 0 .. Len(c.lru)
  PROVE  Listed(Prefix(c, s, k)) /\ Counted(Prefix(c, s, k))
<1> DEFINE q == c.lru
           n == Len(q)
           d == Prefix(c, s, k)
           Gone == {q[j] : j \in k + 1 .. n}
<1>1. q \in Seq(DOMAIN c.plans) /\ n \in Nat
  BY DEF Listed
<1> \A i, j \in 1 .. n : q[i] = q[j] => i = j
  BY DEF Listed
<1>2. /\ d = [plans |-> d.plans, lru |-> d.lru, total |-> d.total, revision |-> d.revision]
      /\ d.plans = [x \in DOMAIN c.plans \ Gone |-> c.plans[x]]
      /\ d.lru = SubSeq(q, 1, k) /\ d.total = s[k]
  BY DEF Prefix
<1>3. Len(d.lru) = k /\ \A j \in 1 .. k : d.lru[j] = q[j]
  BY <1>1, <1>2, FirstOfList
<1>4. \A j \in 1 .. k : q[j] \in DOMAIN c.plans \ Gone
  <2>1. \A j \in 1 .. n : q[j] \in DOMAIN c.plans
    BY <1>1, ElementOfSeq
  <2>2. ASSUME NEW j \in 1 .. k, NEW l \in k + 1 .. n
        PROVE  q[j] # q[l]
    <3>1. j \in 1 .. n /\ l \in 1 .. n /\ j # l
      BY <1>1
    <3> QED BY <3>1
  <2> QED BY <1>1, <2>1, <2>2
<1> HIDE DEF d
<1>5. d.lru \in Seq(DOMAIN d.plans)
  <2>1. DOMAIN d.plans = DOMAIN c.plans \ Gone
    BY <1>2
  <2>2. \A j \in 1 .. k : q[j] \in DOMAIN d.plans
    BY <2>1, <1>4
  <2>3. SubSeq(q, 1, k) \in Seq(DOMAIN d.plans)
    <3>1. k \in Nat
      BY <1>1
    <3> QED BY <3>1, <2>2, FirstAmong
  <2> QED BY <1>2, <2>3
<1>6. ASSUME NEW x \in DOMAIN d.plans
      PROVE  /\ d.plans[x].image \in Images
             /\ \E j \in 1 .. Len(d.lru) : d.lru[j] = x
  <2>1. x \in DOMAIN c.plans /\ x \notin Gone /\ d.plans[x] = c.plans[x]
    BY <1>2
  <2>2. PICK j \in 1 .. n : q[j] = x
    BY <2>1 DEF Listed
  <2>3. j \in 1 .. k
    BY <2>1, <2>2, <1>1
  <2> QED BY <2>1, <2>2, <2>3, <1>3 DEF Listed
<1>7. ASSUME NEW i \in 1 .. k, NEW j \in 1 .. k, d.lru[i] = d.lru[j]
      PROVE  i = j
  <2>1. i \in 1 .. n /\ j \in 1 .. n /\ q[i] = q[j]
    BY <1>1, <1>3, <1>7
  <2> QED BY <2>1
<1>8. d.plans = [x \in DOMAIN d.plans |-> d.plans[x]]
  BY <1>2
<1>9. Listed(d)
  BY <1>2, <1>3, <1>5, <1>6, <1>7, <1>8 DEF Listed
<1>10. Counted(d)
  <2> DEFINE r == [j \in 0 .. k |-> s[j]]
  <2>1. /\ s \in [0 .. n -> Nat] /\ s[0] = 0
        /\ \A j \in 1 .. n : s[j] = s[j - 1] + Weight(c, j)
    BY DEF Sums
  <2>2. r \in [0 .. k -> Nat] /\ r[0] = 0 /\ r[k] = s[k]
    BY <2>1, <1>1
  <2>3. ASSUME NEW j \in 1 .. k
        PROVE  r[j] = r[j - 1] + Weight(d, j)
    <3>1. Weight(d, j) = Weight(c, j)
      BY <1>2, <1>3, <1>4 DEF Weight
    <3>2. r[j] = s[j] /\ r[j - 1] = s[j - 1] /\ j \in 1 .. n
      BY <1>1
    <3> QED BY <3>1, <3>2, <2>1
  <2> HIDE DEF r
  <2>4. Sums(r, d)
    BY <2>2, <2>3, <1>3 DEF Sums
  <2> QED BY <2>2, <2>4, <1>2, <1>3 DEF Counted
<1> QED BY <1>9, <1>10 DEF d

LEMMA PrefixFull ==
  ASSUME NEW c, Listed(c), NEW s, c.total = s[Len(c.lru)]
  PROVE  Prefix(c, s, Len(c.lru)) = c
<1>1. c.lru \in Seq(DOMAIN c.plans) /\ Len(c.lru) \in Nat
  BY DEF Listed
<1>2. SubSeq(c.lru, 1, Len(c.lru)) = c.lru
  BY <1>1, SubSeqFull
<1>3. {c.lru[j] : j \in Len(c.lru) + 1 .. Len(c.lru)} = {}
  BY <1>1
<1>4. [x \in DOMAIN c.plans \ {c.lru[j] : j \in Len(c.lru) + 1 .. Len(c.lru)} |-> c.plans[x]] = c.plans
  BY <1>3 DEF Listed
<1> QED BY <1>2, <1>4 DEF Prefix, Listed

\* One round of the loop.
LEMMA PrefixVictim ==
  ASSUME NEW c, Listed(c), NEW s, Sums(s, c), NEW k \in 1 .. Len(c.lru)
  PROVE  WithoutVictim(Prefix(c, s, k)) = Prefix(c, s, k - 1)
<1> DEFINE q == c.lru
           n == Len(q)
           d == Prefix(c, s, k)
           Gone(l) == {q[j] : j \in l + 1 .. n}
<1>1. q \in Seq(DOMAIN c.plans) /\ n \in Nat /\ k \in 0 .. n /\ k - 1 \in 0 .. n
  BY DEF Listed
<1> \A i, j \in 1 .. n : q[i] = q[j] => i = j
  BY DEF Listed
<1>2. /\ d = [plans |-> d.plans, lru |-> d.lru, total |-> d.total, revision |-> d.revision]
      /\ d.plans = [x \in DOMAIN c.plans \ Gone(k) |-> c.plans[x]]
      /\ d.lru = SubSeq(q, 1, k) /\ d.total = s[k] /\ d.revision = c.revision
  BY DEF Prefix
<1>3. Len(d.lru) = k /\ d.lru[k] = q[k]
  BY <1>1, <1>2, FirstOfList
<1>4. q[k] \in DOMAIN c.plans \ Gone(k)
  <2>1. q[k] \in DOMAIN c.plans
    BY <1>1, ElementOfSeq
  <2>2. ASSUME NEW l \in k + 1 .. n
        PROVE  q[k] # q[l]
    <3>1. l \in 1 .. n /\ l # k
      BY <1>1
    <3> QED BY <3>1
  <2> QED BY <2>1, <2>2
<1>5. (DOMAIN c.plans \ Gone(k)) \ {q[k]} = DOMAIN c.plans \ Gone(k - 1)
  <2>1. k .. n = {k} \cup (k + 1 .. n)
    BY <1>1
  <2>2. Gone(k - 1) = {q[j] : j \in k .. n}
    BY <1>1
  <2>3. Gone(k - 1) = {q[k]} \cup Gone(k)
    BY <2>1, <2>2
  <2> HIDE DEF Gone
  <2> QED BY <2>3
<1> HIDE DEF d
<1>6. s[k] - PlanBytes(d.plans[q[k]].image) = s[k - 1]
  <2>1. s[k] = s[k - 1] + Weight(c, k) /\ s[k - 1] \in Nat
    BY <1>1 DEF Sums
  <2>2. Weight(c, k) = PlanBytes(d.plans[q[k]].image)
    BY <1>2, <1>4 DEF Weight
  <2>3. Weight(c, k) \in Nat
    BY WeightIsNat
  <2> QED BY <2>1, <2>2, <2>3
<1>7. SubSeq(d.lru, 1, k - 1) = SubSeq(q, 1, k - 1)
  <2> DEFINE p == SubSeq(q, 1, k - 1)
             r == SubSeq(d.lru, 1, k - 1)
  <2>1. p \in Seq(DOMAIN c.plans) /\ Len(p) = k - 1 /\ \A j \in 1 .. k - 1 : p[j] = q[j]
    <3>1. k - 1 \in 0 .. Len(q)
      BY <1>1
    <3> QED BY <3>1, <1>1, FirstOfList
  <2>2. d.lru \in Seq(DOMAIN c.plans) /\ \A j \in 1 .. k : d.lru[j] = q[j]
    <3>1. /\ SubSeq(q, 1, k) \in Seq(DOMAIN c.plans)
          /\ \A j \in 1 .. k : SubSeq(q, 1, k)[j] = q[j]
      BY <1>1, FirstOfList
    <3> QED BY <3>1, <1>2
  <2>3. k - 1 \in 0 .. Len(d.lru)
    BY <1>1, <1>3
  <2>4. r \in Seq(DOMAIN c.plans) /\ Len(r) = k - 1 /\ \A j \in 1 .. k - 1 : r[j] = d.lru[j]
    BY <2>2, <2>3, FirstOfList
  <2>5. \A j \in 1 .. k - 1 : j \in 1 .. k
    BY <1>1
  <2> HIDE DEF p, r
  <2>6. \A j \in 1 .. Len(r) : r[j] = p[j]
    BY <2>1, <2>2, <2>4, <2>5
  <2>7. r = p
    BY <2>1, <2>4, <2>6, SeqEqual
  <2> QED BY <2>7 DEF p, r
<1>8. WithoutVictim(d) =
        [plans |-> [x \in DOMAIN d.plans \ {q[k]} |-> d.plans[x]],
         lru |-> SubSeq(d.lru, 1, k - 1),
         total |-> d.total - PlanBytes(d.plans[q[k]].image), revision |-> d.revision]
  <2>1. WithoutVictim(d) =
          [d EXCEPT !.plans = [x \in DOMAIN @ \ {q[k]} |-> @[x]],
                    !.lru = SubSeq(@, 1, k - 1),
                    !.total = @ - PlanBytes(d.plans[q[k]].image)]
    BY <1>3 DEF WithoutVictim
  <2> QED BY <2>1, <1>2
<1>9. [x \in DOMAIN d.plans \ {q[k]} |-> d.plans[x]] = [x \in DOMAIN c.plans \ Gone(k - 1) |-> c.plans[x]]
  <2> HIDE DEF Gone
  <2> QED BY <1>2, <1>5
<1>10. WithoutVictim(d) =
        [plans |-> [x \in DOMAIN c.plans \ Gone(k - 1) |-> c.plans[x]],
         lru |-> SubSeq(q, 1, k - 1), total |-> s[k - 1], revision |-> c.revision]
  BY <1>2, <1>6, <1>7, <1>8, <1>9
<1> QED BY <1>10 DEF Prefix, d

\* What Evicted leaves: the plans used last, as many of them as leave room for
\* bytes, and the count of what they take.
LEMMA EvictedIsPrefix ==
  ASSUME NEW c, CacheInv(c), NEW bytes \in Nat
  PROVE  \E s : \E k \in 0 .. Len(c.lru) :
           /\ Sums(s, c) /\ Evicted(c, bytes) = Prefix(c, s, k)
           /\ k = 0 \/ s[k] + bytes <= MaxBytes
<1> DEFINE n == Len(c.lru)
<1>1. Listed(c) /\ c.lru \in Seq(DOMAIN c.plans) /\ n \in Nat
  BY DEF CacheInv, Listed
<1>2. PICK s : Sums(s, c) /\ c.total = s[n]
  BY DEF CacheInv, Counted
<1> DEFINE T == {r \in 0 .. n : r = n \/ s[n - r] + bytes <= MaxBytes}
<1>3. PICK m \in T : \A r \in T : m <= r
  <2>1. T \in SUBSET Nat /\ n \in T
    BY <1>1
  <2> HIDE DEF T
  <2> QED BY <2>1, Least
<1> DEFINE left(r) == IF r <= m THEN n - r ELSE n - m
           Next1(d) == IF d.total + bytes <= MaxBytes \/ d.lru = <<>> THEN d ELSE WithoutVictim(d)
           g == [r \in Nat |-> Prefix(c, s, left(r))]
<1>4. m \in 0 .. n /\ m \in Nat /\ n \in Nat /\ m <= n
  BY <1>1
<1>5. m = n \/ s[n - m] + bytes <= MaxBytes
  OBVIOUS
<1>left. \A r \in Nat : left(r) \in 0 .. n
  BY <1>4
<1> HIDE DEF T
<1>6. ASSUME NEW k \in 0 .. n
      PROVE  (Prefix(c, s, k).lru = <<>> <=> k = 0) /\ Prefix(c, s, k).total = s[k]
  <2>1. SubSeq(c.lru, 1, k) \in Seq(DOMAIN c.plans) /\ Len(SubSeq(c.lru, 1, k)) = k
    BY <1>1, FirstOfList
  <2>2. SubSeq(c.lru, 1, k) = <<>> <=> k = 0
    BY <2>1, EmptySeq
  <2> QED BY <2>2 DEF Prefix
<1>7. g[0] = c
  <2>1. left(0) = n
    BY <1>4
  <2> HIDE DEF left
  <2>2. g[0] = Prefix(c, s, n)
    BY <2>1
  <2> QED BY <2>2, <1>1, <1>2, PrefixFull
<1>8. ASSUME NEW r \in Nat \ {0}
      PROVE  g[r] = Next1(g[r - 1])
  <2>1. r - 1 \in Nat /\ left(r - 1) \in 0 .. n /\ left(r) \in 0 .. n
    <3>1. r - 1 \in Nat
      OBVIOUS
    <3> HIDE DEF left
    <3> QED BY <3>1, <1>left
  <2>2. g[r] = Prefix(c, s, left(r)) /\ g[r - 1] = Prefix(c, s, left(r - 1))
    BY <2>1
  <2>3. CASE r <= m
    <3>1. left(r - 1) = n - (r - 1) /\ left(r) = (n - (r - 1)) - 1
      BY <2>3, <1>4
    <3>2. r - 1 \in 0 .. n /\ r - 1 # n /\ ~(m <= r - 1) /\ n - (r - 1) \in 1 .. n
      BY <2>3, <1>4
    <3>3. ~(s[n - (r - 1)] + bytes <= MaxBytes)
      BY <3>2, <1>3 DEF T
    <3> DEFINE k == n - (r - 1)
    <3>4. k \in 1 .. n /\ k \in 0 .. n /\ k # 0
      BY <3>2
    <3> HIDE DEF k, left, g
    <3>5. Next1(Prefix(c, s, k)) = WithoutVictim(Prefix(c, s, k))
      BY <3>3, <3>4, <1>6 DEF k
    <3>6. WithoutVictim(Prefix(c, s, k)) = Prefix(c, s, k - 1)
      BY <3>4, <1>1, <1>2, PrefixVictim
    <3> HIDE DEF Next1
    <3>7. left(r - 1) = k /\ left(r) = k - 1
      BY <3>1 DEF k
    <3> QED BY <2>2, <3>5, <3>6, <3>7
  <2>4. CASE ~(r <= m)
    <3>1. left(r - 1) = n - m /\ left(r) = n - m /\ n - m \in 0 .. n /\ (m = n => n - m = 0)
      BY <2>4, <1>4
    <3>2. n - m = 0 \/ s[n - m] + bytes <= MaxBytes
      BY <3>1, <1>5
    <3> HIDE DEF left, g
    <3>3. Next1(Prefix(c, s, n - m)) = Prefix(c, s, n - m)
      BY <3>1, <3>2, <1>6
    <3> HIDE DEF Next1
    <3> QED BY <2>2, <3>1, <3>3
  <2> QED BY <2>3, <2>4
<1> DEFINE F(h) == [r \in Nat |-> IF r = 0 THEN c ELSE Next1(h[r - 1])]
<1>9. g = F(g)
  <2>1. g = [r \in Nat |-> g[r]]
    OBVIOUS
  <2>2. \A r \in Nat : g[r] = IF r = 0 THEN c ELSE Next1(g[r - 1])
    <3> HIDE DEF g, Next1
    <3> QED BY <1>7, <1>8
  <2>3. F(g) = [r \in Nat |-> g[r]]
    <3> HIDE DEF g, Next1
    <3> QED BY <2>2
  <2> HIDE DEF g, F
  <2> QED BY <2>1, <2>3
<1> DEFINE after == CHOOSE h : h = F(h)
<1>10. after = F(after)
  <2> HIDE DEF F, g
  <2> QED BY <1>9
<1>11. ASSUME NEW r \in Nat
       PROVE  after[r] = g[r]
  <2> DEFINE D == {i \in Nat : after[i] # g[i]}
  <2>1. ASSUME D # {}
        PROVE  FALSE
    <3>1. PICK x \in D : \A y \in D : x <= y
      <4>1. D \in SUBSET Nat
        OBVIOUS
      <4> HIDE DEF D
      <4> QED BY <2>1, <4>1, Least
    <3> HIDE DEF after, g, Next1
    <3>2. \A i \in Nat : after[i] = (IF i = 0 THEN c ELSE Next1(after[i - 1]))
      BY <1>10
    <3>3. CASE x = 0
      BY <3>1, <3>2, <3>3, <1>7
    <3>4. CASE x # 0
      <4>1. x \in Nat /\ x - 1 \in Nat /\ ~(x <= x - 1)
        BY <3>1, <3>4
      <4>2. after[x - 1] = g[x - 1]
        BY <4>1, <3>1
      <4>3. after[x] = Next1(after[x - 1]) /\ g[x] = Next1(g[x - 1])
        BY <3>2, <3>4, <4>1, <1>8
      <4> QED BY <4>2, <4>3, <3>1
    <3> QED BY <3>3, <3>4
  <2> HIDE DEF after, g
  <2> QED BY <2>1
<1>12. Evicted(c, bytes) = after[n]
  BY DEF Evicted
<1>13. after[n] = Prefix(c, s, n - m)
  <2>1. left(n) = n - m
    BY <1>4
  <2> HIDE DEF after, left
  <2> QED BY <1>1, <1>11, <2>1
<1>14. n - m \in 0 .. n /\ (n - m = 0 \/ s[n - m] + bytes <= MaxBytes)
  BY <1>4, <1>5
<1> HIDE DEF after
<1> QED BY <1>2, <1>12, <1>13, <1>14

\* A cache with one more plan, in front of its list.
Added(r, key, plan) ==
  [plans |-> [x \in {key} \cup DOMAIN r.plans |-> IF x = key THEN plan ELSE r.plans[x]],
   lru |-> <<key>> \o r.lru, total |-> r.total + PlanBytes(plan.image), revision |-> r.revision]

LEMMA AddedInv ==
  ASSUME NEW r, Listed(r), Counted(r), NEW key, key \notin DOMAIN r.plans,
         NEW plan, plan.image \in Images,
         Len(r.lru) = 0 \/ r.total + PlanBytes(plan.image) <= MaxBytes
  PROVE  CacheInv(Added(r, key, plan))
<1> DEFINE q == r.lru
           n == Len(q)
           K == {key} \cup DOMAIN r.plans
           m == <<key>> \o q
           d == Added(r, key, plan)
           bytes == PlanBytes(plan.image)
<1>1. q \in Seq(DOMAIN r.plans) /\ n \in Nat
  BY DEF Listed
<1>2. m \in Seq(K) /\ Len(m) = n + 1 /\ m[1] = key /\ \A j \in 1 .. n : m[j + 1] = q[j]
  <2>1. q \in Seq(K)
    BY <1>1, SeqMonotonic
  <2> DEFINE a == <<key>>
  <2>2. a \in Seq(K) /\ Len(a) = 1 /\ a[1] = key
    OBVIOUS
  <2> HIDE DEF a, K
  <2>3. /\ a \o q \in Seq(K) /\ Len(a \o q) = Len(a) + Len(q)
        /\ \A j \in 1 .. Len(a) + Len(q) :
             (a \o q)[j] = IF j <= Len(a) THEN a[j] ELSE q[j - Len(a)]
    BY <2>1, <2>2, ConcatProperties
  <2> DEFINE o == a \o q
  <2>4. /\ o \in Seq(K) /\ Len(o) = 1 + n
        /\ \A j \in 1 .. 1 + n : o[j] = IF j <= 1 THEN a[j] ELSE q[j - 1]
    BY <2>2, <2>3
  <2> HIDE DEF o
  <2>5. o[1] = key
    BY <2>2, <2>4, <1>1
  <2>6. ASSUME NEW j \in 1 .. n
        PROVE  o[j + 1] = q[j]
    <3>1. j + 1 \in 1 .. 1 + n /\ ~(j + 1 <= 1) /\ (j + 1) - 1 = j
      BY <1>1
    <3> QED BY <3>1, <2>4
  <2> QED BY <2>4, <2>5, <2>6, <1>1 DEF o, a
<1>3. /\ d = [plans |-> d.plans, lru |-> d.lru, total |-> d.total, revision |-> d.revision]
      /\ d.plans = [x \in K |-> IF x = key THEN plan ELSE r.plans[x]]
      /\ d.lru = m /\ d.total = r.total + bytes
  BY DEF Added
<1> HIDE DEF m, d
<1>4. \A j \in 1 .. n : q[j] \in DOMAIN r.plans
  BY <1>1, ElementOfSeq
<1>5. Listed(d)
  <2>1. ASSUME NEW x \in K
        PROVE  d.plans[x].image \in Images /\ \E j \in 1 .. n + 1 : m[j] = x
    <3>1. CASE x = key
      BY <3>1, <1>1, <1>2, <1>3
    <3>2. CASE x # key
      <4>1. d.plans[x] = r.plans[x] /\ x \in DOMAIN r.plans
        BY <3>2, <1>3
      <4>2. PICK j \in 1 .. n : q[j] = x
        BY <4>1 DEF Listed
      <4>3. m[j + 1] = x /\ j + 1 \in 1 .. n + 1
        BY <4>2, <1>1, <1>2
      <4> QED BY <4>1, <4>3 DEF Listed
    <3> QED BY <3>1, <3>2
  <2>2. \A i, j \in 1 .. n : q[i] = q[j] => i = j
    BY DEF Listed
  <2>3. ASSUME NEW j \in 1 .. n + 1, j # 1
        PROVE  m[j] # key /\ j - 1 \in 1 .. n /\ m[j] = q[j - 1]
    <3>1. j - 1 \in 1 .. n /\ (j - 1) + 1 = j
      BY <2>3, <1>1
    <3>2. m[j] = q[j - 1] /\ q[j - 1] \in DOMAIN r.plans
      BY <3>1, <1>2, <1>4
    <3> QED BY <3>1, <3>2
  <2>4. ASSUME NEW i \in 1 .. n + 1, NEW j \in 1 .. n + 1, m[i] = m[j]
        PROVE  i = j
    <3>1. CASE i = 1 \/ j = 1
      BY <3>1, <2>3, <2>4, <1>2
    <3>2. CASE i # 1 /\ j # 1
      <4>1. i - 1 = j - 1
        BY <3>2, <2>2, <2>3, <2>4
      <4> QED BY <4>1
    <3> QED BY <3>1, <3>2
  <2>5. d.plans = [x \in DOMAIN d.plans |-> d.plans[x]] /\ DOMAIN d.plans = K
    BY <1>3
  <2> HIDE DEF K
  <2> QED BY <1>2, <1>3, <2>1, <2>4, <2>5 DEF Listed
<1>6. bytes \in Nat
  BY BytesAssumption
<1>7. Counted(d)
  <2>1. PICK s : Sums(s, r) /\ r.total = s[n]
    BY DEF Counted
  <2>2. /\ s \in [0 .. n -> Nat] /\ s[0] = 0
        /\ \A j \in 1 .. n : s[j] = s[j - 1] + Weight(r, j)
    BY <2>1 DEF Sums
  <2> DEFINE t == [j \in 0 .. n + 1 |-> IF j = 0 THEN 0 ELSE bytes + s[j - 1]]
  <2> HIDE DEF bytes
  <2>3. t \in [0 .. n + 1 -> Nat]
    <3>1. ASSUME NEW j \in 0 .. n + 1, j # 0
          PROVE  bytes + s[j - 1] \in Nat
      <4>1. j - 1 \in 0 .. n
        BY <3>1, <1>1
      <4>2. s[j - 1] \in Nat
        BY <4>1, <2>2
      <4> QED BY <4>2, <1>6
    <3> QED BY <3>1
  <2>4. t[0] = 0 /\ t[n + 1] = s[n] + bytes
    <3>1. n + 1 \in 0 .. n + 1 /\ n + 1 # 0 /\ (n + 1) - 1 = n /\ n \in 0 .. n /\ 0 \in 0 .. n + 1
      BY <1>1
    <3>2. t[0] = 0 /\ t[n + 1] = bytes + s[n]
      BY <3>1
    <3>3. s[n] \in Nat
      BY <3>1, <2>2
    <3> HIDE DEF t
    <3> QED BY <3>2, <3>3, <1>6
  <2>5. ASSUME NEW j \in 1 .. n + 1
        PROVE  t[j] = t[j - 1] + Weight(d, j)
    <3>1. CASE j = 1
      <4>1. Weight(d, 1) = bytes
        BY <1>2, <1>3 DEF Weight, bytes
      <4>2. t[1] = bytes + s[0] /\ t[0] = 0
        BY <1>1
      <4> HIDE DEF t
      <4> QED BY <3>1, <4>1, <4>2, <2>2, <1>6
    <3>2. CASE j # 1
      <4>1. j - 1 \in 1 .. n /\ j - 2 \in 0 .. n /\ (j - 1) - 1 = j - 2 /\ (j - 1) + 1 = j /\ j - 1 # 0 /\ j # 0
        BY <3>2, <1>1
      <4>2. Weight(d, j) = Weight(r, j - 1)
        <5>1. m[j] = q[j - 1] /\ q[j - 1] \in DOMAIN r.plans
          BY <4>1, <1>2, <1>4
        <5> QED BY <5>1, <1>3 DEF Weight
      <4>3. t[j] = bytes + s[j - 1] /\ t[j - 1] = bytes + s[j - 2]
        BY <4>1, <1>1
      <4>4. s[j - 1] = s[j - 2] + Weight(r, j - 1)
        BY <4>1, <2>2
      <4>5. s[j - 2] \in Nat /\ Weight(r, j - 1) \in Nat
        BY <4>1, <2>2, WeightIsNat
      <4> HIDE DEF t
      <4> QED BY <4>2, <4>3, <4>4, <4>5, <1>6
    <3> QED BY <3>1, <3>2
  <2> HIDE DEF t
  <2>6. Sums(t, d)
    BY <2>3, <2>4, <2>5, <1>2, <1>3 DEF Sums
  <2> QED BY <2>1, <2>4, <2>6, <1>2, <1>3 DEF Counted
<1>8. Bounded(d)
  <2>1. CASE n = 0
    BY <2>1, <1>2, <1>3 DEF Bounded
  <2>2. CASE r.total + PlanBytes(plan.image) <= MaxBytes
    BY <2>2, <1>3 DEF Bounded
  <2> QED BY <2>1, <2>2
<1> QED BY <1>5, <1>7, <1>8 DEF CacheInv, d

LEMMA InsertedInv ==
  ASSUME NEW c, CacheInv(c), NEW key, key \notin DOMAIN c.plans, NEW plan, plan.image \in Images
  PROVE  LET d == Inserted(c, key, plan)
         IN /\ CacheInv(d)
            /\ \A x \in DOMAIN d.plans :
                 \/ x = key /\ d.plans[x] = plan
                 \/ x \in DOMAIN c.plans /\ d.plans[x] = c.plans[x]
<1> DEFINE bytes == PlanBytes(plan.image)
<1>1. bytes \in Nat /\ Listed(c) /\ c.lru \in Seq(DOMAIN c.plans) /\ Len(c.lru) \in Nat
  BY BytesAssumption DEF CacheInv, Listed
<1> HIDE DEF bytes
<1>2. PICK s : \E k \in 0 .. Len(c.lru) :
        /\ Sums(s, c) /\ Evicted(c, bytes) = Prefix(c, s, k)
        /\ k = 0 \/ s[k] + bytes <= MaxBytes
  BY <1>1, EvictedIsPrefix
<1>3. PICK k \in 0 .. Len(c.lru) :
        /\ Sums(s, c) /\ Evicted(c, bytes) = Prefix(c, s, k)
        /\ k = 0 \/ s[k] + bytes <= MaxBytes
  BY <1>2
<1> DEFINE r == Prefix(c, s, k)
<1>4. Listed(r) /\ Counted(r)
  BY <1>1, <1>3, PrefixListed
<1>5. /\ r = [plans |-> r.plans, lru |-> r.lru, total |-> r.total, revision |-> r.revision]
      /\ r.total = s[k] /\ DOMAIN r.plans \subseteq DOMAIN c.plans
      /\ \A x \in DOMAIN r.plans : r.plans[x] = c.plans[x]
  BY DEF Prefix
<1>6. Len(r.lru) = k
  BY <1>1, FirstOfList DEF Prefix
<1> HIDE DEF r
<1>7. Inserted(c, key, plan) = Added(r, key, plan)
  <2>1. Inserted(c, key, plan) =
          [r EXCEPT !.plans = [x \in {key} \cup DOMAIN @ |-> IF x = key THEN plan ELSE @[x]],
                    !.lru = <<key>> \o @, !.total = @ + bytes]
    BY <1>3 DEF Inserted, bytes, r
  <2> QED BY <2>1, <1>5 DEF Added, bytes
<1>8. CacheInv(Added(r, key, plan))
  BY <1>3, <1>4, <1>5, <1>6, AddedInv DEF bytes
<1>9. \A x \in DOMAIN Added(r, key, plan).plans :
        \/ x = key /\ Added(r, key, plan).plans[x] = plan
        \/ x \in DOMAIN c.plans /\ Added(r, key, plan).plans[x] = c.plans[x]
  BY <1>5 DEF Added
<1> QED BY <1>7, <1>8, <1>9

\* What CacheAccounted says of the cache.
LEMMA CacheInvAccounted ==
  ASSUME NEW c, CacheInv(c)
  PROVE  /\ ToSet(c.lru) = DOMAIN c.plans
         /\ Len(c.lru) = Cardinality(DOMAIN c.plans)
         /\ c.total = BytesOf(c)
         /\ c.total <= MaxBytes \/ Len(c.lru) = 1
<1> DEFINE q == c.lru
           n == Len(q)
<1>1. /\ q \in Seq(DOMAIN c.plans) /\ n \in Nat /\ DOMAIN q = 1 .. n
      /\ \A k \in DOMAIN c.plans : \E i \in 1 .. n : q[i] = k
      /\ \A i, j \in 1 .. n : q[i] = q[j] => i = j
  BY DEF CacheInv, Listed
<1>2. \A i \in 1 .. n : q[i] \in DOMAIN c.plans
  BY <1>1, ElementOfSeq
<1>3. ToSet(q) = DOMAIN c.plans
  <2>1. ToSet(q) = {q[i] : i \in 1 .. n}
    BY <1>1 DEF ToSet
  <2>2. {q[i] : i \in 1 .. n} \subseteq DOMAIN c.plans
    BY <1>2
  <2>3. DOMAIN c.plans \subseteq {q[i] : i \in 1 .. n}
    BY <1>1
  <2> QED BY <2>1, <2>2, <2>3
<1>4. n = Cardinality(DOMAIN c.plans)
  <2>1. q \in [1 .. n -> DOMAIN c.plans]
    BY <1>1, <1>2
  <2>2. q \in Bijection(1 .. n, DOMAIN c.plans)
    <3>1. IsInjective(q)
      BY <1>1 DEF IsInjective
    <3>2. \A k \in DOMAIN c.plans : \E i \in 1 .. n : q[i] = k
      BY <1>1
    <3> HIDE DEF q, n
    <3> QED BY <2>1, <3>1, <3>2 DEF Bijection, Injection, Surjection
  <2>3. ExistsBijection(1 .. n, DOMAIN c.plans)
    BY <2>2 DEF ExistsBijection
  <2> QED BY <2>3, <1>1, FS_CountingElements
<1>5. c.total = BytesOf(c)
  <2>1. PICK s : Sums(s, c) /\ c.total = s[n]
    BY DEF CacheInv, Counted
  <2> DEFINE F(h) == [i \in 0 .. n |-> IF i = 0 THEN 0 ELSE h[i - 1] + PlanBytes(c.plans[q[i]].image)]
             sum == CHOOSE h : h = F(h)
  <2>2. BytesOf(c) = sum[n]
    BY DEF BytesOf
  <2>3. s = F(s)
    BY <2>1, <1>1 DEF Sums, Weight
  <2>4. sum = F(sum)
    <3> HIDE DEF F
    <3> QED BY <2>3
  <2> HIDE DEF sum
  <2>5. ASSUME {i \in 0 .. n : sum[i] # s[i]} # {}
        PROVE  FALSE
    <3> DEFINE D == {i \in 0 .. n : sum[i] # s[i]}
    <3>1. PICK x \in D : \A y \in D : x <= y
      <4>1. D \in SUBSET Nat /\ D # {}
        BY <2>5, <1>1
      <4> HIDE DEF D
      <4> QED BY <4>1, Least
    <3>2. x \in 0 .. n /\ sum[x] # s[x]
      BY <3>1
    <3>3. CASE x = 0
      <4>1. sum[0] = 0 /\ s[0] = 0
        BY <2>3, <2>4, <1>1
      <4> QED BY <4>1, <3>2, <3>3
    <3>4. CASE x # 0
      <4>1. x - 1 \in 0 .. n /\ ~(x <= x - 1)
        BY <3>2, <3>4, <1>1
      <4>2. sum[x - 1] = s[x - 1]
        BY <4>1, <3>1
      <4>3. /\ sum[x] = sum[x - 1] + PlanBytes(c.plans[q[x]].image)
            /\ s[x] = s[x - 1] + PlanBytes(c.plans[q[x]].image)
        BY <2>3, <2>4, <3>2, <3>4
      <4> QED BY <4>2, <4>3, <3>2
    <3> QED BY <3>3, <3>4
  <2>6. sum[n] = s[n]
    BY <2>5, <1>1
  <2> QED BY <2>1, <2>2, <2>6
<1> QED BY <1>3, <1>4, <1>5 DEF CacheInv, Bounded

-----------------------------------------------------------------------------
(* The images, and what the threads and the plans hold of them.                    *)

\* The templates: what is found is one of the images, and what is read was found.
TemplOK(x) ==
  /\ x = [required |-> x.required, paths |-> x.paths, templs |-> x.templs, revision |-> x.revision]
  /\ x.revision \in Nat
  /\ \A n \in DOMAIN x.paths : x.paths[n] \in Images
  /\ \A n \in DOMAIN x.templs : x.templs[n] \in Images
  /\ DOMAIN x.templs \subseteq DOMAIN x.paths

\* A thread on its way through a match.
Shape(x) ==
  \/ x = Idle
  \/ x.at = "fetch" /\ x = [at |-> "fetch", templ |-> x.templ]
  \/ /\ x.at = "revision"
     /\ x = [at |-> "revision", templ |-> x.templ, image |-> x.image, fetched |-> x.fetched]
  \/ /\ x.at \in {"sync", "miss"}
     /\ x = [at |-> x.at, key |-> x.key, image |-> x.image, fetched |-> x.fetched]
  \/ /\ x.at \in {"find", "keep"}
     /\ x = [at |-> x.at, key |-> x.key, image |-> x.image, fetched |-> x.fetched,
             at_miss |-> x.at_miss]
  \/ /\ x.at = "match"
     /\ x = [at |-> "match", key |-> x.key, image |-> x.image, fetched |-> x.fetched,
             plan |-> x.plan]
     /\ x.plan.key = x.key
Keyed(x) ==
  x.at \notin {"idle", "fetch", "revision"} => x.key = <<x.key[1], x.key[2]>>
Threaded ==
  /\ thread = [t \in Threads |-> thread[t]]
  /\ \A t \in Threads : Shape(thread[t]) /\ Keyed(thread[t])

\* An image somebody holds, with the revision it was fetched under and its name.
Held(fetched, name, image) == [key |-> <<fetched, name>>, image |-> image]
HeldBy(x) ==
  IF x.at \in {"idle", "fetch"} THEN {}
  ELSE IF x.at = "revision" THEN {Held(x.fetched, x.templ, x.image)}
  ELSE IF x.at # "match" THEN {Held(x.fetched, x.key[2], x.image)}
  ELSE {Held(x.fetched, x.key[2], x.image), Held(x.plan.fetched, x.plan.key[2], x.plan.image)}
HeldIn(c) == {Held(c.plans[k].fetched, c.plans[k].key[2], c.plans[k].image) : k \in DOMAIN c.plans}
AllHeld == HeldIn(cache) \cup UNION {HeldBy(thread[t]) : t \in Threads}

\* A plan is found under the key it was made for.
PlansKeyed == \A k \in DOMAIN cache.plans : cache.plans[k].key = k
\* What is held was fetched before, and of what was fetched under the revision there
\* is now it is still the image.
HeldNow ==
  \A h \in AllHeld :
    /\ h.image \in Images /\ h.key[1] \in Nat /\ h.key[1] <= tr.revision
    /\ h.key[1] = tr.revision /\ h.key \notin replaced =>
         h.key[2] \in DOMAIN tr.templs /\ tr.templs[h.key[2]] = h.image
\* One name under one revision is one image.
HeldOnce ==
  \A g, h \in AllHeld : g.key = h.key /\ g.key \notin replaced => g.image = h.image

ImagesInv ==
  /\ inst \in Installations
  /\ TemplOK(tr) /\ CacheInv(cache) /\ Threaded /\ PlansKeyed /\ HeldNow /\ HeldOnce

-----------------------------------------------------------------------------
(* Loading.                                                                        *)

\* After it the images read so far are gone and there is a new revision, or they are
\* some of those there were; no path is lost.
After(old, new) ==
  /\ DOMAIN old.paths \subseteq DOMAIN new.paths
  /\ \/ new.revision = old.revision + 1
     \/ /\ new.revision = old.revision
        /\ \A n \in DOMAIN new.templs : n \in DOMAIN old.templs /\ new.templs[n] = old.templs[n]

LEMMA LocatedOK ==
  ASSUME NEW x, TemplOK(x), NEW files, files \subseteq Images, NEW b, NEW seen,
         NEW at \in FilesOf(files, Found(files, seen))
  PROVE  LET y == Located(x, files, b, seen, at)
         IN TemplOK(y) /\ y.revision = x.revision /\ After(x, y)
<1> DEFINE found == {n \in seen : Matching(files, n) # {}}
           moved == {n \in found : \/ n \notin DOMAIN x.paths \/ x.paths[n] # at[n]
                                   \/ b = "debug" /\ Ambiguous(files, n)}
           paths == [n \in found \cup DOMAIN x.paths |-> IF n \in found THEN at[n] ELSE x.paths[n]]
           templs == [n \in DOMAIN x.templs \ moved |-> x.templs[n]]
           y == [required |-> x.required, paths |-> paths, templs |-> templs, revision |-> x.revision]
<1>0. x = [required |-> x.required, paths |-> x.paths, templs |-> x.templs, revision |-> x.revision]
  BY DEF TemplOK
<1>1. Located(x, files, b, seen, at) = y
  <2>1. Located(x, files, b, seen, at) = [x EXCEPT !.paths = paths, !.templs = templs]
    BY DEF Located
  <2> HIDE DEF paths, templs
  <2> QED BY <1>0, <2>1
<1>2. \A n \in found : at[n] \in Images
  BY DEF FilesOf, Found
<1> HIDE DEF found, moved
<1>3. \A n \in DOMAIN y.paths : y.paths[n] \in Images
  BY <1>2 DEF TemplOK
<1>4. /\ \A n \in DOMAIN y.templs : n \in DOMAIN x.templs /\ y.templs[n] = x.templs[n]
      /\ DOMAIN x.paths \subseteq DOMAIN y.paths
  OBVIOUS
<1>5. /\ y = [required |-> y.required, paths |-> y.paths, templs |-> y.templs, revision |-> y.revision]
      /\ y.revision = x.revision
  OBVIOUS
<1> HIDE DEF y
<1> QED BY <1>1, <1>3, <1>4, <1>5 DEF TemplOK, After

LEMMA ReloadedOK ==
  ASSUME NEW x, TemplOK(x)
  PROVE  /\ TemplOK(Reloaded(x)) /\ Reloaded(x).revision = x.revision + 1
         /\ Reloaded(x).paths = x.paths
<1> DEFINE y == [required |-> x.required, paths |-> x.paths, templs |-> <<>>, revision |-> x.revision + 1]
<1>0. x = [required |-> x.required, paths |-> x.paths, templs |-> x.templs, revision |-> x.revision]
  BY DEF TemplOK
<1>1. Reloaded(x) = y
  <2> DEFINE next == x.revision + 1
             none == <<>>
  <2>1. Reloaded(x) = [x EXCEPT !.templs = none, !.revision = next]
    BY DEF Reloaded
  <2>2. y = [required |-> x.required, paths |-> x.paths, templs |-> none, revision |-> next]
    OBVIOUS
  <2> HIDE DEF next, none, y
  <2> QED BY <1>0, <2>1, <2>2
<1>2. DOMAIN y.templs = {}
  OBVIOUS
<1>3. /\ y = [required |-> y.required, paths |-> y.paths, templs |-> y.templs, revision |-> y.revision]
      /\ y.paths = x.paths /\ y.revision = x.revision + 1
  OBVIOUS
<1> HIDE DEF y
<1> QED BY <1>1, <1>2, <1>3 DEF TemplOK

LEMMA IndexedOK ==
  ASSUME NEW x, TemplOK(x), NEW files, files \subseteq Images
  PROVE  /\ TemplOK(Indexed(x, files)) /\ Indexed(x, files).revision = x.revision + 1
         /\ DOMAIN x.paths \subseteq DOMAIN Indexed(x, files).paths
<1> DEFINE rels == {f.rel : f \in files}
           paths == [r \in rels \cup DOMAIN x.paths |->
                       IF r \in rels THEN CHOOSE f \in files : f.rel = r ELSE x.paths[r]]
           y == [required |-> x.required, paths |-> paths, templs |-> x.templs, revision |-> x.revision]
<1>0. x = [required |-> x.required, paths |-> x.paths, templs |-> x.templs, revision |-> x.revision]
  BY DEF TemplOK
<1>1. Indexed(x, files) = Reloaded(y)
  <2>1. Indexed(x, files) = Reloaded([x EXCEPT !.paths = paths])
    BY DEF Indexed
  <2>2. [x EXCEPT !.paths = paths] = y
    <3> HIDE DEF paths
    <3> QED BY <1>0
  <2> QED BY <2>1, <2>2
<1>2. \A r \in DOMAIN y.paths : y.paths[r] \in Images
  <2> SUFFICES ASSUME NEW r \in rels \cup DOMAIN x.paths
               PROVE  paths[r] \in Images
    OBVIOUS
  <2>1. CASE r \in rels
    <3>1. PICK f \in files : f.rel = r
      BY <2>1
    <3> DEFINE h == CHOOSE g \in files : g.rel = r
    <3>2. h \in files
      BY <3>1
    <3>3. paths[r] = h
      BY <2>1
    <3> QED BY <3>2, <3>3
  <2>2. CASE r \notin rels
    BY <2>2 DEF TemplOK
  <2> QED BY <2>1, <2>2
<1>3. /\ y = [required |-> y.required, paths |-> y.paths, templs |-> y.templs, revision |-> y.revision]
      /\ y.templs = x.templs /\ y.revision = x.revision
      /\ DOMAIN x.paths \subseteq DOMAIN y.paths
  OBVIOUS
<1> HIDE DEF y
<1>4. TemplOK(y)
  BY <1>2, <1>3 DEF TemplOK
<1> QED BY <1>1, <1>3, <1>4, ReloadedOK

LEMMA TemplLoadsOK ==
  ASSUME NEW x, TemplOK(x), NEW files, files \subseteq Images, NEW b,
         NEW r \in TemplLoads(x, files, b)
  PROVE  /\ TemplOK(r.tr) /\ After(x, r.tr) /\ r.ok \in BOOLEAN
         /\ r.ok <=> r.tr.revision = x.revision + 1
<1>1. x.revision \in Nat
  BY DEF TemplOK
<1>2. CASE x.required = {}
  <2>1. r = [tr |-> Indexed(x, files), ok |-> TRUE]
    BY <1>2 DEF TemplLoads
  <2> QED BY <2>1, IndexedOK DEF After
<1>3. CASE x.required # {}
  <2> DEFINE bad == {n \in x.required : Ambiguous(files, n) \/ Unmatched(x, files, n)}
             result(seen, at) ==
               [tr |-> IF bad = {} THEN Reloaded(Located(x, files, b, seen, at))
                       ELSE Located(x, files, b, seen, at), ok |-> bad = {}]
  <2>0. PICK seen : \E at \in FilesOf(files, Found(files, seen)) : r = result(seen, at)
    BY <1>3 DEF TemplLoads
  <2>1. PICK at \in FilesOf(files, Found(files, seen)) : r = result(seen, at)
    BY <2>0
  <2> HIDE DEF bad
  <2> DEFINE y == Located(x, files, b, seen, at)
  <2>2. TemplOK(y) /\ y.revision = x.revision /\ After(x, y)
    BY LocatedOK
  <2> HIDE DEF y
  <2>3. CASE bad = {}
    <3>1. r.tr = Reloaded(y) /\ r.ok = TRUE
      BY <2>1, <2>3 DEF y
    <3> QED BY <3>1, <2>2, ReloadedOK DEF After
  <2>4. CASE bad # {}
    <3>1. r.tr = y /\ r.ok = FALSE
      BY <2>1, <2>4 DEF y
    <3>2. r.tr.revision # x.revision + 1
      BY <3>1, <2>2, <1>1
    <3>3. TemplOK(r.tr) /\ After(x, r.tr)
      BY <3>1, <2>2
    <3> QED BY <3>1, <3>2, <3>3
  <2> QED BY <2>3, <2>4
<1> QED BY <1>2, <1>3

LEMMA GetTemplOK ==
  ASSUME NEW x, TemplOK(x), NEW name, TemplOf(x, name) # NoImage
  PROVE  LET y == GetTempl(x, name)
             image == TemplOf(x, name)
         IN /\ TemplOK(y) /\ y.revision = x.revision /\ image \in Images
            /\ name \in DOMAIN y.templs /\ y.templs[name] = image
            /\ \A n \in DOMAIN x.templs : n \in DOMAIN y.templs /\ y.templs[n] = x.templs[n]
            /\ y.paths = x.paths /\ DOMAIN y.templs = {name} \cup DOMAIN x.templs
<1> DEFINE templs == [n \in {name} \cup DOMAIN x.templs |-> TemplOf(x, n)]
           y == [required |-> x.required, paths |-> x.paths, templs |-> templs, revision |-> x.revision]
<1>0. x = [required |-> x.required, paths |-> x.paths, templs |-> x.templs, revision |-> x.revision]
  BY DEF TemplOK
<1>1. GetTempl(x, name) = y
  <2>1. GetTempl(x, name) = [x EXCEPT !.templs = templs]
    BY DEF GetTempl
  <2> HIDE DEF templs
  <2> QED BY <1>0, <2>1
<1>2. \A n \in DOMAIN x.templs : TemplOf(x, n) = x.templs[n]
  BY DEF TemplOf
<1>3. TemplOf(x, name) \in Images
  BY DEF TemplOf, TemplOK
<1>4. y.templs[name] = TemplOf(x, name) /\ DOMAIN y.templs = {name} \cup DOMAIN x.templs
  OBVIOUS
<1>5. \A n \in DOMAIN x.templs : y.templs[n] = x.templs[n]
  BY <1>2
<1>6. /\ y = [required |-> y.required, paths |-> y.paths, templs |-> y.templs, revision |-> y.revision]
      /\ y.paths = x.paths /\ y.revision = x.revision
  OBVIOUS
<1> HIDE DEF y
<1>7. \A n \in DOMAIN y.templs : y.templs[n] \in Images
  BY <1>3, <1>4, <1>5 DEF TemplOK
<1>8. TemplOK(y)
  <2>1. name \in DOMAIN x.paths
    BY DEF TemplOf, TemplOK
  <2> QED BY <1>4, <1>6, <1>7, <2>1 DEF TemplOK
<1> QED BY <1>1, <1>3, <1>4, <1>5, <1>6, <1>8

\* What a load has come to, from the templates there were.
Came(old, s) ==
  /\ TemplOK(s.tr) /\ After(old, s.tr)
  /\ Going(s) => s.tr.revision = old.revision + 1 \/ DOMAIN s.tr.templs = DOMAIN old.templs
Staged(s) == s = [gc |-> s.gc, td |-> s.td, tr |-> s.tr, result |-> s.result]

\* The stages before that of the templates leave them alone.
LEMMA ConfigKeepsTempl ==
  ASSUME NEW s, Staged(s), NEW dir
  PROVE  Staged(ConfigStage(s, dir)) /\ ConfigStage(s, dir).tr = s.tr
<1>1. ASSUME NEW x, Staged(x), NEW file
      PROVE  Staged(ConfigFile(x, file)) /\ ConfigFile(x, file).tr = x.tr
  <2> DEFINE p == ParseConfig(x.gc, file)
             result == IF p.ok THEN x.result ELSE Fail
  <2>0. x = [gc |-> x.gc, td |-> x.td, tr |-> x.tr, result |-> x.result]
    BY <1>1 DEF Staged
  <2>1. \/ ConfigFile(x, file) = x
        \/ ConfigFile(x, file) = [x EXCEPT !.result = "false"]
        \/ ConfigFile(x, file) = [x EXCEPT !.gc = p.gc, !.result = result]
    BY DEF ConfigFile
  <2> HIDE DEF p, result
  <2> QED BY <2>0, <2>1 DEF Staged
<1>2. CASE "config" \notin DOMAIN dir
  BY <1>2 DEF ConfigStage
<1>3. CASE "config" \in DOMAIN dir
  <2> DEFINE first == ConfigFile(s, dir.config)
             second == ConfigFile(first, dir.config_custom)
  <2>1. Staged(first) /\ first.tr = s.tr
    BY <1>1
  <2>2. ConfigStage(s, dir) \in {first, second}
    BY <1>3 DEF ConfigStage
  <2> HIDE DEF first
  <2>3. Staged(second) /\ second.tr = first.tr
    BY <1>1, <2>1
  <2> HIDE DEF second
  <2> QED BY <2>1, <2>2, <2>3
<1> QED BY <1>2, <1>3

LEMMA TasksKeepTempl ==
  ASSUME NEW s, Staged(s), NEW dir, NEW o \in TaskStage(s, dir)
  PROVE  Staged(o) /\ o.tr = s.tr
<1>1. ASSUME NEW x, Staged(x), NEW files, NEW y \in TaskFiles(x, files)
      PROVE  Staged(y) /\ y.tr = x.tr
  <2>0. x = [gc |-> x.gc, td |-> x.td, tr |-> x.tr, result |-> x.result]
    BY <1>1 DEF Staged
  <2>1. CASE y = x
    BY <2>1, <1>1
  <2>2. CASE y # x
    <3> DEFINE next(r) == [x EXCEPT !.td = r.td, !.result = IF r.ok THEN @ ELSE "false"]
    <3>1. PICK r \in LoadTasks(x.td, files, build, MaxChecking) : y = next(r)
      BY <2>2, <1>1 DEF TaskFiles
    <3> DEFINE result == IF r.ok THEN x.result ELSE "false"
    <3>2. y = [x EXCEPT !.td = r.td, !.result = result]
      BY <3>1
    <3> HIDE DEF result
    <3> QED BY <2>0, <3>2 DEF Staged
  <2> QED BY <2>1, <2>2
<1>2. PICK f \in TaskFiles(s, dir.tasks) : o = f \/ o \in TaskFiles(f, {dir.tasks_custom})
  BY DEF TaskStage
<1>3. Staged(f) /\ f.tr = s.tr
  BY <1>1
<1> QED BY <1>1, <1>2, <1>3

LEMMA TemplateCame ==
  ASSUME NEW s, Staged(s), TemplOK(s.tr), NEW dir,
         "template" \in DOMAIN dir => dir.template \subseteq Images,
         NEW o \in TemplateStage(s, dir)
  PROVE  Came(s.tr, o)
<1>1. s.tr.revision \in Nat
  BY DEF TemplOK
<1>2. Came(s.tr, s)
  BY DEF Came, After
<1>3. CASE o # s
  <2> DEFINE next(r) == [s EXCEPT !.tr = r.tr, !.result = IF r.ok THEN @ ELSE "false"]
             x == SetLoadRequired(s.tr, s.td.required)
  <2>1. PICK r \in TemplLoads(x, dir.template, build) : o = next(r)
    BY <1>3 DEF TemplateStage
  <2>2. "template" \in DOMAIN dir
    BY <1>3 DEF TemplateStage
  <2>3. /\ x = [required |-> x.required, paths |-> x.paths, templs |-> x.templs, revision |-> x.revision]
        /\ x.paths = s.tr.paths /\ x.templs = s.tr.templs /\ x.revision = s.tr.revision
    <3> DEFINE required == s.td.required
               y == s.tr
    <3>1. y = [required |-> y.required, paths |-> y.paths, templs |-> y.templs, revision |-> y.revision]
      BY DEF TemplOK
    <3>2. x = [y EXCEPT !.required = required]
      BY DEF SetLoadRequired
    <3> HIDE DEF required, y, x
    <3>3. /\ x = [required |-> x.required, paths |-> x.paths, templs |-> x.templs, revision |-> x.revision]
          /\ x.paths = y.paths /\ x.templs = y.templs /\ x.revision = y.revision
      BY <3>1, <3>2
    <3> QED BY <3>3 DEF y
  <2> HIDE DEF x
  <2>4. TemplOK(x)
    BY <2>3 DEF TemplOK
  <2>5. /\ TemplOK(r.tr) /\ After(x, r.tr) /\ r.ok \in BOOLEAN
        /\ r.ok <=> r.tr.revision = x.revision + 1
    BY <2>1, <2>2, <2>4, TemplLoadsOK
  <2>6. o.tr = r.tr /\ (Going(o) => r.ok)
    <3> DEFINE result == IF r.ok THEN s.result ELSE "false"
    <3>1. s = [gc |-> s.gc, td |-> s.td, tr |-> s.tr, result |-> s.result]
      BY DEF Staged
    <3>2. o = [s EXCEPT !.tr = r.tr, !.result = result]
      BY <2>1
    <3>3. result = "true" => r.ok
      BY <2>5
    <3> HIDE DEF result
    <3> QED BY <3>1, <3>2, <3>3 DEF Going
  <2>7. After(s.tr, r.tr)
    BY <2>3, <2>5 DEF After
  <2> QED BY <2>3, <2>5, <2>6, <2>7 DEF Came
<1> QED BY <1>2, <1>3

LEMMA LoadCame ==
  ASSUME NEW s, Staged(s), TemplOK(s.tr), NEW dir,
         "template" \in DOMAIN dir => dir.template \subseteq Images,
         NEW o \in Outcomes(s, dir)
  PROVE  Came(s.tr, o)
<1> DEFINE c == ConfigStage(s, dir)
<1>1. Staged(c) /\ c.tr = s.tr
  BY ConfigKeepsTempl
<1>2. o \in AfterConfig(c, dir)
  BY DEF Outcomes
<1> HIDE DEF c
<1>3. CASE o = c
  BY <1>1, <1>3 DEF Came, After
<1>4. CASE o # c
  <2>1. PICK t \in TaskStage(c, dir) : o \in TemplateStage(t, dir)
    BY <1>2, <1>4 DEF AfterConfig
  <2>2. Staged(t) /\ t.tr = s.tr
    BY <1>1, TasksKeepTempl
  <2>3. TemplOK(t.tr)
    BY <2>2
  <2>4. Came(t.tr, o)
    BY <2>1, <2>2, <2>3, TemplateCame
  <2> QED BY <2>2, <2>4
<1> QED BY <1>3, <1>4

-----------------------------------------------------------------------------
(* The steps.                                                                      *)

LEMMA InitImages == Init => ImagesInv
<1> SUFFICES ASSUME Init PROVE ImagesInv
  OBVIOUS
<1>1. tr = [required |-> {}, paths |-> <<>>, templs |-> <<>>, revision |-> 0]
  BY DEF Init, EmptyTempl
<1>2. TemplOK(tr)
  <2>1. DOMAIN tr.paths = {} /\ DOMAIN tr.templs = {}
    BY <1>1
  <2> QED BY <1>1, <2>1 DEF TemplOK
<1>3. cache = [plans |-> <<>>, lru |-> <<>>, total |-> 0, revision |-> 0]
  BY DEF Init, EmptyCache
<1>4. CacheInv(cache)
  <2>1. /\ cache.plans = <<>> /\ cache.lru = <<>> /\ cache.total = 0
        /\ cache = [plans |-> cache.plans, lru |-> cache.lru, total |-> cache.total,
                    revision |-> cache.revision]
    BY <1>3
  <2> QED BY <2>1, EmptyCacheInv
<1>5. thread = [t \in Threads |-> Idle] /\ inst \in Installations
  BY DEF Init
<1>6. Threaded
  BY <1>5 DEF Threaded, Shape, Keyed, Idle
<1>7. DOMAIN cache.plans = {}
  BY <1>3
<1>8. AllHeld = {}
  <2>1. HeldIn(cache) = {}
    BY <1>7 DEF HeldIn
  <2>2. \A t \in Threads : HeldBy(thread[t]) = {}
    BY <1>5 DEF HeldBy, Idle
  <2> QED BY <2>1, <2>2 DEF AllHeld
<1> QED BY <1>2, <1>4, <1>5, <1>6, <1>7, <1>8 DEF ImagesInv, PlansKeyed, HeldNow, HeldOnce

LEMMA GoesTo ==
  ASSUME Threaded, NEW t \in Threads, NEW next, Goes(t, next), Shape(next), Keyed(next)
  PROVE  /\ Threaded'
         /\ thread'[t] = next /\ \A u \in Threads : u # t => thread'[u] = thread[u]
<1>1. thread = [u \in Threads |-> thread[u]] /\ thread' = [thread EXCEPT ![t] = next]
  BY DEF Threaded, Goes
<1>2. thread'[t] = next /\ \A u \in Threads : u # t => thread'[u] = thread[u]
  BY <1>1
<1>3. thread' = [u \in Threads |-> thread'[u]]
  BY <1>1
<1>4. \A u \in Threads : Shape(thread'[u]) /\ Keyed(thread'[u])
  BY <1>2 DEF Threaded
<1> QED BY <1>2, <1>3, <1>4 DEF Threaded, Shape, Keyed

\* While the templates stay, nothing new may be held.
LEMMA StepHolds ==
  ASSUME ImagesInv, NEW t \in Threads, NEW next, Goes(t, next), Shape(next), Keyed(next),
         HeldBy(next) \subseteq AllHeld, HeldIn(cache') \subseteq AllHeld,
         CacheInv(cache'), PlansKeyed', UNCHANGED <<inst, tr, replaced>>
  PROVE  ImagesInv'
<1>1. /\ Threaded'
      /\ thread'[t] = next /\ \A u \in Threads : u # t => thread'[u] = thread[u]
  BY GoesTo DEF ImagesInv
<1>2. AllHeld' \subseteq AllHeld
  <2>1. \A u \in Threads : HeldBy(thread'[u]) \subseteq AllHeld
    <3>1. \A u \in Threads : HeldBy(thread[u]) \subseteq AllHeld
      BY DEF AllHeld
    <3> QED BY <1>1, <3>1
  <2>2. AllHeld' = HeldIn(cache') \cup UNION {HeldBy(thread'[u]) : u \in Threads}
    BY DEF AllHeld, HeldIn, HeldBy, Held
  <2> QED BY <2>1, <2>2
<1>3. HeldNow' /\ HeldOnce'
  <2>1. HeldNow /\ HeldOnce /\ tr' = tr /\ replaced' = replaced
    BY DEF ImagesInv
  <2> QED BY <1>2, <2>1 DEF HeldNow, HeldOnce
<1>4. TemplOK(tr) /\ inst \in Installations
  BY DEF ImagesInv
<1>5. (CacheInv(cache))' /\ (TemplOK(tr))'
  <2>1. (CacheInv(cache))'
    BY DEF CacheInv, Listed, Counted, Bounded, Sums, Weight
  <2>2. (TemplOK(tr))'
    BY <1>4 DEF TemplOK, Images
  <2> QED BY <2>1, <2>2
<1> QED BY <1>1, <1>3, <1>4, <1>5 DEF ImagesInv

\* What a thread holds, and what it does, while it is inside a match.
LEMMA Holds ==
  ASSUME ImagesInv, NEW t \in Threads
  PROVE  /\ Shape(thread[t]) /\ Keyed(thread[t]) /\ HeldBy(thread[t]) \subseteq AllHeld
         /\ HeldIn(cache) \subseteq AllHeld /\ CacheInv(cache) /\ PlansKeyed
BY DEF ImagesInv, Threaded, AllHeld

LEMMA ReadRevisionKeeps ==
  ASSUME ImagesInv, NEW t \in Threads, ReadRevision(t)
  PROVE  ImagesInv'
<1> DEFINE x == thread[t]
           key == <<tr.revision, x.templ>>
           next == [at |-> "sync", key |-> key, image |-> x.image, fetched |-> x.fetched]
<1>1. /\ Goes(t, next) /\ UNCHANGED <<inst, cache, shared>> /\ x.at = "revision"
  BY DEF ReadRevision, At
<1>2. Shape(next) /\ Keyed(next)
  BY DEF Shape, Keyed
<1>3. HeldBy(next) \subseteq AllHeld
  <2>1. HeldBy(next) = HeldBy(x)
    BY <1>1 DEF HeldBy
  <2> QED BY <2>1, Holds
<1> HIDE DEF next
<1>4. cache' = cache /\ UNCHANGED <<inst, tr, replaced>>
  BY <1>1 DEF shared
<1>5. HeldIn(cache') \subseteq AllHeld /\ CacheInv(cache') /\ PlansKeyed'
  BY <1>4, Holds DEF PlansKeyed
<1> QED BY <1>1, <1>2, <1>3, <1>4, <1>5, StepHolds

LEMMA SyncKeeps ==
  ASSUME ImagesInv, NEW t \in Threads, Sync(t)
  PROVE  ImagesInv'
<1> DEFINE x == thread[t]
           next == [at |-> "miss", key |-> x.key, image |-> x.image, fetched |-> x.fetched]
<1>1. /\ UNCHANGED <<inst, shared>> /\ x.at = "sync" /\ Goes(t, [x EXCEPT !.at = "miss"])
      /\ cache' = SyncCacheRevision(cache, x.key[1])
  BY DEF Sync, At
<1>2. Shape(x) /\ Keyed(x) /\ HeldBy(x) \subseteq AllHeld
  BY Holds
<1>3. Goes(t, next)
  <2>1. x = [at |-> x.at, key |-> x.key, image |-> x.image, fetched |-> x.fetched]
    BY <1>1, <1>2 DEF Shape, Idle
  <2>2. [x EXCEPT !.at = "miss"] = next
    BY <2>1
  <2> QED BY <1>1, <2>2
<1>4. Shape(next) /\ Keyed(next)
  BY <1>1, <1>2 DEF Shape, Keyed
<1>5. HeldBy(next) \subseteq AllHeld
  <2>1. HeldBy(next) = HeldBy(x)
    BY <1>1 DEF HeldBy
  <2> QED BY <2>1, <1>2
<1> HIDE DEF next
<1>6. CacheInv(cache') /\ (cache'.plans = cache.plans \/ DOMAIN cache'.plans = {})
  BY <1>1, Holds, SyncInv
<1>7. HeldIn(cache') \subseteq AllHeld /\ PlansKeyed'
  BY <1>6, Holds DEF HeldIn, PlansKeyed
<1>8. UNCHANGED <<inst, tr, replaced>>
  BY <1>1 DEF shared
<1> QED BY <1>3, <1>4, <1>5, <1>6, <1>7, <1>8, StepHolds

LEMMA ReadRevisionAtMissKeeps ==
  ASSUME ImagesInv, NEW t \in Threads, ReadRevisionAtMiss(t)
  PROVE  ImagesInv'
<1> DEFINE x == thread[t]
           next == [at |-> "find", key |-> x.key, image |-> x.image,
                    fetched |-> x.fetched, at_miss |-> cache.revision]
<1>1. /\ Goes(t, next) /\ UNCHANGED <<inst, cache, shared>> /\ x.at = "miss"
  BY DEF ReadRevisionAtMiss, At
<1>2. Shape(next) /\ Keyed(next)
  <2>1. Keyed(x)
    BY Holds
  <2> QED BY <2>1, <1>1 DEF Shape, Keyed
<1>3. HeldBy(next) \subseteq AllHeld
  <2>1. HeldBy(next) = HeldBy(x)
    BY <1>1 DEF HeldBy
  <2> QED BY <2>1, Holds
<1> HIDE DEF next
<1>4. cache' = cache /\ UNCHANGED <<inst, tr, replaced>>
  BY <1>1 DEF shared
<1>5. HeldIn(cache') \subseteq AllHeld /\ CacheInv(cache') /\ PlansKeyed'
  BY <1>4, Holds DEF PlansKeyed
<1> QED BY <1>1, <1>2, <1>3, <1>4, <1>5, StepHolds

\* A plan of the cache, or its own, in the hands of a thread.
LEMMA WithPlanHolds ==
  ASSUME ImagesInv, NEW t \in Threads, thread[t].at \in {"find", "keep"}, NEW plan,
         plan.key = thread[t].key,
         Held(plan.fetched, plan.key[2], plan.image) \in AllHeld
  PROVE  LET next == WithPlan(t, plan)
         IN Shape(next) /\ Keyed(next) /\ HeldBy(next) \subseteq AllHeld
<1> DEFINE x == thread[t]
           next == WithPlan(t, plan)
<1>1. next = [at |-> "match", key |-> x.key, image |-> x.image, fetched |-> x.fetched, plan |-> plan]
  BY DEF WithPlan
<1>2. Keyed(x) /\ HeldBy(x) \subseteq AllHeld
  BY Holds
<1>3. Held(x.fetched, x.key[2], x.image) \in AllHeld
  BY <1>2 DEF HeldBy
<1> HIDE DEF next
<1>4. /\ next.at = "match" /\ next.key = x.key /\ next.image = x.image /\ next.fetched = x.fetched
      /\ next.plan = plan
      /\ next = [at |-> "match", key |-> next.key, image |-> next.image,
                 fetched |-> next.fetched, plan |-> next.plan]
  BY <1>1
<1>5. Shape(next)
  BY <1>4 DEF Shape
<1>6. Keyed(next)
  BY <1>2, <1>4 DEF Keyed
<1>7. HeldBy(next) \subseteq AllHeld
  BY <1>3, <1>4 DEF HeldBy
<1> QED BY <1>5, <1>6, <1>7 DEF next

LEMMA FindKeeps ==
  ASSUME ImagesInv, NEW t \in Threads, Find(t)
  PROVE  ImagesInv'
<1> DEFINE x == thread[t]
<1>1. x.at = "find" /\ UNCHANGED <<inst, shared>>
  BY DEF Find, At
<1>2. UNCHANGED <<inst, tr, replaced>>
  BY <1>1 DEF shared
<1>3. Shape(x) /\ Keyed(x) /\ HeldBy(x) \subseteq AllHeld
  BY Holds
<1>4. CacheInv(cache) /\ PlansKeyed /\ HeldIn(cache) \subseteq AllHeld
  BY Holds
<1>5. CASE Cached(cache, x.key)
  <2> DEFINE plan == cache.plans[x.key]
             next == WithPlan(t, plan)
  <2>1. cache' = Touched(cache, x.key) /\ Goes(t, next) /\ x.key \in DOMAIN cache.plans
    BY <1>5 DEF Find, Cached
  <2>2. CacheInv(cache') /\ cache'.plans = cache.plans
    BY <2>1, <1>4, TouchedInv
  <2>3. HeldIn(cache') \subseteq AllHeld /\ PlansKeyed'
    BY <2>2, <1>4 DEF HeldIn, PlansKeyed
  <2>4. plan.key = x.key /\ Held(plan.fetched, plan.key[2], plan.image) \in AllHeld
    BY <2>1, <1>4 DEF PlansKeyed, HeldIn
  <2>5. Shape(next) /\ Keyed(next) /\ HeldBy(next) \subseteq AllHeld
    BY <2>4, <1>1, WithPlanHolds
  <2> HIDE DEF next
  <2> QED BY <2>1, <2>2, <2>3, <2>5, <1>2, StepHolds
<1>6. CASE ~Cached(cache, x.key)
  <2> DEFINE next == [at |-> "keep", key |-> x.key, image |-> x.image,
                      fetched |-> x.fetched, at_miss |-> x.at_miss]
  <2>1. cache' = cache /\ Goes(t, [x EXCEPT !.at = "keep"])
    BY <1>6 DEF Find
  <2>2. [x EXCEPT !.at = "keep"] = next
    <3>1. x = [at |-> x.at, key |-> x.key, image |-> x.image, fetched |-> x.fetched,
               at_miss |-> x.at_miss]
      BY <1>1, <1>3 DEF Shape, Idle
    <3> QED BY <3>1
  <2>3. Shape(next) /\ Keyed(next)
    BY <1>1, <1>3 DEF Shape, Keyed
  <2>4. HeldBy(next) \subseteq AllHeld
    <3>1. HeldBy(next) = HeldBy(x)
      BY <1>1 DEF HeldBy
    <3> QED BY <3>1, <1>3
  <2>5. Goes(t, next)
    BY <2>1, <2>2
  <2> HIDE DEF next
  <2>6. HeldIn(cache') \subseteq AllHeld /\ CacheInv(cache') /\ PlansKeyed'
    BY <2>1, <1>4 DEF PlansKeyed
  <2> QED BY <2>3, <2>4, <2>5, <2>6, <1>2, StepHolds
<1> QED BY <1>5, <1>6

LEMMA KeepKeeps ==
  ASSUME ImagesInv, NEW t \in Threads, Keep(t)
  PROVE  ImagesInv'
<1> DEFINE x == thread[t]
           plan == [image |-> x.image, fetched |-> x.fetched, key |-> x.key]
           k == Kept(cache, x.key, plan, x.at_miss)
           next == WithPlan(t, k.plan)
<1>1. x.at = "keep" /\ UNCHANGED <<inst, shared>> /\ cache' = k.cache /\ Goes(t, next)
  BY DEF Keep, At
<1>2. UNCHANGED <<inst, tr, replaced>>
  BY <1>1 DEF shared
<1>3. Keyed(x) /\ HeldBy(x) \subseteq AllHeld
  BY Holds
<1>4. CacheInv(cache) /\ PlansKeyed /\ HeldIn(cache) \subseteq AllHeld
  BY Holds
<1>5. plan.image = x.image /\ plan.fetched = x.fetched /\ plan.key = x.key
  OBVIOUS
<1> HIDE DEF plan
<1>6. Held(plan.fetched, plan.key[2], plan.image) \in AllHeld
  BY <1>1, <1>3, <1>5 DEF HeldBy
<1>7. /\ CacheInv(cache') /\ PlansKeyed' /\ HeldIn(cache') \subseteq AllHeld
      /\ k.plan.key = x.key
      /\ Held(k.plan.fetched, k.plan.key[2], k.plan.image) \in AllHeld
  <2>1. CASE Cached(cache, x.key)
    <3> DEFINE c == Touched(cache, x.key)
               own == cache.plans[x.key]
    <3>1. k = [cache |-> c, plan |-> own]
      BY <2>1 DEF Kept
    <3>2. x.key \in DOMAIN cache.plans
      BY <2>1 DEF Cached
    <3>3. CacheInv(c) /\ c.plans = cache.plans
      BY <3>2, <1>4, TouchedInv
    <3>4. own.key = x.key /\ Held(own.fetched, own.key[2], own.image) \in AllHeld
      BY <3>2, <1>4 DEF PlansKeyed, HeldIn
    <3>5. cache' = c /\ k.plan = own
      BY <1>1, <3>1
    <3> HIDE DEF c, own, k
    <3> QED BY <3>3, <3>4, <3>5, <1>4 DEF HeldIn, PlansKeyed
  <2>2. CASE ~Cached(cache, x.key) /\ cache.revision # x.at_miss
    <3>1. k = [cache |-> cache, plan |-> plan]
      BY <2>2 DEF Kept
    <3>2. cache' = cache /\ k.plan = plan
      BY <1>1, <3>1
    <3> HIDE DEF k
    <3> QED BY <3>2, <1>4, <1>5, <1>6 DEF PlansKeyed
  <2>3. CASE ~Cached(cache, x.key) /\ cache.revision = x.at_miss
    <3> DEFINE c == Inserted(cache, x.key, plan)
    <3>1. k = [cache |-> c, plan |-> plan]
      BY <2>3 DEF Kept
    <3>2. plan.image \in Images
      <4>1. Held(plan.fetched, plan.key[2], plan.image).image = plan.image
        BY DEF Held
      <4> QED BY <4>1, <1>6 DEF ImagesInv, HeldNow
    <3>3. /\ CacheInv(c)
          /\ \A y \in DOMAIN c.plans :
               \/ y = x.key /\ c.plans[y] = plan
               \/ y \in DOMAIN cache.plans /\ c.plans[y] = cache.plans[y]
      BY <2>3, <3>2, <1>4, InsertedInv DEF Cached
    <3>4. cache' = c /\ k.plan = plan
      BY <1>1, <3>1
    <3> HIDE DEF c, k
    <3>5. \A y \in DOMAIN c.plans :
            /\ c.plans[y].key = y
            /\ Held(c.plans[y].fetched, c.plans[y].key[2], c.plans[y].image) \in AllHeld
      BY <3>3, <1>4, <1>5, <1>6 DEF PlansKeyed, HeldIn
    <3> QED BY <3>3, <3>4, <3>5, <1>5, <1>6 DEF HeldIn, PlansKeyed
  <2> QED BY <2>1, <2>2, <2>3
<1> HIDE DEF k
<1>8. Shape(next) /\ Keyed(next) /\ HeldBy(next) \subseteq AllHeld
  BY <1>1, <1>7, WithPlanHolds
<1> HIDE DEF next
<1> QED BY <1>1, <1>2, <1>7, <1>8, StepHolds

\* A thread that gives up what it holds, or only begins.
LEMMA BeginsKeeps ==
  ASSUME ImagesInv, NEW t \in Threads, Decline(t) \/ Match(t) \/ Ask(t)
  PROVE  ImagesInv'
<1>1. UNCHANGED <<inst, cache, tr, replaced>>
  BY DEF Decline, Match, Ask, shared
<1>2. PICK next : Goes(t, next) /\ (next = Idle \/ \E n : next = [at |-> "fetch", templ |-> n])
  <2>1. CASE Decline(t) \/ Match(t)
    BY <2>1 DEF Decline, Match
  <2>2. CASE Ask(t)
    <3>1. PICK n \in inst.asked :
            LET g == GetTask(td, n)
            IN Goes(t, IF Masked(g.task) THEN [at |-> "fetch", templ |-> g.task.templ] ELSE Idle)
      BY <2>2 DEF Ask
    <3> QED BY <3>1
  <2> QED BY <2>1, <2>2
<1>3. Shape(next) /\ Keyed(next) /\ HeldBy(next) = {}
  BY <1>2 DEF Shape, Keyed, HeldBy, Idle
<1>4. HeldIn(cache') \subseteq AllHeld /\ CacheInv(cache') /\ PlansKeyed'
  BY <1>1, Holds DEF PlansKeyed
<1> QED BY <1>1, <1>2, <1>3, <1>4, StepHolds

\* An image is held from here on.
LEMMA FetchKeeps ==
  ASSUME ImagesInv, NEW t \in Threads, Fetch(t)
  PROVE  ImagesInv'
<1> DEFINE x == thread[t]
           name == x.templ
           image == TemplOf(tr, name)
<1>1. UNCHANGED <<inst, cache, replaced>> /\ tr' = GetTempl(tr, name)
  BY DEF Fetch
<1>2. HeldIn(cache') \subseteq AllHeld /\ CacheInv(cache') /\ PlansKeyed' /\ TemplOK(tr)
  BY <1>1, Holds DEF PlansKeyed, ImagesInv
<1>3. CASE image = NoImage
  <2>1. Goes(t, Idle) /\ tr' = tr
    BY <1>1, <1>3 DEF Fetch, GetTempl
  <2>2. Shape(Idle) /\ Keyed(Idle) /\ HeldBy(Idle) = {}
    BY DEF Shape, Keyed, HeldBy, Idle
  <2> QED BY <1>1, <1>2, <2>1, <2>2, StepHolds
<1>4. CASE image # NoImage
  <2> DEFINE next == [at |-> "revision", templ |-> name, image |-> image, fetched |-> tr.revision]
             new == Held(tr.revision, name, image)
  <2>1. Goes(t, next)
    BY <1>4 DEF Fetch
  <2>2. Shape(next) /\ Keyed(next)
    BY DEF Shape, Keyed
  <2>3. HeldBy(next) = {new}
    BY DEF HeldBy
  <2> HIDE DEF next
  <2>4. /\ TemplOK(tr') /\ tr'.revision = tr.revision /\ image \in Images
        /\ name \in DOMAIN tr'.templs /\ tr'.templs[name] = image
        /\ \A n \in DOMAIN tr.templs : n \in DOMAIN tr'.templs /\ tr'.templs[n] = tr.templs[n]
    BY <1>1, <1>2, <1>4, GetTemplOK
  <2>5. new.key = <<tr.revision, name>> /\ new.image = image /\ tr.revision \in Nat
    BY <1>2 DEF Held, TemplOK
  <2> HIDE DEF new, image, name
  <2>6. /\ Threaded'
        /\ thread'[t] = next /\ \A u \in Threads : u # t => thread'[u] = thread[u]
    BY <2>1, <2>2, GoesTo DEF ImagesInv
  <2>7. AllHeld' \subseteq {new} \cup AllHeld
    <3>1. \A u \in Threads : HeldBy(thread[u]) \subseteq AllHeld
      BY DEF AllHeld
    <3>2. \A u \in Threads : HeldBy(thread'[u]) \subseteq {new} \cup AllHeld
      BY <2>3, <2>6, <3>1
    <3>3. AllHeld' = HeldIn(cache') \cup UNION {HeldBy(thread'[u]) : u \in Threads}
      BY DEF AllHeld, HeldIn, HeldBy, Held
    <3> QED BY <1>2, <3>2, <3>3
  <2>8. /\ \A h \in AllHeld :
             /\ h.image \in Images /\ h.key[1] \in Nat /\ h.key[1] <= tr.revision
             /\ h.key[1] = tr.revision /\ h.key \notin replaced =>
                  h.key[2] \in DOMAIN tr.templs /\ tr.templs[h.key[2]] = h.image
        /\ \A g, h \in AllHeld : g.key = h.key /\ g.key \notin replaced => g.image = h.image
    BY DEF ImagesInv, HeldNow, HeldOnce
  <2>9. HeldNow'
    <3> SUFFICES ASSUME NEW h \in {new} \cup AllHeld
                 PROVE  /\ h.image \in Images /\ h.key[1] \in Nat /\ h.key[1] <= tr'.revision
                        /\ h.key[1] = tr'.revision /\ h.key \notin replaced' =>
                             h.key[2] \in DOMAIN tr'.templs /\ tr'.templs[h.key[2]] = h.image
      BY <2>7 DEF HeldNow, Images
    <3>1. CASE h = new
      BY <3>1, <2>4, <2>5
    <3>2. CASE h \in AllHeld
      BY <3>2, <1>1, <2>4, <2>8
    <3> QED BY <3>1, <3>2
  <2>10. ASSUME NEW h \in AllHeld, h.key = new.key, h.key \notin replaced
         PROVE  h.image = image
    <3>1. h.key[1] = tr.revision /\ h.key[2] = name
      BY <2>10, <2>5
    <3>2. name \in DOMAIN tr.templs /\ tr.templs[name] = h.image
      BY <3>1, <2>8, <2>10
    <3> QED BY <3>2, <2>4
  <2>11. HeldOnce'
    <3> SUFFICES ASSUME NEW g \in {new} \cup AllHeld, NEW h \in {new} \cup AllHeld,
                        g.key = h.key, g.key \notin replaced
                 PROVE  g.image = h.image
      BY <2>7, <1>1 DEF HeldOnce
    <3>1. CASE g \in AllHeld /\ h \in AllHeld
      BY <3>1, <2>8
    <3>2. CASE g = new \/ h = new
      BY <3>2, <2>5, <2>10
    <3> QED BY <3>1, <3>2
  <2>12. (TemplOK(tr))' /\ (CacheInv(cache))' /\ (inst \in Installations)'
    <3>1. (TemplOK(tr))'
      BY <2>4 DEF TemplOK, Images
    <3>2. (CacheInv(cache))'
      BY <1>2 DEF CacheInv, Listed, Counted, Bounded, Sums, Weight
    <3> QED BY <3>1, <3>2, <1>1 DEF ImagesInv
  <2> QED BY <1>2, <2>6, <2>9, <2>11, <2>12 DEF ImagesInv
<1> QED BY <1>3, <1>4

\* What a load does to the templates.
LEMMA LoadBrings ==
  ASSUME ImagesInv, Load
  PROVE  /\ TemplOK(tr') /\ replaced \subseteq replaced' /\ tr.revision \in Nat
         /\ DOMAIN tr.paths \subseteq DOMAIN tr'.paths
         /\ \/ tr'.revision = tr.revision + 1
            \/ /\ tr'.revision = tr.revision
               /\ \A n \in DOMAIN tr.templs :
                    \/ n \in DOMAIN tr'.templs /\ tr'.templs[n] = tr.templs[n]
                    \/ <<tr.revision, n>> \in replaced'
<1> DEFINE s == [gc |-> gc, td |-> td, tr |-> tr, result |-> "true"]
<1>2. PICK dir \in inst.dirs : \E o \in Outcomes(s, dir) :
        tr' = o.tr /\ replaced' = IF Going(o) THEN replaced ELSE replaced \cup Dropped(o)
  BY DEF Load
<1>3. PICK o \in Outcomes(s, dir) :
        tr' = o.tr /\ replaced' = IF Going(o) THEN replaced ELSE replaced \cup Dropped(o)
  BY <1>2
<1>4. "template" \in DOMAIN dir => dir.template \subseteq Images
  BY <1>2 DEF ImagesInv, Images
<1>5. Staged(s) /\ s.tr = tr /\ TemplOK(tr)
  BY DEF Staged, ImagesInv
<1> HIDE DEF s
<1>6. Came(tr, o)
  <2>1. TemplOK(s.tr)
    BY <1>5
  <2>2. Came(s.tr, o)
    BY <1>3, <1>4, <1>5, <2>1, LoadCame
  <2> QED BY <1>5, <2>2
<1>p. DOMAIN tr.paths \subseteq DOMAIN tr'.paths
  BY <1>3, <1>6 DEF Came, After
<1>7. CASE tr'.revision = tr.revision + 1
  BY <1>7, <1>p, <1>3, <1>5, <1>6 DEF Came, TemplOK
<1>8. CASE tr'.revision # tr.revision + 1
  <2>1. /\ TemplOK(tr') /\ tr'.revision = tr.revision
        /\ \A n \in DOMAIN tr'.templs : n \in DOMAIN tr.templs /\ tr'.templs[n] = tr.templs[n]
    BY <1>8, <1>3, <1>6 DEF Came, After
  <2>2. CASE Going(o)
    <3>1. DOMAIN tr'.templs = DOMAIN tr.templs
      BY <1>8, <2>2, <1>3, <1>6 DEF Came
    <3> QED BY <1>p, <2>1, <2>2, <3>1, <1>3, <1>5 DEF TemplOK
  <2>3. CASE ~Going(o)
    <3>1. \A n \in DOMAIN tr.templs : n \notin DOMAIN tr'.templs => <<tr.revision, n>> \in replaced'
      BY <2>3, <1>3 DEF Dropped
    <3>2. replaced \subseteq replaced' /\ tr.revision \in Nat
      BY <2>3, <1>3, <1>5 DEF TemplOK
    <3> QED BY <1>p, <2>1, <3>1, <3>2
  <2> QED BY <2>2, <2>3
<1> QED BY <1>p, <1>7, <1>8

LEMMA LoadKeeps ==
  ASSUME ImagesInv, Load
  PROVE  ImagesInv'
<1>1. UNCHANGED <<inst, cache, thread>>
  BY DEF Load
<1>7. /\ TemplOK(tr') /\ replaced \subseteq replaced' /\ tr.revision \in Nat
      /\ \/ tr'.revision = tr.revision + 1
         \/ /\ tr'.revision = tr.revision
            /\ \A n \in DOMAIN tr.templs :
                 \/ n \in DOMAIN tr'.templs /\ tr'.templs[n] = tr.templs[n]
                 \/ <<tr.revision, n>> \in replaced'
  BY LoadBrings
<1>8. AllHeld' = AllHeld
  BY <1>1 DEF AllHeld, HeldIn, HeldBy, Held
<1>9. \A h \in AllHeld : h.key = <<h.key[1], h.key[2]>>
  <2>1. \A t \in Threads : \A h \in HeldBy(thread[t]) : h.key = <<h.key[1], h.key[2]>>
    BY DEF HeldBy, Held
  <2>2. \A h \in HeldIn(cache) : h.key = <<h.key[1], h.key[2]>>
    BY DEF HeldIn, Held
  <2> QED BY <2>1, <2>2 DEF AllHeld
<1>10. HeldNow'
  <2> SUFFICES ASSUME NEW h \in AllHeld
               PROVE  /\ h.image \in Images /\ h.key[1] \in Nat /\ h.key[1] <= tr'.revision
                      /\ h.key[1] = tr'.revision /\ h.key \notin replaced' =>
                           h.key[2] \in DOMAIN tr'.templs /\ tr'.templs[h.key[2]] = h.image
    BY <1>8 DEF HeldNow, Images
  <2>1. /\ h.image \in Images /\ h.key[1] \in Nat /\ h.key[1] <= tr.revision
        /\ h.key[1] = tr.revision /\ h.key \notin replaced =>
             h.key[2] \in DOMAIN tr.templs /\ tr.templs[h.key[2]] = h.image
    BY DEF ImagesInv, HeldNow
  <2>2. CASE tr'.revision = tr.revision + 1
    <3>1. h.key[1] <= tr'.revision /\ h.key[1] # tr'.revision
      BY <2>1, <2>2, <1>7
    <3> QED BY <2>1, <3>1
  <2>3. CASE tr'.revision # tr.revision + 1
    <3>1. tr'.revision = tr.revision
      BY <2>3, <1>7
    <3>2. ASSUME h.key[1] = tr.revision, h.key \notin replaced'
          PROVE  h.key[2] \in DOMAIN tr'.templs /\ tr'.templs[h.key[2]] = h.image
      <4>1. h.key[2] \in DOMAIN tr.templs /\ tr.templs[h.key[2]] = h.image
        BY <2>1, <3>2, <1>7
      <4>2. h.key = <<tr.revision, h.key[2]>>
        BY <1>9, <3>2
      <4> QED BY <4>1, <4>2, <3>2, <2>3, <1>7
    <3> QED BY <2>1, <3>1, <3>2
  <2> QED BY <2>2, <2>3
<1>11. HeldOnce'
  <2>1. HeldOnce
    BY DEF ImagesInv
  <2> QED BY <2>1, <1>7, <1>8 DEF HeldOnce
<1>12. (TemplOK(tr))' /\ (CacheInv(cache))' /\ Threaded' /\ PlansKeyed' /\ (inst \in Installations)'
  <2>1. (TemplOK(tr))'
    BY <1>7 DEF TemplOK, Images
  <2>2. (CacheInv(cache))'
    <3>1. CacheInv(cache')
      BY <1>1 DEF ImagesInv
    <3> QED BY <3>1 DEF CacheInv, Listed, Counted, Bounded, Sums, Weight
  <2>3. Threaded'
    BY <1>1 DEF Threaded, Shape, Keyed, ImagesInv
  <2> QED BY <2>1, <2>2, <2>3, <1>1 DEF PlansKeyed, ImagesInv
<1> QED BY <1>10, <1>11, <1>12 DEF ImagesInv

LEMMA NextKeeps == ImagesInv /\ [Next]_vars => ImagesInv'
<1> SUFFICES ASSUME ImagesInv, [Next]_vars PROVE ImagesInv'
  OBVIOUS
<1>1. CASE Load
  BY <1>1, LoadKeeps
<1>2. CASE UNCHANGED <<inst, tr, replaced, cache, thread>>
  <2>1. AllHeld' = AllHeld
    BY <1>2 DEF AllHeld, HeldIn, HeldBy, Held
  <2>2. (TemplOK(tr))' /\ (CacheInv(cache))' /\ Threaded'
    <3>1. CacheInv(cache') /\ TemplOK(tr')
      BY <1>2 DEF ImagesInv
    <3>2. (TemplOK(tr))'
      BY <3>1 DEF TemplOK, Images
    <3>3. (CacheInv(cache))'
      BY <3>1 DEF CacheInv, Listed, Counted, Bounded, Sums, Weight
    <3>4. Threaded'
      BY <1>2 DEF ImagesInv, Threaded, Shape, Keyed
    <3> QED BY <3>2, <3>3, <3>4
  <2> QED BY <1>2, <2>1, <2>2 DEF ImagesInv, PlansKeyed, HeldNow, HeldOnce, Images
<1>3. ASSUME NEW t \in Threads,
             \/ Ask(t) \/ Fetch(t) \/ Decline(t) \/ ReadRevision(t) \/ Sync(t)
             \/ ReadRevisionAtMiss(t) \/ Find(t) \/ Keep(t) \/ Match(t)
      PROVE  ImagesInv'
  BY <1>3, BeginsKeeps, FetchKeeps, ReadRevisionKeeps, SyncKeeps, ReadRevisionAtMissKeeps,
     FindKeeps, KeepKeeps
<1>4. CASE SetConnectionExtras
  BY <1>4, <1>2 DEF SetConnectionExtras
<1>5. CASE UNCHANGED vars
  BY <1>5, <1>2 DEF vars
<1> QED BY <1>1, <1>3, <1>4, <1>5 DEF Next

\* What is found is an image, so that there is one.
LEMMA FoundIsImage ==
  ASSUME NEW x, TemplOK(x), NEW n
  PROVE  (n \in DOMAIN x.paths <=> TemplOf(x, n) # NoImage)
<1>1. CASE n \in DOMAIN x.paths
  <2>1. TemplOf(x, n) \in Images
    BY <1>1 DEF TemplOf, TemplOK
  <2> QED BY <1>1, <2>1, NoImageAssumption
<1>2. CASE n \notin DOMAIN x.paths
  <2>1. TemplOf(x, n) = NoImage
    BY <1>2 DEF TemplOf, TemplOK
  <2> QED BY <1>2, <2>1
<1> QED BY <1>1, <1>2

LEMMA NextStaysFound ==
  ASSUME ImagesInv, [Next]_vars, NEW n \in DOMAIN tr.paths \cup DOMAIN tr.templs
  PROVE  /\ TemplOf(tr', n) # NoImage
         /\ n \in DOMAIN tr.templs /\ TemplOf(tr', n) # tr.templs[n] =>
              tr'.revision > tr.revision \/ <<tr.revision, n>> \in replaced'
<1>1. TemplOK(tr) /\ n \in DOMAIN tr.paths /\ tr.revision \in Nat
  BY DEF ImagesInv, TemplOK
<1>2. n \in DOMAIN tr.templs => TemplOf(tr, n) = tr.templs[n]
  BY DEF TemplOf
<1>3. TemplOf(tr, n) # NoImage
  BY <1>1, FoundIsImage
<1>4. CASE UNCHANGED tr
  BY <1>2, <1>3, <1>4
<1>5. CASE Load
  <2>1. /\ TemplOK(tr') /\ DOMAIN tr.paths \subseteq DOMAIN tr'.paths
        /\ \/ tr'.revision = tr.revision + 1
           \/ /\ tr'.revision = tr.revision
              /\ \A m \in DOMAIN tr.templs :
                   \/ m \in DOMAIN tr'.templs /\ tr'.templs[m] = tr.templs[m]
                   \/ <<tr.revision, m>> \in replaced'
    BY <1>5, LoadBrings
  <2>2. TemplOf(tr', n) # NoImage
    BY <1>1, <2>1, FoundIsImage
  <2>3. n \in DOMAIN tr'.templs => TemplOf(tr', n) = tr'.templs[n]
    BY DEF TemplOf
  <2>4. CASE tr'.revision = tr.revision + 1
    <3>1. tr'.revision > tr.revision
      BY <1>1, <2>4
    <3> QED BY <2>2, <3>1
  <2>5. CASE tr'.revision # tr.revision + 1
    BY <2>1, <2>2, <2>3, <2>5
  <2> QED BY <2>4, <2>5
<1>6. ASSUME NEW t \in Threads, Fetch(t)
      PROVE  TemplOf(tr', n) = TemplOf(tr, n)
  <2> DEFINE name == thread[t].templ
  <2>1. tr' = GetTempl(tr, name)
    BY <1>6 DEF Fetch
  <2> HIDE DEF name
  <2>2. CASE TemplOf(tr, name) = NoImage
    BY <2>1, <2>2 DEF GetTempl
  <2>3. CASE TemplOf(tr, name) # NoImage
    <3>1. /\ TemplOK(tr') /\ tr'.paths = tr.paths
          /\ name \in DOMAIN tr'.templs /\ tr'.templs[name] = TemplOf(tr, name)
          /\ \A m \in DOMAIN tr.templs : m \in DOMAIN tr'.templs /\ tr'.templs[m] = tr.templs[m]
      BY <1>1, <2>1, <2>3, GetTemplOK
    <3>2. CASE n \in DOMAIN tr'.templs
      <4>1. TemplOf(tr', n) = tr'.templs[n]
        BY <3>2 DEF TemplOf
      <4>2. DOMAIN tr'.templs = {name} \cup DOMAIN tr.templs
        BY <1>1, <2>1, <2>3, GetTemplOK
      <4>3. CASE n = name
        BY <3>1, <4>1, <4>3
      <4>4. CASE n \in DOMAIN tr.templs
        BY <1>2, <3>1, <4>1, <4>4
      <4> QED BY <3>2, <4>2, <4>3, <4>4
    <3>3. CASE n \notin DOMAIN tr'.templs
      <4>1. n \notin DOMAIN tr.templs
        BY <3>1, <3>3
      <4>2. TemplOf(tr, n) = tr.paths[n]
        BY <1>1, <4>1 DEF TemplOf
      <4>3. TemplOf(tr', n) = tr'.paths[n]
        BY <1>1, <3>1, <3>3 DEF TemplOf
      <4> QED BY <3>1, <4>2, <4>3
    <3> QED BY <3>2, <3>3
  <2> QED BY <2>2, <2>3
<1>7. ASSUME NEW t \in Threads,
             \/ Ask(t) \/ Decline(t) \/ ReadRevision(t) \/ Sync(t)
             \/ ReadRevisionAtMiss(t) \/ Find(t) \/ Keep(t) \/ Match(t)
      PROVE  UNCHANGED tr
  BY <1>7 DEF Ask, Decline, ReadRevision, Sync, ReadRevisionAtMiss, Find, Keep, Match, shared
<1>8. CASE SetConnectionExtras \/ UNCHANGED vars
  <2>1. UNCHANGED tr
    BY <1>8 DEF SetConnectionExtras, vars
  <2> QED BY <1>4, <2>1
<1>9. CASE \E t \in Threads : Fetch(t)
  BY <1>2, <1>3, <1>6, <1>9
<1> QED BY <1>4, <1>5, <1>7, <1>8, <1>9 DEF Next

-----------------------------------------------------------------------------
(* The theorems.                                                                   *)

\* The cache, TemplResource and the threads agree: the cache's list, bytes and plans
\* fit together, each plan lies under the key it was made for, and an image held
\* since a revision is that revision's image of the name (get_templ,
\* get_or_build_template_plan, TemplResource::load).
THEOREM ImagesHeld == Spec => []ImagesInv
<1>1. Init => ImagesInv
  BY InitImages
<1>2. ImagesInv /\ [Next]_vars => ImagesInv'
  BY NextKeeps
<1> QED BY <1>1, <1>2, PTL DEF Spec

LEMMA ImagesMatch == ImagesInv => PlanMatches
<1> SUFFICES ASSUME ImagesInv, NEW t \in Threads, thread[t].at = "match",
                    Timely(thread[t]), Timely(thread[t].plan), thread[t].key \notin replaced
             PROVE  thread[t].plan.image = thread[t].image
  BY DEF PlanMatches, At
<1> DEFINE x == thread[t]
           p == x.plan
           g == Held(x.fetched, x.key[2], x.image)
           h == Held(p.fetched, p.key[2], p.image)
<1>1. Shape(x) /\ Keyed(x) /\ HeldBy(x) \subseteq AllHeld
  BY Holds
<1>2. p.key = x.key /\ x.key = <<x.key[1], x.key[2]>>
  BY <1>1 DEF Shape, Keyed, Idle
<1>3. HeldBy(x) = {g, h}
  BY DEF HeldBy
<1>4. g \in AllHeld /\ h \in AllHeld
  BY <1>1, <1>3
<1>5. g.key = x.key /\ h.key = x.key /\ g.image = x.image /\ h.image = p.image
  BY <1>2 DEF Timely, Held
<1> HIDE DEF g, h
<1> QED BY <1>4, <1>5 DEF ImagesInv, HeldOnce

\* A masked match uses a plan made of the image it holds, for all directories,
\* loads, tasks and threads, but for the two ways out PlanMatches names: matchTemplate
\* of MaskedCcoeffMatcher with the image TemplResource::get_templ returned before.
THEOREM PlansMatch == Spec => []PlanMatches
BY ImagesHeld, ImagesMatch, PTL

\* The bytes the cache counts are those of its plans, its list names each plan once,
\* and it keeps its bound unless one plan alone is larger, for any bound and any
\* sizes: m_lru_list, m_template_plan_cache and m_cache_total_bytes after any
\* interleaving of finds, insertions and clearings.
THEOREM CacheAlwaysAccounted == Spec => []CacheAccounted
<1>1. ImagesInv => CacheAccounted
  BY CacheInvAccounted DEF ImagesInv, CacheAccounted
<1> QED BY <1>1, ImagesHeld, PTL

\* A template once found has an image ever after, whatever later loads lack or fail
\* on; and an image that was read is another one only under a new revision, or after
\* a load that dropped it and then failed (m_templ_paths, m_templs, m_revision).
THEOREM AlwaysStaysFound == Spec => StaysFound
<1>1. ImagesInv /\ [Next]_vars =>
        \A n \in DOMAIN tr.paths \cup DOMAIN tr.templs :
          /\ TemplOf(tr', n) # NoImage
          /\ n \in DOMAIN tr.templs /\ TemplOf(tr', n) # tr.templs[n] =>
               tr'.revision > tr.revision \/ <<tr.revision, n>> \in replaced'
  BY NextStaysFound
<1> QED BY <1>1, ImagesHeld, PTL DEF Spec, StaysFound
=============================================================================

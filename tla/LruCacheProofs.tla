--------------------------- MODULE LruCacheProofs ---------------------------
(***************************************************************************)
(* The list of an LruCache is in the order of last use, whatever is        *)
(* called, and has the keys of the map; so what Add throws out was used    *)
(* longest ago.                                                            *)
(*                                                                         *)
(* What RemoveOldestElement and the loop over the expired entries do is    *)
(* one thing, a cut: the list from some place on, and of the map what is   *)
(* still in the list.                                                      *)
(***************************************************************************)
EXTENDS LruCache, FiniteSetTheorems, SequenceTheorems, WellFoundedInduction,
        NaturalsInduction, TLAPS

USE CacheLimitsAssumption

-----------------------------------------------------------------------------
(* The latest of some uses.                                                *)

LEMMA LeastNumber ==
  ASSUME NEW I \in SUBSET Nat, I # {}
  PROVE  \E n \in I : \A m \in I : n <= m
<1> DEFINE R == OpToRel(<, Nat)
<1>1. IsWellFoundedOn(R, Nat) BY NatLessThanWellFounded
<1>2. \A x, y \in Nat : y < x => <<y, x>> \in R BY DEF OpToRel
<1> HIDE DEF R
<1>3. PICK n \in I : \A m \in I : ~(<<m, n>> \in R) BY <1>1, WFMin
<1>4. ASSUME NEW m \in I PROVE n <= m
  <2>1. n \in Nat /\ m \in Nat OBVIOUS
  <2>2. ~(m < n) BY <1>2, <1>3, <2>1
  <2> QED BY <2>1, <2>2
<1> QED BY <1>4

\* Max, and Min, of some of the first n numbers.
LEMMA Extremes ==
  ASSUME NEW n \in Nat, NEW S \in SUBSET (1 .. n), S # {}
  PROVE  /\ Max(S) \in S /\ \A y \in S : Max(S) >= y
         /\ Min(S) \in S /\ \A y \in S : Min(S) <= y
<1>1. \E x \in S : \A y \in S : x <= y
  <2>1. S \in SUBSET Nat OBVIOUS
  <2> QED BY <2>1, LeastNumber
<1>2. \E x \in S : \A y \in S : x >= y
  <2> DEFINE T == {n - y : y \in S}
  <2>1. T \in SUBSET Nat /\ T # {}
    <3>1. \A y \in S : n - y \in Nat OBVIOUS
    <3> QED BY <3>1
  <2>2. PICK t \in T : \A u \in T : t <= u
    <3> HIDE DEF T
    <3> QED BY <2>1, LeastNumber
  <2>3. PICK x \in S : t = n - x OBVIOUS
  <2>4. ASSUME NEW y \in S PROVE x >= y
    <3>1. n - y \in T OBVIOUS
    <3>2. n - x <= n - y BY <2>2, <2>3, <3>1
    <3>3. x \in Int /\ y \in Int OBVIOUS
    <3> QED BY <3>2, <3>3
  <2> QED BY <2>4
<1> QED BY <1>1, <1>2 DEF Max, Min

UsesOf(c, k) == {i \in DOMAIN c.uses : c.uses[i] = k}

LEMMA LastUseRead ==
  ASSUME NEW c, c.uses \in Seq(CacheKeys), NEW k, UsesOf(c, k) # {}
  PROVE  /\ LastUse(c, k) \in 1 .. Len(c.uses) /\ c.uses[LastUse(c, k)] = k
         /\ \A i \in 1 .. Len(c.uses) : c.uses[i] = k => i <= LastUse(c, k)
<1> DEFINE S == UsesOf(c, k)
<1>1. S \in SUBSET (1 .. Len(c.uses)) /\ Len(c.uses) \in Nat BY DEF UsesOf
<1>2. LastUse(c, k) = Max(S) BY DEF LastUse, UsesOf
<1> HIDE DEF S
<1>3. Max(S) \in S /\ \A y \in S : Max(S) >= y BY <1>1, Extremes DEF S
<1>4. S = {i \in 1 .. Len(c.uses) : c.uses[i] = k} BY DEF S, UsesOf
<1> QED BY <1>1, <1>2, <1>3, <1>4

\* The use just made is the last of its key, and nobody else's.
LEMMA UsedLast ==
  ASSUME NEW c, c.uses \in Seq(CacheKeys), NEW k \in CacheKeys,
         NEW d, d.uses = Append(c.uses, k)
  PROVE  /\ d.uses \in Seq(CacheKeys)
         /\ UsesOf(d, k) # {} /\ LastUse(d, k) = Len(c.uses) + 1
         /\ \A x : UsesOf(c, x) # {} /\ x # k =>
              /\ UsesOf(d, x) # {} /\ LastUse(d, x) = LastUse(c, x)
              /\ LastUse(d, x) < LastUse(d, k)
<1> DEFINE n == Len(c.uses)
<1>1. /\ d.uses \in Seq(CacheKeys) /\ Len(d.uses) = n + 1 /\ n \in Nat
      /\ d.uses[n + 1] = k /\ \A i \in 1 .. n : d.uses[i] = c.uses[i]
  OBVIOUS
<1>2. UsesOf(d, k) # {} BY <1>1 DEF UsesOf
<1>3. LastUse(d, k) = n + 1
  <2> DEFINE j == LastUse(d, k)
  <2>1. j \in 1 .. Len(d.uses) /\ \A i \in 1 .. Len(d.uses) : d.uses[i] = k => i <= j
    BY <1>1, <1>2, LastUseRead
  <2> HIDE DEF j
  <2>2. n + 1 <= j BY <1>1, <2>1
  <2>3. j = n + 1 BY <1>1, <2>1, <2>2
  <2> QED BY <2>3 DEF j
<1>4. ASSUME NEW x, UsesOf(c, x) # {}, x # k
      PROVE  /\ UsesOf(d, x) # {} /\ LastUse(d, x) = LastUse(c, x)
             /\ LastUse(d, x) < LastUse(d, k)
  <2> DEFINE i == LastUse(c, x)
             j == LastUse(d, x)
  <2>1. i \in 1 .. n /\ c.uses[i] = x /\ \A m \in 1 .. n : c.uses[m] = x => m <= i
    BY <1>4, LastUseRead
  <2>2. UsesOf(d, x) # {} BY <1>1, <2>1 DEF UsesOf
  <2>3. j \in 1 .. n + 1 /\ d.uses[j] = x /\ \A m \in 1 .. n + 1 : d.uses[m] = x => m <= j
    BY <1>1, <2>2, LastUseRead
  <2> HIDE DEF i, j
  <2>4. j \in 1 .. n BY <1>1, <1>4, <2>3
  <2>5. j <= i /\ i <= j BY <1>1, <2>1, <2>3, <2>4
  <2>6. i = j /\ j < n + 1 BY <1>1, <2>1, <2>4, <2>5
  <2> QED BY <1>3, <2>2, <2>6 DEF i, j
<1> QED BY <1>1, <1>2, <1>3, <1>4
-----------------------------------------------------------------------------
(* The invariant.                                                          *)

IsCache(c) ==
  DOMAIN c = {"capacity", "ttl", "order", "storage", "now", "uses"}

\* Some keys in the order of their last use, and so each of them once.
InOrder(c, s) ==
  /\ \A i \in 1 .. Len(s) : UsesOf(c, s[i]) # {}
  /\ \A i, j \in 1 .. Len(s) : i < j => LastUse(c, s[i]) < LastUse(c, s[j])

CacheOK(c) ==
  /\ IsCache(c)
  /\ c.capacity \in Nat \ {0} /\ c.ttl \in Nat /\ c.now \in Nat
  /\ c.uses \in Seq(CacheKeys) /\ c.order \in Seq(CacheKeys)
  /\ \A k \in Stored(c) : c.storage[k].time \in Nat
  /\ ToSet(c.order) = Stored(c) /\ Len(c.order) <= c.capacity
  /\ InOrder(c, c.order)

LEMMA OnceEach ==
  ASSUME NEW c, CacheOK(c)
  PROVE  /\ \A i, j \in 1 .. Len(c.order) : c.order[i] = c.order[j] => i = j
         /\ Cardinality(Stored(c)) = Len(c.order) /\ IsFiniteSet(Stored(c))
<1> DEFINE n == Len(c.order)
           s == c.order
<1>1. n \in Nat /\ s \in [1 .. n -> Stored(c)] /\ \A k \in Stored(c) : \E i \in 1 .. n : s[i] = k
  <2>1. s \in Seq(CacheKeys) /\ ToSet(s) = Stored(c) BY DEF CacheOK
  <2>2. n \in Nat /\ DOMAIN s = 1 .. n /\ s = [i \in 1 .. n |-> s[i]] BY <2>1
  <2> HIDE DEF s, n
  <2> QED BY <2>1, <2>2 DEF ToSet
<1>2. ASSUME NEW i \in 1 .. n, NEW j \in 1 .. n, s[i] = s[j] PROVE i = j
  <2>1. LastUse(c, s[i]) \in Nat
    <3>1. UsesOf(c, s[i]) # {} /\ c.uses \in Seq(CacheKeys) BY DEF CacheOK, InOrder
    <3> QED BY <3>1, LastUseRead
  <2>2. i < j => LastUse(c, s[i]) < LastUse(c, s[j]) BY DEF CacheOK, InOrder
  <2>3. j < i => LastUse(c, s[j]) < LastUse(c, s[i]) BY DEF CacheOK, InOrder
  <2> HIDE DEF s, n
  <2> QED BY <1>1, <1>2, <2>1, <2>2, <2>3
<1> HIDE DEF s, n
<1>3. s \in Bijection(1 .. n, Stored(c))
  BY <1>1, <1>2 DEF Bijection, Injection, Surjection, IsInjective
<1>4. ExistsBijection(1 .. n, Stored(c)) BY <1>3 DEF ExistsBijection
<1>5. Cardinality(Stored(c)) = n BY <1>1, <1>4, FS_CountingElements
<1>6. IsFiniteSet(1 .. n) BY <1>1, FS_Interval
<1>7. IsFiniteSet(Stored(c)) BY <1>4, <1>6, FS_Bijection
<1> QED BY <1>2, <1>5, <1>7 DEF s, n

\* What is left of a cache when its list is cut off before m.
Cut(c, d, m) ==
  /\ m \in 1 .. Len(c.order) + 1
  /\ IsCache(d)
  /\ d.capacity = c.capacity /\ d.ttl = c.ttl /\ d.now = c.now /\ d.uses = c.uses
  /\ d.order = SubSeq(c.order, m, Len(c.order))
  /\ d.storage = Restrict(c.storage, ToSet(d.order))

LEMMA CutReads ==
  ASSUME NEW c, CacheOK(c), NEW d, NEW m, Cut(c, d, m)
  PROVE  /\ d.order \in Seq(CacheKeys) /\ Len(d.order) = Len(c.order) - m + 1
         /\ \A i \in 1 .. Len(d.order) : d.order[i] = c.order[i + m - 1]
         /\ ToSet(d.order) = Stored(d)
         /\ \A k \in Stored(d) : k \in Stored(c) /\ d.storage[k] = c.storage[k]
         /\ \A i \in 1 .. Len(c.order) : c.order[i] \in Stored(d) <=> i >= m
<1> DEFINE n == Len(c.order)
           s == c.order
           t == d.order
<1>1. s \in Seq(CacheKeys) /\ n \in Nat /\ m \in 1 .. n + 1 /\ t = SubSeq(s, m, n)
  BY DEF CacheOK, Cut
<1>2. t \in Seq(CacheKeys) /\ Len(t) = n - m + 1
        /\ \A i \in 1 .. Len(t) : t[i] = s[i + m - 1]
  BY <1>1
<1>3. Stored(d) = ToSet(t) /\ \A k \in ToSet(t) : d.storage[k] = c.storage[k]
  BY DEF Cut, Stored, Restrict
<1>4. ToSet(s) = Stored(c) BY DEF CacheOK
<1>5. \A i, j \in 1 .. n : s[i] = s[j] => i = j BY OnceEach
<1> HIDE DEF n, s, t
<1>6. ToSet(t) = {s[i] : i \in m .. n}
  <2>1. ASSUME NEW i \in 1 .. Len(t) PROVE t[i] \in {s[j] : j \in m .. n}
    BY <1>1, <1>2
  <2>2. ASSUME NEW i \in m .. n PROVE s[i] \in ToSet(t)
    <3>1. i - m + 1 \in 1 .. Len(t) /\ t[i - m + 1] = s[i] BY <1>1, <1>2
    <3> QED BY <1>2, <3>1 DEF ToSet
  <2>3. DOMAIN t = 1 .. Len(t) BY <1>2
  <2> QED BY <2>1, <2>2, <2>3 DEF ToSet
<1>7. ToSet(s) = {s[i] : i \in 1 .. n}
  <2>1. DOMAIN s = 1 .. n BY <1>1 DEF s, n
  <2> QED BY <2>1 DEF ToSet
<1>8. ToSet(t) \subseteq ToSet(s) BY <1>1, <1>6, <1>7
<1>9. \A i \in 1 .. n : s[i] \in ToSet(t) <=> i >= m BY <1>1, <1>5, <1>6
<1> QED BY <1>2, <1>3, <1>4, <1>8, <1>9 DEF n, s, t

LEMMA CutIsOK ==
  ASSUME NEW c, CacheOK(c), NEW d, NEW m, Cut(c, d, m)
  PROVE  CacheOK(d)
<1> DEFINE n == Len(d.order)
<1>1. /\ d.order \in Seq(CacheKeys) /\ n = Len(c.order) - m + 1
      /\ \A i \in 1 .. n : d.order[i] = c.order[i + m - 1]
      /\ ToSet(d.order) = Stored(d)
      /\ \A k \in Stored(d) : k \in Stored(c) /\ d.storage[k] = c.storage[k]
  BY CutReads
<1>2. /\ m \in 1 .. Len(c.order) + 1 /\ IsCache(d) /\ c.order \in Seq(CacheKeys)
      /\ d.capacity = c.capacity /\ d.ttl = c.ttl /\ d.now = c.now /\ d.uses = c.uses
  BY DEF Cut, CacheOK
<1>3. n <= d.capacity
  <2>1. Len(c.order) <= c.capacity /\ c.capacity \in Nat BY DEF CacheOK
  <2> HIDE DEF n
  <2> QED BY <1>1, <1>2, <2>1
<1>4. InOrder(d, d.order)
  <2>1. \A k : UsesOf(d, k) = UsesOf(c, k) /\ LastUse(d, k) = LastUse(c, k)
    BY <1>2 DEF UsesOf, LastUse
  <2>2. ASSUME NEW i \in 1 .. n PROVE UsesOf(d, d.order[i]) # {}
    <3>1. i + m - 1 \in 1 .. Len(c.order) BY <1>1, <1>2
    <3> QED BY <1>1, <2>1, <3>1 DEF CacheOK, InOrder
  <2>3. ASSUME NEW i \in 1 .. n, NEW j \in 1 .. n, i < j
        PROVE  LastUse(d, d.order[i]) < LastUse(d, d.order[j])
    <3>1. i + m - 1 \in 1 .. Len(c.order) /\ j + m - 1 \in 1 .. Len(c.order)
            /\ i + m - 1 < j + m - 1
      BY <1>1, <1>2, <2>3
    <3>2. d.order[i] = c.order[i + m - 1] /\ d.order[j] = c.order[j + m - 1] BY <1>1
    <3> QED BY <2>1, <3>1, <3>2 DEF CacheOK, InOrder
  <2> QED BY <2>2, <2>3 DEF InOrder
<1> HIDE DEF n
<1>5. d.capacity \in Nat \ {0} /\ d.ttl \in Nat /\ d.now \in Nat /\ d.uses \in Seq(CacheKeys)
  BY <1>2 DEF CacheOK
<1>6. \A k \in Stored(d) : d.storage[k].time \in Nat BY <1>1 DEF CacheOK
<1> QED BY <1>1, <1>2, <1>3, <1>4, <1>5, <1>6 DEF CacheOK, n

LEMMA CutAgain ==
  ASSUME NEW c, CacheOK(c), NEW d, NEW m, Cut(c, d, m), NEW e, NEW l, Cut(d, e, l)
  PROVE  Cut(c, e, m + l - 1)
<1>1. /\ d.order \in Seq(CacheKeys) /\ Len(d.order) = Len(c.order) - m + 1
      /\ \A i \in 1 .. Len(d.order) : d.order[i] = c.order[i + m - 1]
      /\ \A k \in Stored(d) : k \in Stored(c) /\ d.storage[k] = c.storage[k]
  BY CutReads
<1>2. CacheOK(d) BY CutIsOK
<1>3. /\ e.order \in Seq(CacheKeys) /\ Len(e.order) = Len(d.order) - l + 1
      /\ \A i \in 1 .. Len(e.order) : e.order[i] = d.order[i + l - 1]
      /\ ToSet(e.order) = Stored(e)
      /\ \A k \in Stored(e) : k \in Stored(d) /\ e.storage[k] = d.storage[k]
  BY <1>2, CutReads
<1>4. c.order \in Seq(CacheKeys) /\ m \in 1 .. Len(c.order) + 1 /\ l \in 1 .. Len(d.order) + 1
  BY DEF Cut, CacheOK
<1>5. m + l - 1 \in 1 .. Len(c.order) + 1 BY <1>1, <1>4
<1>6. e.order = SubSeq(c.order, m + l - 1, Len(c.order))
  <2> DEFINE s == SubSeq(c.order, m + l - 1, Len(c.order))
  <2>1. s \in Seq(CacheKeys) /\ Len(s) = Len(c.order) - (m + l - 1) + 1
          /\ \A i \in 1 .. Len(s) : s[i] = c.order[i + (m + l - 1) - 1]
    BY <1>4, <1>5
  <2> HIDE DEF s
  <2>2. Len(e.order) = Len(s) BY <1>1, <1>3, <1>4, <2>1
  <2>3. ASSUME NEW i \in 1 .. Len(s) PROVE e.order[i] = s[i]
    <3>1. i + l - 1 \in 1 .. Len(d.order) BY <1>1, <1>3, <1>4, <2>2, SMTT(30)
    <3>2. e.order[i] = d.order[i + l - 1] BY <1>3, <2>2
    <3>3. d.order[i + l - 1] = c.order[i + l - 1 + m - 1] BY <1>1, <3>1
    <3>4. i + l - 1 + m - 1 = i + (m + l - 1) - 1 BY <1>1, <1>4
    <3> QED BY <2>1, <3>2, <3>3, <3>4
  <2>4. e.order = s BY <1>3, <2>1, <2>2, <2>3
  <2> QED BY <2>4 DEF s
<1>7. e.storage = Restrict(c.storage, ToSet(e.order))
  <2>1. e.storage = Restrict(d.storage, ToSet(e.order)) BY DEF Cut
  <2>2. \A k \in ToSet(e.order) : d.storage[k] = c.storage[k] BY <1>1, <1>3
  <2> QED BY <2>1, <2>2 DEF Restrict
<1> QED BY <1>5, <1>6, <1>7 DEF Cut
\* The key at the front goes.
LEMMA RemoveOldestCuts ==
  ASSUME NEW c, CacheOK(c), Len(c.order) # 0
  PROVE  Cut(c, RemoveOldestElement(c), 2)
<1> DEFINE s == c.order
           n == Len(c.order)
           d == RemoveOldestElement(c)
           t == SubSeq(s, 2, n)
<1>1. s \in Seq(CacheKeys) /\ n \in Nat /\ n >= 1 /\ ToSet(s) = Stored(c)
  BY DEF CacheOK
<1>2. \A i, j \in 1 .. n : s[i] = s[j] => i = j BY OnceEach
<1>3. /\ IsCache(d)
      /\ d.capacity = c.capacity /\ d.ttl = c.ttl /\ d.now = c.now /\ d.uses = c.uses
      /\ d.order = Tail(s) /\ d.storage = Restrict(c.storage, Stored(c) \ {Head(s)})
  BY DEF RemoveOldestElement, CacheOK, IsCache
<1>4. Tail(s) = t BY <1>1, TailIsSubSeq
<1>5. /\ t \in Seq(CacheKeys) /\ Len(t) = n - 1
      /\ \A i \in 1 .. n - 1 : t[i] = s[i + 1]
  BY <1>1
<1>6. Head(s) = s[1] BY <1>1
<1>7. DOMAIN s = 1 .. n /\ DOMAIN t = 1 .. n - 1 BY <1>1, <1>5
<1>8. n = Len(c.order) /\ s = c.order OBVIOUS
<1> HIDE DEF s, n, d, t
<1>9. ToSet(t) = ToSet(s) \ {s[1]}
  <2>1. ASSUME NEW i \in 1 .. n - 1 PROVE t[i] \in ToSet(s) \ {s[1]}
    <3>1. i + 1 \in 1 .. n /\ 1 \in 1 .. n /\ i + 1 # 1 BY <1>1
    <3> QED BY <1>2, <1>5, <1>7, <3>1 DEF ToSet
  <2>2. ASSUME NEW j \in 1 .. n, j # 1 PROVE s[j] \in ToSet(t)
    <3>1. j - 1 \in 1 .. n - 1 /\ t[j - 1] = s[j] BY <1>1, <1>5, <2>2
    <3> QED BY <1>7, <3>1 DEF ToSet
  <2> QED BY <1>7, <2>1, <2>2 DEF ToSet
<1>10. 2 \in 1 .. n + 1 BY <1>1
<1>11. Cut(c, d, 2)
  BY <1>1, <1>3, <1>4, <1>6, <1>8, <1>9, <1>10 DEF Cut, t
<1> QED BY <1>11 DEF d

LEMMA PrunedCuts ==
  ASSUME NEW c, CacheOK(c)
  PROVE  \E m : /\ Cut(c, Pruned(c), m)
                /\ \A i \in 1 .. Len(c.order) : i < m => Expired(c, c.order[i])
<1> DEFINE n == Len(c.order)
           fresh == {i \in DOMAIN c.order : ~Expired(c, c.order[i])}
           first == IF fresh = {} THEN n + 1 ELSE Min(fresh)
           d == Pruned(c)
<1>1. c.order \in Seq(CacheKeys) /\ n \in Nat /\ DOMAIN c.order = 1 .. n BY DEF CacheOK
<1>2. fresh \in SUBSET (1 .. n) BY <1>1
<1>3. /\ IsCache(d)
      /\ d.capacity = c.capacity /\ d.ttl = c.ttl /\ d.now = c.now /\ d.uses = c.uses
      /\ d.order = SubSeq(c.order, first, n)
      /\ d.storage = Restrict(c.storage, ToSet(d.order))
  BY DEF Pruned, CacheOK, IsCache
<1>4. \A i \in 1 .. n : i \notin fresh => Expired(c, c.order[i]) BY <1>1
<1> HIDE DEF fresh, d
<1>5. first \in 1 .. n + 1 /\ \A i \in 1 .. n : i < first => i \notin fresh
  <2>1. CASE fresh = {} BY <1>1, <2>1
  <2>2. CASE fresh # {}
    <3>1. Min(fresh) \in fresh /\ \A y \in fresh : Min(fresh) <= y BY <1>1, <1>2, <2>2, Extremes
    <3>2. first = Min(fresh) BY <2>2
    <3> HIDE DEF first
    <3> QED BY <1>1, <1>2, <3>1, <3>2
  <2> QED BY <2>1, <2>2
<1> HIDE DEF first
<1>6. Cut(c, d, first) BY <1>3, <1>5 DEF Cut
<1>7. \A i \in 1 .. n : i < first => Expired(c, c.order[i]) BY <1>4, <1>5
<1> QED BY <1>6, <1>7 DEF d

\* All that is taken out before an addition is a cut; what goes with it has expired, or is
\* the first of a full list.
LEMMA MadeRoom ==
  ASSUME NEW c, CacheOK(c)
  PROVE  \E m : /\ Cut(c, Pruned(WithRoom(c)), m)
                /\ Full(c) => m >= 2
                /\ \A i \in 1 .. Len(c.order) : i < m =>
                     Expired(c, c.order[i]) \/ (Full(c) /\ i = 1)
<1> DEFINE e == Pruned(WithRoom(c))
<1>1. c.order \in Seq(CacheKeys) /\ Len(c.order) \in Nat BY DEF CacheOK
<1>2. CASE ~Full(c) BY <1>2, PrunedCuts DEF WithRoom
<1>3. CASE Full(c)
  <2> DEFINE d == RemoveOldestElement(c)
  <2>1. e = Pruned(d) BY <1>3 DEF WithRoom
  <2>2. Len(c.order) # 0
    <3>1. Cardinality(Stored(c)) = Len(c.order) BY OnceEach
    <3> QED BY <1>3, <3>1 DEF Full, CacheOK
  <2>3. Cut(c, d, 2) BY <2>2, RemoveOldestCuts
  <2> HIDE DEF d
  <2>4. CacheOK(d) BY <2>3, CutIsOK
  <2>5. PICK l : /\ Cut(d, Pruned(d), l)
                 /\ \A i \in 1 .. Len(d.order) : i < l => Expired(d, d.order[i])
    BY <2>4, PrunedCuts
  <2>6. Cut(c, e, 2 + l - 1) BY <2>1, <2>3, <2>5, CutAgain
  <2>7. l \in 1 .. Len(d.order) + 1 BY <2>5 DEF Cut
  <2>8. /\ Len(d.order) = Len(c.order) - 1
        /\ \A i \in 1 .. Len(d.order) : d.order[i] = c.order[i + 1]
        /\ \A k \in Stored(d) : d.storage[k] = c.storage[k]
        /\ ToSet(d.order) = Stored(d) /\ d.order \in Seq(CacheKeys)
    <3>1. /\ d.order \in Seq(CacheKeys) /\ Len(d.order) = Len(c.order) - 2 + 1
          /\ \A i \in 1 .. Len(d.order) : d.order[i] = c.order[i + 2 - 1]
          /\ ToSet(d.order) = Stored(d)
          /\ \A k \in Stored(d) : k \in Stored(c) /\ d.storage[k] = c.storage[k]
      BY <2>3, CutReads
    <3>2. \A i \in Nat : i + 2 - 1 = i + 1 OBVIOUS
    <3> QED BY <1>1, <3>1, <3>2
  <2>9. ASSUME NEW i \in 1 .. Len(c.order), i < 2 + l - 1, i # 1
        PROVE  Expired(c, c.order[i])
    <3>1. i - 1 \in 1 .. Len(d.order) /\ i - 1 < l BY <1>1, <2>7, <2>8, <2>9
    <3>2. Expired(d, d.order[i - 1]) BY <2>5, <3>1
    <3>3. d.order[i - 1] = c.order[i] BY <2>8, <3>1
    <3>4. d.order[i - 1] \in Stored(d) BY <2>8, <3>1 DEF ToSet
    <3>5. d.storage[d.order[i - 1]] = c.storage[d.order[i - 1]] BY <2>8, <3>4
    <3>6. d.ttl = c.ttl /\ d.now = c.now BY <2>3 DEF Cut
    <3> QED BY <3>2, <3>3, <3>5, <3>6 DEF Expired
  <2>10. 2 + l - 1 >= 2 BY <1>1, <2>7, <2>8
  <2> QED BY <1>3, <2>6, <2>9, <2>10
<1> QED BY <1>2, <1>3
-----------------------------------------------------------------------------
(* The operations.                                                         *)

\* A key that is used goes to the end of the list.
LEMMA AppendedInOrder ==
  ASSUME NEW c, c.uses \in Seq(CacheKeys), NEW s \in Seq(CacheKeys), InOrder(c, s),
         NEW k \in CacheKeys, k \notin ToSet(s), NEW d, d.uses = Append(c.uses, k)
  PROVE  InOrder(d, Append(s, k))
<1> DEFINE n == Len(s)
           t == Append(s, k)
<1>1. /\ n \in Nat /\ Len(t) = n + 1 /\ t[n + 1] = k /\ \A i \in 1 .. n : t[i] = s[i]
  OBVIOUS
<1>2. \A i \in 1 .. n : s[i] # k BY DEF ToSet
<1>3. /\ UsesOf(d, k) # {}
      /\ \A x : UsesOf(c, x) # {} /\ x # k =>
           /\ UsesOf(d, x) # {} /\ LastUse(d, x) = LastUse(c, x)
           /\ LastUse(d, x) < LastUse(d, k)
  BY UsedLast
<1> HIDE DEF n, t
<1>4. ASSUME NEW i \in 1 .. n
      PROVE  /\ UsesOf(d, t[i]) # {} /\ LastUse(d, t[i]) = LastUse(c, s[i])
             /\ LastUse(d, t[i]) < LastUse(d, k)
  <2>1. UsesOf(c, s[i]) # {} BY DEF InOrder, n
  <2> QED BY <1>1, <1>2, <1>3, <2>1
<1>5. ASSUME NEW i \in 1 .. n + 1 PROVE UsesOf(d, t[i]) # {}
  <2>1. CASE i = n + 1 BY <1>1, <1>3, <2>1
  <2>2. CASE i # n + 1
    <3>1. i \in 1 .. n BY <1>1, <2>2
    <3> QED BY <1>4, <3>1
  <2> QED BY <2>1, <2>2
<1>6. ASSUME NEW i \in 1 .. n + 1, NEW j \in 1 .. n + 1, i < j
      PROVE  LastUse(d, t[i]) < LastUse(d, t[j])
  <2>1. i \in 1 .. n BY <1>1, <1>6
  <2>2. CASE j = n + 1 BY <1>1, <1>4, <2>1, <2>2
  <2>3. CASE j # n + 1
    <3>1. j \in 1 .. n BY <1>1, <2>3
    <3>2. LastUse(c, s[i]) < LastUse(c, s[j]) BY <1>6, <2>1, <3>1 DEF InOrder, n
    <3> QED BY <1>4, <2>1, <3>1, <3>2
  <2> QED BY <2>2, <2>3
<1> QED BY <1>1, <1>5, <1>6 DEF InOrder, t

\* A list from which the iterator of a key has been taken.
LEMMA UnlinkedReads ==
  ASSUME NEW c, CacheOK(c), NEW k \in Stored(c)
  PROVE  LET t == Unlinked(c.order, k)
         IN  /\ t \in Seq(CacheKeys) /\ Len(t) = Len(c.order) - 1
             /\ ToSet(t) = Stored(c) \ {k} /\ InOrder(c, t) /\ k \in CacheKeys
<1> DEFINE s == c.order
           n == Len(s)
           p == PositionOf(s, k)
           t == Unlinked(s, k)
           old(i) == IF i < p THEN i ELSE i + 1
<1>1. s \in Seq(CacheKeys) /\ n \in Nat /\ ToSet(s) = Stored(c) /\ DOMAIN s = 1 .. n
        /\ InOrder(c, s)
  BY DEF CacheOK
<1>2. \A i, j \in 1 .. n : s[i] = s[j] => i = j BY OnceEach
<1>3. p \in 1 .. n /\ s[p] = k
  <2>1. \E i \in 1 .. n : s[i] = k BY <1>1 DEF ToSet
  <2> HIDE DEF s, n
  <2> QED BY <1>1, <2>1 DEF PositionOf
<1> HIDE DEF p
<1>4. t = SubSeq(s, 1, p - 1) \o SubSeq(s, p + 1, n) BY DEF Unlinked, RemoveAt, p
<1>5. t \in Seq(CacheKeys) /\ Len(t) = n - 1 /\ DOMAIN t = 1 .. n - 1
        /\ \A i \in 1 .. n - 1 : t[i] = s[old(i)]
  <2> DEFINE a == SubSeq(s, 1, p - 1)
             b == SubSeq(s, p + 1, n)
  <2>1. a \in Seq(CacheKeys) /\ Len(a) = p - 1 /\ \A i \in 1 .. p - 1 : a[i] = s[i]
    BY <1>1, <1>3
  <2>2. b \in Seq(CacheKeys) /\ Len(b) = n - p /\ \A i \in 1 .. n - p : b[i] = s[p + i]
    BY <1>1, <1>3
  <2> HIDE DEF a, b, s, n
  <2>3. t = a \o b BY <1>4 DEF a, b
  <2> HIDE DEF t
  <2>4. t \in Seq(CacheKeys) /\ Len(t) = n - 1
    <3>1. a \in Seq(CacheKeys) /\ b \in Seq(CacheKeys) BY <2>1, <2>2
    <3>2. a \o b \in Seq(CacheKeys) /\ Len(a \o b) = Len(a) + Len(b) BY <3>1
    <3>3. Len(a) + Len(b) = n - 1 BY <1>1, <1>3, <2>1, <2>2
    <3> QED BY <2>3, <3>2, <3>3
  <2>5. ASSUME NEW i \in 1 .. n - 1 PROVE t[i] = s[old(i)]
    <3>1. CASE i < p
      <4>1. t[i] = a[i] BY <1>1, <1>3, <2>1, <2>2, <2>3, <3>1
      <4> QED BY <2>1, <3>1, <4>1, <1>3
    <3>2. CASE ~(i < p)
      <4>1. i - (p - 1) \in 1 .. n - p /\ p + (i - (p - 1)) = i + 1 BY <1>1, <1>3, <3>2
      <4>2. t[i] = b[i - (p - 1)] BY <1>1, <1>3, <2>1, <2>2, <2>3, <3>2
      <4>3. b[i - (p - 1)] = s[i + 1] BY <2>2, <4>1
      <4> QED BY <3>2, <4>2, <4>3
    <3> QED BY <3>1, <3>2
  <2> QED BY <2>4, <2>5
<1>6. \A i \in 1 .. n - 1 : old(i) \in 1 .. n /\ old(i) # p BY <1>1, <1>3
<1>7. \A i, j \in 1 .. n - 1 : i < j => old(i) < old(j) BY <1>1, <1>3
<1>8. \A j \in 1 .. n : j # p => \E i \in 1 .. n - 1 : old(i) = j
  <2> SUFFICES ASSUME NEW j \in 1 .. n, j # p PROVE \E i \in 1 .. n - 1 : old(i) = j OBVIOUS
  <2>1. CASE j < p BY <1>1, <1>3, <2>1
  <2>2. CASE ~(j < p)
    <3>1. j - 1 \in 1 .. n - 1 /\ old(j - 1) = j BY <1>1, <1>3, <2>2
    <3> QED BY <3>1
  <2> QED BY <2>1, <2>2
<1> HIDE DEF s, n, t, old
<1>9. ToSet(t) = Stored(c) \ {k}
  <2>1. \A i \in 1 .. n - 1 : t[i] \in ToSet(s) /\ t[i] # k
    <3> TAKE i \in 1 .. n - 1
    <3>1. old(i) \in 1 .. n /\ old(i) # p /\ t[i] = s[old(i)] BY <1>5, <1>6
    <3> QED BY <1>1, <1>2, <1>3, <3>1 DEF ToSet
  <2>2. \A x \in ToSet(s) \ {k} : x \in ToSet(t)
    <3> TAKE x \in ToSet(s) \ {k}
    <3>1. PICK j \in 1 .. n : s[j] = x BY <1>1 DEF ToSet
    <3>2. PICK i \in 1 .. n - 1 : old(i) = j BY <1>3, <1>8, <3>1
    <3> QED BY <1>5, <3>1, <3>2 DEF ToSet
  <2> QED BY <1>1, <1>5, <2>1, <2>2, ZenonT(30) DEF ToSet
<1>10. InOrder(c, t)
  <2>1. ASSUME NEW i \in 1 .. n - 1 PROVE UsesOf(c, t[i]) # {}
    BY <1>1, <1>5, <1>6 DEF InOrder, n
  <2>2. ASSUME NEW i \in 1 .. n - 1, NEW j \in 1 .. n - 1, i < j
        PROVE  LastUse(c, t[i]) < LastUse(c, t[j])
    <3>1. old(i) \in 1 .. n /\ old(j) \in 1 .. n /\ old(i) < old(j) BY <1>6, <1>7, <2>2
    <3>2. LastUse(c, s[old(i)]) < LastUse(c, s[old(j)]) BY <1>1, <3>1 DEF InOrder, n
    <3> QED BY <1>5, <3>2
  <2> QED BY <1>5, <2>1, <2>2 DEF InOrder
<1>11. k \in CacheKeys BY <1>1, <1>3
<1> QED BY <1>5, <1>9, <1>10, <1>11 DEF t, s, n
LEMMA AddIsOK ==
  ASSUME CacheOK(cache), NEW k \in CacheKeys, NEW v, Add(k, v)
  PROVE  CacheOK(cache') /\ ThrowsOutTheOldest
<1> DEFINE e == Pruned(WithRoom(cache))
           entry == [time |-> e.now, value |-> v]
           n == Len(cache.order)
<1>1. PICK m : /\ Cut(cache, e, m)
               /\ Full(cache) => m >= 2
               /\ \A i \in 1 .. Len(cache.order) : i < m =>
                    Expired(cache, cache.order[i]) \/ (Full(cache) /\ i = 1)
  BY MadeRoom
<1>2. cache' = [e EXCEPT !.order = Append(@, k), !.storage = With(@, k, entry),
                         !.uses = Append(@, k)]
  BY DEF Add
<1>3. k \notin Stored(cache) BY DEF Add
<1> HIDE DEF e
<1>4. CacheOK(e) BY <1>1, CutIsOK
<1>5. /\ IsCache(cache')
      /\ cache'.capacity = e.capacity /\ cache'.ttl = e.ttl /\ cache'.now = e.now
      /\ cache'.order = Append(e.order, k) /\ cache'.uses = Append(e.uses, k)
      /\ cache'.storage = With(e.storage, k, entry)
  BY <1>2, <1>4 DEF CacheOK, IsCache
<1>6. /\ Len(e.order) = n - m + 1
      /\ \A i \in 1 .. n : cache.order[i] \in Stored(e) <=> i >= m
      /\ Stored(e) \subseteq Stored(cache)
      /\ ToSet(e.order) = Stored(e) /\ e.order \in Seq(CacheKeys)
  BY <1>1, CutReads
<1>7. /\ cache.order \in Seq(CacheKeys) /\ n \in Nat /\ m \in 1 .. n + 1
      /\ cache.ttl \in Nat /\ cache.now \in Nat /\ cache.capacity \in Nat /\ n <= cache.capacity
      /\ ToSet(cache.order) = Stored(cache) /\ DOMAIN cache.order = 1 .. n
      /\ e.capacity = cache.capacity /\ e.uses = cache.uses
  BY <1>1 DEF Cut, CacheOK
<1>8. Len(e.order) + 1 <= e.capacity
  <2>1. Cardinality(Stored(cache)) = n BY OnceEach
  <2>2. CASE Full(cache) BY <1>1, <1>6, <1>7, <2>2
  <2>3. CASE ~Full(cache)
    <3>1. n # cache.capacity BY <2>1, <2>3 DEF Full
    <3>2. n + 1 <= cache.capacity BY <1>7, <3>1
    <3> QED BY <1>6, <1>7, <3>2
  <2> QED BY <2>2, <2>3
<1>9. /\ Stored(cache') = Stored(e) \cup {k}
      /\ cache'.storage[k] = entry
      /\ \A x \in Stored(e) : x # k => cache'.storage[x] = e.storage[x]
  BY <1>5 DEF Stored, With
<1>10. CacheOK(cache')
  <2>1. InOrder(cache', cache'.order)
    <3>1. k \notin ToSet(e.order) BY <1>3, <1>6
    <3>2. e.uses \in Seq(CacheKeys) /\ InOrder(e, e.order) BY <1>4 DEF CacheOK
    <3> QED BY <1>5, <1>6, <3>1, <3>2, AppendedInOrder
  <2>2. /\ cache'.capacity \in Nat \ {0} /\ cache'.ttl \in Nat /\ cache'.now \in Nat
        /\ cache'.uses \in Seq(CacheKeys) /\ cache'.order \in Seq(CacheKeys)
        /\ Len(cache'.order) = Len(e.order) + 1
    BY <1>4, <1>5 DEF CacheOK
  <2>3. ToSet(cache'.order) = Stored(cache')
    <3> DEFINE s == e.order
               t == Append(s, k)
    <3>1. s \in Seq(CacheKeys) /\ DOMAIN t = 1 .. Len(s) + 1 /\ DOMAIN s = 1 .. Len(s)
            /\ Len(s) \in Nat
            /\ t[Len(s) + 1] = k /\ \A i \in 1 .. Len(s) : t[i] = s[i]
      BY <1>6
    <3> HIDE DEF s, t
    <3>2. ToSet(t) = ToSet(s) \cup {k}
      <4>1. \A i \in 1 .. Len(s) + 1 : i \in 1 .. Len(s) \/ i = Len(s) + 1 BY <3>1
      <4>2. \A i \in 1 .. Len(s) : i \in 1 .. Len(s) + 1 BY <3>1
      <4>3. Len(s) + 1 \in 1 .. Len(s) + 1 BY <3>1
      <4> QED BY <3>1, <4>1, <4>2, <4>3 DEF ToSet
    <3> QED BY <1>5, <1>6, <1>9, <3>2 DEF s, t
  <2>4. ASSUME NEW x \in Stored(cache') PROVE cache'.storage[x].time \in Nat
    <3>1. CASE x = k
      <4>1. entry.time = e.now OBVIOUS
      <4> QED BY <1>4, <1>9, <3>1, <4>1 DEF CacheOK
    <3>2. CASE x # k BY <1>4, <1>9, <3>2 DEF CacheOK
    <3> QED BY <3>1, <3>2
  <2> QED BY <1>5, <1>8, <2>1, <2>2, <2>3, <2>4 DEF CacheOK
<1>11. ThrowsOutTheOldest
  <2> DEFINE gone == Stored(cache) \ Stored(cache')
  <2>1. \A x \in Stored(cache) : x \in gone <=> x \notin Stored(e)
    BY <1>3, <1>9
  <2> HIDE DEF gone
  <2>2. \A x \in Stored(cache) : \E i \in 1 .. n : x = cache.order[i]
    BY <1>7 DEF ToSet
  <2>3. ASSUME NEW x \in gone, NEW y \in Stored(cache) \ gone
        PROVE  LastUse(cache, x) < LastUse(cache, y)
    <3>1. PICK i \in 1 .. n : x = cache.order[i] BY <2>2 DEF gone
    <3>2. PICK j \in 1 .. n : y = cache.order[j] BY <2>2
    <3>3. i < m /\ j >= m BY <1>6, <1>7, <2>1, <3>1, <3>2 DEF gone
    <3>4. i < j BY <1>7, <3>3
    <3> QED BY <3>1, <3>2, <3>4 DEF CacheOK, InOrder
  <2>4. ASSUME NEW x \in gone
        PROVE  \/ cache.ttl # 0 /\ cache.now - cache.storage[x].time > cache.ttl
               \/ Cardinality(Stored(cache)) = cache.capacity /\ x = Head(cache.order)
    <3>1. PICK i \in 1 .. n : x = cache.order[i] BY <2>2 DEF gone
    <3>2. i < m BY <1>6, <1>7, <2>1, <3>1 DEF gone
    <3>3. CASE Expired(cache, x)
      <4>1. cache.storage[x].time \in Nat BY DEF CacheOK, gone
      <4> QED BY <1>7, <3>3, <4>1 DEF Expired
    <3>4. CASE Full(cache) /\ i = 1
      <4>1. Head(cache.order) = cache.order[1] BY <1>7, <3>4
      <4> QED BY <3>1, <3>4, <4>1 DEF Full
    <3> QED BY <1>1, <3>1, <3>2, <3>3, <3>4
  <2> QED BY <2>3, <2>4 DEF ThrowsOutTheOldest, gone
<1> QED BY <1>10, <1>11

LEMMA GetIsOK ==
  ASSUME CacheOK(cache), NEW k \in CacheKeys, Get(k)
  PROVE  CacheOK(cache') /\ ThrowsOutTheOldest
<1> DEFINE t == Unlinked(cache.order, k)
<1>1. /\ t \in Seq(CacheKeys) /\ Len(t) = Len(cache.order) - 1
      /\ ToSet(t) = Stored(cache) \ {k} /\ InOrder(cache, t)
  BY UnlinkedReads DEF Get
<1>2. /\ IsCache(cache')
      /\ cache'.capacity = cache.capacity /\ cache'.ttl = cache.ttl /\ cache'.now = cache.now
      /\ cache'.order = Append(t, k) /\ cache'.uses = Append(cache.uses, k)
      /\ cache'.storage = cache.storage /\ Stored(cache') = Stored(cache)
  BY DEF Get, Spliced, CacheOK, IsCache, Stored
<1>3. k \in Stored(cache) BY DEF Get
<1> HIDE DEF t
<1>4. InOrder(cache', cache'.order)
  <2>1. k \notin ToSet(t) /\ cache.uses \in Seq(CacheKeys) BY <1>1 DEF CacheOK
  <2>2. cache'.uses = Append(cache.uses, k) /\ cache'.order = Append(t, k) BY <1>2
  <2>3. t \in Seq(CacheKeys) /\ InOrder(cache, t) BY <1>1
  <2>4. InOrder(cache', Append(t, k)) BY <2>1, <2>2, <2>3, AppendedInOrder
  <2> QED BY <2>2, <2>4
<1>5. ToSet(cache'.order) = Stored(cache')
  <2> DEFINE u == Append(t, k)
  <2>1. DOMAIN u = 1 .. Len(t) + 1 /\ DOMAIN t = 1 .. Len(t) /\ Len(t) \in Nat
          /\ u[Len(t) + 1] = k /\ \A i \in 1 .. Len(t) : u[i] = t[i]
    BY <1>1
  <2> HIDE DEF u
  <2>2. \A i \in 1 .. Len(t) + 1 : i \in 1 .. Len(t) \/ i = Len(t) + 1 BY <2>1
  <2>3. \A i \in 1 .. Len(t) : i \in 1 .. Len(t) + 1 BY <2>1
  <2>4. Len(t) + 1 \in 1 .. Len(t) + 1 BY <2>1
  <2>5. ToSet(u) = ToSet(t) \cup {k} BY <2>1, <2>2, <2>3, <2>4 DEF ToSet
  <2> QED BY <1>1, <1>2, <1>3, <2>5 DEF u
<1>6. Len(cache'.order) = Len(cache.order) /\ cache'.order \in Seq(CacheKeys)
        /\ cache'.uses \in Seq(CacheKeys)
  BY <1>1, <1>2 DEF CacheOK
<1>7. CacheOK(cache') BY <1>2, <1>4, <1>5, <1>6 DEF CacheOK
<1>8. ThrowsOutTheOldest BY <1>2 DEF ThrowsOutTheOldest
<1> QED BY <1>7, <1>8

LEMMA DeleteIsOK ==
  ASSUME CacheOK(cache), NEW k \in CacheKeys, Delete(k)
  PROVE  CacheOK(cache') /\ ThrowsOutTheOldest
<1> DEFINE t == Unlinked(cache.order, k)
<1>1. /\ t \in Seq(CacheKeys) /\ Len(t) = Len(cache.order) - 1
      /\ ToSet(t) = Stored(cache) \ {k} /\ InOrder(cache, t)
  BY UnlinkedReads DEF Delete
<1>2. LET d == [cache EXCEPT !.order = <<k>> \o t]
      IN cache' = [d EXCEPT !.order = Tail(@),
                            !.storage = Restrict(@, Stored(d) \ {Head(d.order)})]
  BY DEF Delete, RemoveOldestElement
<1> HIDE DEF t
<1>3. Tail(<<k>> \o t) = t /\ Head(<<k>> \o t) = k BY <1>1
<1>4. /\ IsCache(cache')
      /\ cache'.capacity = cache.capacity /\ cache'.ttl = cache.ttl /\ cache'.now = cache.now
      /\ cache'.order = t /\ cache'.uses = cache.uses
      /\ cache'.storage = Restrict(cache.storage, Stored(cache) \ {k})
  BY <1>2, <1>3 DEF CacheOK, IsCache, Stored
<1>5. /\ Stored(cache') = Stored(cache) \ {k}
      /\ \A x \in Stored(cache') : cache'.storage[x] = cache.storage[x]
  BY <1>4 DEF Stored, Restrict
<1>6. InOrder(cache', cache'.order)
  <2>1. \A x : UsesOf(cache', x) = UsesOf(cache, x) /\ LastUse(cache', x) = LastUse(cache, x)
    BY <1>4 DEF UsesOf, LastUse
  <2> QED BY <1>1, <1>4, <2>1 DEF InOrder
<1>7. Len(cache'.order) <= cache'.capacity
  BY <1>1, <1>4 DEF CacheOK
<1>8. CacheOK(cache')
  BY <1>1, <1>4, <1>5, <1>6, <1>7 DEF CacheOK
<1>9. ThrowsOutTheOldest
  <2>1. ~(Len(cache'.uses) > Len(cache.uses)) BY <1>4 DEF CacheOK
  <2> QED BY <2>1 DEF ThrowsOutTheOldest
<1> QED BY <1>8, <1>9

LEMMA TickIsOK ==
  ASSUME CacheOK(cache), Tick
  PROVE  CacheOK(cache') /\ ThrowsOutTheOldest
<1>1. /\ IsCache(cache')
      /\ cache'.capacity = cache.capacity /\ cache'.ttl = cache.ttl
      /\ cache'.now = cache.now + 1 /\ cache'.storage = cache.storage
      /\ cache'.order = cache.order /\ cache'.uses = cache.uses
  BY DEF Tick, CacheOK, IsCache
<1>2. Stored(cache') = Stored(cache) BY <1>1 DEF Stored
<1>3. InOrder(cache', cache'.order)
  <2>1. \A x : UsesOf(cache', x) = UsesOf(cache, x) /\ LastUse(cache', x) = LastUse(cache, x)
    BY <1>1 DEF UsesOf, LastUse
  <2> QED BY <1>1, <2>1 DEF InOrder, CacheOK
<1>4. CacheOK(cache') BY <1>1, <1>2, <1>3 DEF CacheOK
<1>5. ThrowsOutTheOldest
  <2>1. ~(Len(cache'.uses) > Len(cache.uses)) BY <1>1 DEF CacheOK
  <2> QED BY <2>1 DEF ThrowsOutTheOldest
<1> QED BY <1>4, <1>5

LEMMA InitIsOK ==
  ASSUME CacheInit
  PROVE  CacheOK(cache)
<1>1. PICK l \in CacheLimits :
        cache = [capacity |-> l.capacity, ttl |-> l.ttl, order |-> <<>>,
                 storage |-> <<>>, now |-> 0, uses |-> <<>>]
  BY DEF CacheInit
<1>2. /\ IsCache(cache) /\ cache.capacity = l.capacity /\ cache.ttl = l.ttl
      /\ cache.order = <<>> /\ cache.storage = <<>> /\ cache.now = 0 /\ cache.uses = <<>>
  BY <1>1 DEF IsCache
<1>3. l.capacity \in Nat \ {0} /\ l.ttl \in Nat OBVIOUS
<1>4. Stored(cache) = {} /\ ToSet(cache.order) = {} BY <1>2 DEF Stored, ToSet
<1>5. InOrder(cache, cache.order) BY <1>2 DEF InOrder
<1> QED BY <1>2, <1>3, <1>4, <1>5 DEF CacheOK

\* Whatever is added, found or deleted, and however late it is, the list of an LruCache and
\* its map agree, the list is in the order of last use, and Add throws out only what was
\* used longest ago, for its age or, one entry, to make room (lru_cache.h, PrepareToAdd).
THEOREM OldestIsThrownOut == CacheSpec => EvictsByUse
<1>1. CacheInit => CacheOK(cache) BY InitIsOK
<1>2. CacheOK(cache) /\ [CacheNext]_cache => CacheOK(cache)'
  <2> SUFFICES ASSUME CacheOK(cache), [CacheNext]_cache PROVE CacheOK(cache') OBVIOUS
  <2>1. CASE cache' = cache BY <2>1
  <2>2. CASE CacheNext BY <2>2, AddIsOK, GetIsOK, DeleteIsOK, TickIsOK DEF CacheNext
  <2> QED BY <2>1, <2>2
<1>3. CacheOK(cache) => ListAndMapAgree
  <2> SUFFICES ASSUME CacheOK(cache) PROVE ListAndMapAgree OBVIOUS
  <2>1. Cardinality(Stored(cache)) = Len(cache.order) BY OnceEach
  <2>2. DOMAIN cache.order = 1 .. Len(cache.order) BY DEF CacheOK
  <2> QED BY <2>1, <2>2 DEF ListAndMapAgree, CacheOK, InOrder
<1>4. CacheOK(cache) /\ [CacheNext]_cache
        => [ThrowsOutTheOldest /\ ListAndMapAgree']_cache
  <2> SUFFICES ASSUME CacheOK(cache), CacheNext PROVE ThrowsOutTheOldest /\ ListAndMapAgree'
    OBVIOUS
  <2>1. ThrowsOutTheOldest BY AddIsOK, GetIsOK, DeleteIsOK, TickIsOK DEF CacheNext
  <2>2. CacheOK(cache)' BY <1>2
  <2>3. ListAndMapAgree' BY <1>3, <2>2, PTL
  <2> QED BY <2>1, <2>3
<1> QED BY <1>1, <1>2, <1>4, PTL DEF CacheSpec, EvictsByUse
=============================================================================

-------------------------- MODULE AccountingProofs --------------------------
(***************************************************************************)
(* DataBuffer keeps account of its bytes.  `current` is compared with a    *)
(* sum over an index or a directory, which one element joins or leaves at  *)
(* a time: first what that does to a sum, then that every step changes     *)
(* `current` by the same amount.                                           *)
(***************************************************************************)
EXTENDS DataBufferProofs, FiniteSetTheorems

-----------------------------------------------------------------------------
(* Sums of finitely many numbers: what SumFunction, a fold over a set whose *)
(* elements are taken one by one, is worth whatever the order.             *)

\* g gives the sum of f over every set in Sets, its elements taken one by one.
Tallies(g, f, Sets) ==
  g = [s \in Sets |->
         IF s = {} THEN 0
         ELSE LET x == CHOOSE x \in s : TRUE IN f[x] + g[s \ {x}]]

\* There is such a g, built from the small sets to the large ones.
LEMMA TallyExists ==
  ASSUME NEW f, NEW D, IsFiniteSet(D)
  PROVE  \E g : Tallies(g, f, SUBSET D)
PROOF
  <1> DEFINE UpTo(n) == {s \in SUBSET D : Cardinality(s) <= n}
             N == {n \in Nat : ~\E g : Tallies(g, f, UpTo(n))}
  <1>1. N = {}
    <2> SUFFICES ASSUME N # {} PROVE FALSE
      OBVIOUS
    <2>1. N \in SUBSET Nat
      OBVIOUS
    <2>2. PICK m \in N : \A n \in N : m <= n
      <3> HIDE DEF N
      <3> QED BY <2>1, LeastOf
    <2>3. m \in Nat /\ ~\E g : Tallies(g, f, UpTo(m))
      OBVIOUS
    <2>4. CASE m = 0
      <3>1. \A s \in UpTo(0) : s = {}
        <4> TAKE s \in UpTo(0)
        <4>1. IsFiniteSet(s) /\ Cardinality(s) <= 0
          BY FS_Subset
        <4> QED BY <4>1, FS_CardinalityType, FS_EmptySet
      <3> DEFINE g == [s \in UpTo(0) |-> 0]
      <3>2. Tallies(g, f, UpTo(0))
        BY <3>1 DEF Tallies
      <3> QED BY <2>3, <2>4, <3>2
    <2>5. CASE m # 0
      <3>1. m - 1 \in Nat /\ m - 1 \notin N
        <4> HIDE DEF N
        <4> QED BY <2>2, <2>3, <2>5
      <3>2. PICK g : Tallies(g, f, UpTo(m - 1))
        BY <3>1
      <3> DEFINE Rest(s) == s \ {CHOOSE x \in s : TRUE}
                 h == [s \in UpTo(m) |->
                         IF s = {} THEN 0 ELSE f[CHOOSE x \in s : TRUE] + g[Rest(s)]]
      <3>3. \A s \in UpTo(m) : s # {} => Rest(s) \in UpTo(m - 1)
        <4> SUFFICES ASSUME NEW s \in UpTo(m), s # {} PROVE Rest(s) \in UpTo(m - 1)
          OBVIOUS
        <4>1. IsFiniteSet(s) /\ (CHOOSE x \in s : TRUE) \in s
          BY FS_Subset
        <4>2. Cardinality(Rest(s)) = Cardinality(s) - 1
          BY <4>1, FS_RemoveElement
        <4>3. Cardinality(s) \in Nat /\ Cardinality(s) <= m
          BY <4>1, FS_CardinalityType
        <4> QED BY <2>3, <4>2, <4>3
      <3>4. \A s \in UpTo(m - 1) : s \in UpTo(m) /\ h[s] = g[s]
        <4> TAKE s \in UpTo(m - 1)
        <4>1. s \in UpTo(m)
          <5>1. IsFiniteSet(s)
            BY FS_Subset
          <5>2. Cardinality(s) \in Nat /\ Cardinality(s) <= m - 1
            BY <5>1, FS_CardinalityType
          <5> QED BY <2>3, <5>2
        <4>2. g[s] = IF s = {} THEN 0 ELSE f[CHOOSE x \in s : TRUE] + g[Rest(s)]
          BY <3>2 DEF Tallies
        <4> QED BY <4>1, <4>2
      <3>5. Tallies(h, f, UpTo(m))
        <4>1. \A s \in UpTo(m) : s # {} => g[Rest(s)] = h[Rest(s)]
          <5> HIDE DEF h, Rest, UpTo
          <5> QED BY <3>3, <3>4
        <4> DEFINE taken(s, k) == IF s = {} THEN 0 ELSE f[CHOOSE x \in s : TRUE] + k[Rest(s)]
        <4>2. h = [s \in UpTo(m) |-> taken(s, g)]
          OBVIOUS
        <4>3. \A s \in UpTo(m) : taken(s, g) = taken(s, h)
          <5> HIDE DEF h, Rest, UpTo
          <5> QED BY <4>1
        <4>4. h = [s \in UpTo(m) |-> taken(s, h)]
          <5> HIDE DEF h, taken, UpTo
          <5> QED BY <4>2, <4>3
        <4> QED BY <4>4 DEF Tallies
      <3> QED BY <2>3, <3>5
    <2> QED BY <2>4, <2>5
  <1>2. Cardinality(D) \in Nat /\ UpTo(Cardinality(D)) = SUBSET D
    <2>1. \A s \in SUBSET D : Cardinality(s) <= Cardinality(D)
      BY FS_Subset
    <2> QED BY <2>1, FS_CardinalityType
  <1> QED BY <1>1, <1>2

Adds(g, f) == Tallies(g, f, SUBSET DOMAIN f)

LEMMA SumIs ==
  ASSUME NEW f, IsFiniteSet(DOMAIN f)
  PROVE  \E g : Adds(g, f) /\ SumFunction(f) = g[DOMAIN f]
PROOF
  <1> DEFINE g == CHOOSE g : g = [s \in SUBSET (DOMAIN f) |->
         IF s = {} THEN 0
         ELSE LET x == CHOOSE x \in s : TRUE IN f[x] + g[s \ {x}]]
  <1>1. Adds(g, f)
    <2>1. \E k : Tallies(k, f, SUBSET DOMAIN f)
      BY TallyExists
    <2>2. \E k : k = [s \in SUBSET (DOMAIN f) |->
                        IF s = {} THEN 0
                        ELSE LET x == CHOOSE x \in s : TRUE IN f[x] + k[s \ {x}]]
      BY <2>1 DEF Tallies
    <2> QED BY <2>2 DEF Tallies, Adds
  <1>2. SumFunction(f) = g[DOMAIN f]
    BY DEF SumFunction, SumFunctionOnSet, FoldFunctionOnSet, MapThenFoldSet
  <1> QED BY <1>1, <1>2

Summable(f) == IsFiniteSet(DOMAIN f) /\ \A x \in DOMAIN f : f[x] \in Int

\* The order in which the elements are taken does not matter.
Splits(g, f, s) == g[s] \in Int /\ \A x \in s : g[s] = f[x] + g[s \ {x}]

LEMMA TallySplits ==
  ASSUME NEW f, Summable(f), NEW g, Adds(g, f)
  PROVE  \A s \in SUBSET DOMAIN f : Splits(g, f, s)
PROOF
  <1> DEFINE D == DOMAIN f
  <1> IsFiniteSet(D) /\ \A x \in D : f[x] \in Int
    BY DEF Summable
  <1> Tallies(g, f, SUBSET D)
    BY DEF Adds
  <1> HIDE DEF D
  <1>0. \A s \in SUBSET D : IsFiniteSet(s) /\ Cardinality(s) \in Nat
    BY FS_Subset, FS_CardinalityType
  <1>1. \A s \in SUBSET D : \A x \in s :
          s \ {x} \in SUBSET D /\ Cardinality(s \ {x}) < Cardinality(s)
    <2> TAKE s \in SUBSET D
    <2> TAKE x \in s
    <2>1. Cardinality(s \ {x}) = Cardinality(s) - 1
      BY <1>0, FS_RemoveElement
    <2> QED BY <1>0, <2>1
  <1>2. g[{}] = 0
    BY DEF Tallies
  <1>3. \A s \in SUBSET D : s # {} =>
          \E y \in s : g[s] = f[y] + g[s \ {y}]
    BY DEF Tallies
  <1> DEFINE OK(s) == Splits(g, f, s)
             N == {n \in Nat : \E s \in SUBSET D : Cardinality(s) = n /\ ~OK(s)}
  <1>4. N = {}
    <2> SUFFICES ASSUME N # {} PROVE FALSE
      OBVIOUS
    <2>1. N \in SUBSET Nat
      OBVIOUS
    <2>2. PICK m \in N : \A n \in N : m <= n
      <3> HIDE DEF N
      <3> QED BY <2>1, LeastOf
    <2>3. PICK s \in SUBSET D : Cardinality(s) = m /\ ~OK(s)
      OBVIOUS
    <2>4. \A r \in SUBSET D : Cardinality(r) < Cardinality(s) => OK(r)
      <3> SUFFICES ASSUME NEW r \in SUBSET D, Cardinality(r) < Cardinality(s), ~OK(r)
                   PROVE  FALSE
        OBVIOUS
      <3>1. Cardinality(r) \in N
        BY <1>0
      <3> HIDE DEF N
      <3> QED BY <1>0, <2>2, <2>3, <3>1
    <2>5. OK(s)
      <3>1. CASE s = {}
        BY <1>2, <3>1 DEF Splits
      <3>2. CASE s # {}
        <4>1. PICK y \in s : g[s] = f[y] + g[s \ {y}]
          BY <1>3, <3>2
        <4>2. OK(s \ {y}) /\ f[y] \in Int
          <5> QED BY <1>1, <2>4
        <4>3. ASSUME NEW x \in s, x # y PROVE g[s] = f[x] + g[s \ {x}]
          <5>1. g[s \ {y}] = f[x] + g[(s \ {y}) \ {x}] /\ g[(s \ {y}) \ {x}] \in Int
            <6>1. x \in s \ {y} /\ s \ {y} \in SUBSET D
              BY <4>3
            <6>2. OK((s \ {y}) \ {x})
              <7>1. Cardinality((s \ {y}) \ {x}) < Cardinality(s \ {y})
                    /\ (s \ {y}) \ {x} \in SUBSET D
                BY <1>1, <6>1
              <7>2. Cardinality(s \ {y}) < Cardinality(s)
                BY <1>1
              <7>3. Cardinality((s \ {y}) \ {x}) < Cardinality(s)
                BY <1>0, <6>1, <7>1, <7>2
              <7> QED BY <2>4, <7>1, <7>3
            <6> QED BY <4>2, <6>1, <6>2 DEF Splits
          <5>2. g[s \ {x}] = f[y] + g[(s \ {x}) \ {y}]
            <6>1. OK(s \ {x})
              BY <1>1, <2>4
            <6>2. y \in s \ {x}
              BY <4>3
            <6> QED BY <6>1, <6>2 DEF Splits
          <5>3. (s \ {x}) \ {y} = (s \ {y}) \ {x} /\ f[x] \in Int /\ f[y] \in Int
            OBVIOUS
          <5> DEFINE r == g[(s \ {y}) \ {x}]
          <5>4. /\ g[s] = f[y] + g[s \ {y}] /\ g[s \ {y}] = f[x] + r
                /\ g[s \ {x}] = f[y] + r /\ r \in Int
            BY <4>1, <5>1, <5>2, <5>3
          <5> HIDE DEF r
          <5> QED BY <5>3, <5>4
        <4>4. g[s] \in Int
          BY <4>1, <4>2 DEF Splits
        <4> QED BY <4>1, <4>3, <4>4 DEF Splits
      <3> QED BY <3>1, <3>2
    <2> QED BY <2>3, <2>5
  <1>5. \A s \in SUBSET D : OK(s)
    BY <1>0, <1>4
  <1> QED BY <1>5 DEF D

LEMMA TallyStep ==
  ASSUME NEW f, Summable(f), NEW g, Adds(g, f),
         NEW s \in SUBSET DOMAIN f, NEW y \in s
  PROVE  g[s] = f[y] + g[s \ {y}] /\ g[s \ {y}] \in Int
PROOF
  <1>1. s \ {y} \in SUBSET DOMAIN f
    OBVIOUS
  <1>2. Splits(g, f, s) /\ Splits(g, f, s \ {y})
    BY <1>1, TallySplits
  <1> QED BY <1>2 DEF Splits

\* Nor does it matter what the elements are called.
Image(b, D) == {b[y] : y \in D}
TallyOn(g, s) == g[s]
Renames(b, h, f) ==
  /\ b \in [DOMAIN h -> DOMAIN f]
  /\ \A x, y \in DOMAIN h : b[x] = b[y] => x = y
  /\ \A x \in DOMAIN h : h[x] = f[b[x]]

LEMMA TallyRenamed ==
  ASSUME NEW f, Summable(f), NEW g, Adds(g, f),
         NEW h, Summable(h), NEW k, Adds(k, h),
         NEW b, Renames(b, h, f)
  PROVE  TallyOn(k, DOMAIN h) = TallyOn(g, Image(b, DOMAIN h))
PROOF
  <1> DEFINE D == DOMAIN f
             E == DOMAIN h
             image(s) == Image(b, s)
  <1> /\ b \in [E -> D]
      /\ \A x, y \in E : b[x] = b[y] => x = y
      /\ \A x \in E : h[x] = f[b[x]]
      /\ IsFiniteSet(D) /\ IsFiniteSet(E)
      /\ \A x \in D : f[x] \in Int
    BY DEF Renames, Summable
  <1> HIDE DEF D, E
  <1> Tallies(g, f, SUBSET D) /\ Tallies(k, h, SUBSET E)
    BY DEF D, E, Adds
  <1> DEFINE N == {n \in Nat : \E s \in SUBSET E : Cardinality(s) = n /\ k[s] # g[image(s)]}
  <1>0. \A s \in SUBSET E : IsFiniteSet(s) /\ Cardinality(s) \in Nat
    BY FS_Subset, FS_CardinalityType
  <1>1. N = {}
    <2> SUFFICES ASSUME N # {} PROVE FALSE
      OBVIOUS
    <2>1. N \in SUBSET Nat
      OBVIOUS
    <2>2. PICK m \in N : \A n \in N : m <= n
      <3> HIDE DEF N
      <3> QED BY <2>1, LeastOf
    <2>3. PICK s \in SUBSET E : Cardinality(s) = m /\ k[s] # g[image(s)]
      OBVIOUS
    <2>4. s # {}
      <3>1. image({}) = {}
        BY DEF Image
      <3>2. k[{}] = 0 /\ g[{}] = 0
        BY DEF Tallies
      <3> HIDE DEF image
      <3> QED BY <2>3, <3>1, <3>2
    <2>5. PICK x \in s : TRUE
      BY <2>4
    <2>6. k[s \ {x}] = g[image(s \ {x})]
      <3> SUFFICES ASSUME k[s \ {x}] # g[image(s \ {x})] PROVE FALSE
        OBVIOUS
      <3>1. Cardinality(s \ {x}) = m - 1 /\ Cardinality(s \ {x}) \in Nat
        BY <1>0, <2>3, FS_RemoveElement
      <3>2. Cardinality(s \ {x}) \in N
        <4>1. s \ {x} \in SUBSET E
          OBVIOUS
        <4> HIDE DEF image
        <4> QED BY <3>1, <4>1
      <3>3. m <= Cardinality(s \ {x})
        <4> HIDE DEF N
        <4> QED BY <2>2, <3>2
      <3>4. m \in Nat
        OBVIOUS
      <3> HIDE DEF N
      <3> QED BY <3>1, <3>3, <3>4
    <2>7. image(s \ {x}) = image(s) \ {b[x]} /\ b[x] \in image(s) /\ image(s) \in SUBSET D
      BY DEF Image
    <2>8. g[image(s)] = f[b[x]] + g[image(s) \ {b[x]}]
      <3> HIDE DEF image
      <3>1. Summable(f) /\ Adds(g, f) /\ image(s) \in SUBSET DOMAIN f
        BY <2>7 DEF D
      <3> QED BY ONLY <3>1, <2>7, TallyStep
    <2>9. k[s] = h[x] + k[s \ {x}]
      <3>1. Summable(h) /\ Adds(k, h) /\ s \in SUBSET DOMAIN h /\ x \in s
        BY DEF E
      <3> QED BY ONLY <3>1, TallyStep
    <2> HIDE DEF image
    <2> QED BY <2>3, <2>6, <2>7, <2>8, <2>9
  <1>2. k[E] = g[image(E)]
    BY <1>0, <1>1
  <1> QED BY <1>2 DEF E, TallyOn

\* f sums up to its value for x, and what h sums up to, when h has the other values of f.
Besides(f, x, h) ==
  \E b : Renames(b, h, f) /\ Image(b, DOMAIN h) = DOMAIN f \ {x}

LEMMA SumBesides ==
  ASSUME NEW f, Summable(f), NEW h, Summable(h), NEW x \in DOMAIN f, Besides(f, x, h)
  PROVE  /\ SumFunction(h) \in Int
         /\ SumFunction(f) = f[x] + SumFunction(h)
PROOF
  <1>1. PICK g : Adds(g, f) /\ SumFunction(f) = g[DOMAIN f]
    BY SumIs DEF Summable
  <1>2. PICK k : Adds(k, h) /\ SumFunction(h) = k[DOMAIN h]
    BY SumIs DEF Summable
  <1>3. PICK b : Renames(b, h, f) /\ Image(b, DOMAIN h) = DOMAIN f \ {x}
    BY DEF Besides
  <1>4. k[DOMAIN h] = g[DOMAIN f \ {x}]
    <2>1. Adds(g, f) /\ Adds(k, h)
      BY <1>1, <1>2
    <2>2. Renames(b, h, f) /\ Summable(f) /\ Summable(h)
      BY <1>3
    <2>3. TallyOn(k, DOMAIN h) = TallyOn(g, Image(b, DOMAIN h))
      BY ONLY <2>1, <2>2, TallyRenamed
    <2> QED BY <1>3, <2>3 DEF TallyOn
  <1>5. g[DOMAIN f] = f[x] + g[DOMAIN f \ {x}] /\ g[DOMAIN f \ {x}] \in Int
    <2>1. Adds(g, f)
      BY <1>1
    <2> QED BY <2>1, TallyStep DEF Summable
  <1> QED BY <1>1, <1>2, <1>4, <1>5

LEMMA SumOfNone ==
  ASSUME NEW f, DOMAIN f = {}
  PROVE  Summable(f) /\ SumFunction(f) = 0
PROOF
  <1>1. IsFiniteSet(DOMAIN f)
    BY FS_EmptySet
  <1>2. PICK g : Adds(g, f) /\ SumFunction(f) = g[DOMAIN f]
    BY <1>1, SumIs
  <1>3. g[{}] = 0
    BY <1>2 DEF Adds, Tallies
  <1> QED BY <1>1, <1>2, <1>3 DEF Summable

LEMMA SumType ==
  ASSUME NEW f, Summable(f)
  PROVE  SumFunction(f) \in Int
PROOF
  <1>1. PICK g : Adds(g, f) /\ SumFunction(f) = g[DOMAIN f]
    BY SumIs DEF Summable
  <1>2. Adds(g, f)
    BY <1>1
  <1>3. Splits(g, f, DOMAIN f)
    BY <1>2, TallySplits
  <1> QED BY <1>1, <1>3 DEF Splits

-----------------------------------------------------------------------------
(* The bytes of the memory index.                                          *)

Bytes(index) == [i \in DOMAIN index |-> Size[index[i].value]]

LEMMA BytesSummable ==
  ASSUME NEW s \in Seq(MemElements)
  PROVE  Summable(Bytes(s))
PROOF
  <1>1. DOMAIN Bytes(s) = 1 .. Len(s) /\ Len(s) \in Nat
    BY DEF Bytes
  <1>2. IsFiniteSet(1 .. Len(s))
    BY <1>1, FS_Interval
  <1>3. \A i \in 1 .. Len(s) : s[i].value \in Values
    <2>1. \A i \in 1 .. Len(s) : s[i] \in MemElements
      OBVIOUS
    <2> QED BY <2>1 DEF MemElements
  <1>4. \A i \in 1 .. Len(s) : Bytes(s)[i] \in Int
    BY <1>3, DataAssumption DEF Bytes
  <1> QED BY <1>1, <1>2, <1>4 DEF Summable

\* A new element adds its own.
LEMMA AppendedBytes ==
  ASSUME NEW s \in Seq(MemElements), NEW e \in MemElements
  PROVE  SumFunction(Bytes(Append(s, e))) = SumFunction(Bytes(s)) + Size[e.value]
PROOF
  <1> DEFINE r == Append(s, e)
             n == Len(s) + 1
             b == [i \in 1 .. Len(s) |-> i]
  <1>1. r \in Seq(MemElements) /\ Len(r) = n /\ r[n] = e /\ \A i \in 1 .. Len(s) : r[i] = s[i]
    OBVIOUS
  <1>2. /\ DOMAIN Bytes(r) = 1 .. n /\ DOMAIN Bytes(s) = 1 .. Len(s)
        /\ Bytes(r)[n] = Size[e.value] /\ \A i \in 1 .. Len(s) : Bytes(r)[i] = Bytes(s)[i]
    BY <1>1 DEF Bytes
  <1> HIDE DEF r
  <1>3. Renames(b, Bytes(s), Bytes(r))
    BY <1>2 DEF Renames
  <1>4. Image(b, DOMAIN Bytes(s)) = DOMAIN Bytes(r) \ {n}
    BY <1>2 DEF Image
  <1>5. Besides(Bytes(r), n, Bytes(s)) /\ n \in DOMAIN Bytes(r)
    BY <1>2, <1>3, <1>4 DEF Besides
  <1>6. Summable(Bytes(r)) /\ Summable(Bytes(s))
    BY <1>1, BytesSummable
  <1>7. /\ SumFunction(Bytes(s)) \in Int
        /\ SumFunction(Bytes(r)) = Bytes(r)[n] + SumFunction(Bytes(s))
    BY <1>5, <1>6, SumBesides
  <1>8. Size[e.value] \in Int
    BY DataAssumption DEF MemElements
  <1> HIDE DEF n, b
  <1> QED BY <1>2, <1>7, <1>8 DEF r

\* One that is removed takes its own away.
LEMMA RemovedBytes ==
  ASSUME NEW s \in Seq(MemElements), NEW i \in 1 .. Len(s)
  PROVE  SumFunction(Bytes(s)) = SumFunction(Bytes(RemoveAt(s, i))) + Size[s[i].value]
PROOF
  <1> DEFINE r == RemoveAt(s, i)
             b == [j \in 1 .. Len(r) |-> IF j < i THEN j ELSE j + 1]
  <1>1. r \in Seq(MemElements) /\ Len(r) = Len(s) - 1
    BY RemoveAtType, RemovedElements
  <1>2. \A j \in 1 .. Len(r) : b[j] \in 1 .. Len(s) /\ r[j] = s[b[j]]
    BY <1>1, RemovedElements
  <1>3. /\ DOMAIN Bytes(r) = 1 .. Len(r) /\ DOMAIN Bytes(s) = 1 .. Len(s)
        /\ \A j \in 1 .. Len(r) : Bytes(r)[j] = Bytes(s)[b[j]]
    <2> HIDE DEF b
    <2> QED BY <1>1, <1>2 DEF Bytes
  <1>4. Renames(b, Bytes(r), Bytes(s))
    <2>1. \A j, m \in 1 .. Len(r) : b[j] = b[m] => j = m
      BY <1>1
    <2>2. b \in [1 .. Len(r) -> 1 .. Len(s)]
      BY <1>2
    <2> HIDE DEF b, r
    <2> QED BY <1>3, <2>1, <2>2 DEF Renames
  <1>5. Image(b, DOMAIN Bytes(r)) = DOMAIN Bytes(s) \ {i}
    <2>1. \A j \in 1 .. Len(r) : b[j] \in (1 .. Len(s)) \ {i}
      BY <1>1, <1>2
    <2>2. ASSUME NEW m \in 1 .. Len(s), m # i PROVE \E j \in 1 .. Len(r) : b[j] = m
      <3>1. CASE m < i
        <4>1. m \in 1 .. Len(r) /\ b[m] = m
          BY <1>1, <3>1
        <4> QED BY <4>1
      <3>2. CASE m > i
        <4>1. m - 1 \in 1 .. Len(r) /\ b[m - 1] = m
          BY <1>1, <3>2
        <4> QED BY <4>1
      <3> QED BY <2>2, <3>1, <3>2
    <2>3. \A m \in (1 .. Len(s)) \ {i} : \E j \in 1 .. Len(r) : b[j] = m
      BY <2>2
    <2> HIDE DEF b, r
    <2>4. Image(b, 1 .. Len(r)) = (1 .. Len(s)) \ {i}
      BY <2>1, <2>3, Zenon DEF Image
    <2>5. DOMAIN Bytes(r) = 1 .. Len(r) /\ DOMAIN Bytes(s) = 1 .. Len(s)
      BY <1>3
    <2> QED BY <2>4, <2>5, Zenon
  <1>6. Besides(Bytes(s), i, Bytes(r)) /\ i \in DOMAIN Bytes(s)
    <2>1. i \in DOMAIN Bytes(s)
      BY <1>3
    <2> HIDE DEF b, r
    <2>2. Besides(Bytes(s), i, Bytes(r))
      BY <1>4, <1>5, Zenon DEF Besides
    <2> QED BY <2>1, <2>2
  <1>7. Summable(Bytes(r)) /\ Summable(Bytes(s))
    BY <1>1, BytesSummable
  <1>8. /\ SumFunction(Bytes(r)) \in Int
        /\ SumFunction(Bytes(s)) = Bytes(s)[i] + SumFunction(Bytes(r))
    BY <1>6, <1>7, SumBesides
  <1>9. Bytes(s)[i] = Size[s[i].value] /\ Size[s[i].value] \in Int
    <2>1. s[i] \in MemElements
      OBVIOUS
    <2> QED BY <2>1, DataAssumption DEF MemElements, Bytes
  <1> HIDE DEF r
  <1> QED BY <1>8, <1>9 DEF r

-----------------------------------------------------------------------------
(* The bytes of the directory.                                             *)

Kept(fs) == {k \in Keys : fs[k] # NoValue}
BytesOf(fs) == [k \in Kept(fs) |-> Size[fs[k]]]
Directories == {fs \in [Keys -> Values \cup {NoValue}] : IsFiniteSet(Kept(fs))}

LEMMA FilesSummable ==
  ASSUME NEW fs \in Directories
  PROVE  Summable(BytesOf(fs))
PROOF
  <1>1. DOMAIN BytesOf(fs) = Kept(fs) /\ IsFiniteSet(Kept(fs))
    BY DEF BytesOf, Directories
  <1>2. \A k \in Kept(fs) : BytesOf(fs)[k] \in Int
    BY DataAssumption DEF BytesOf, Kept, Directories
  <1> QED BY <1>1, <1>2 DEF Summable

\* A new file adds its own.
LEMMA FileAdded ==
  ASSUME NEW fs \in Directories, NEW k \in Keys, NEW v \in Values, fs[k] = NoValue
  PROVE  LET gs == [fs EXCEPT ![k] = v] IN
         gs \in Directories /\ SumFunction(BytesOf(gs)) = SumFunction(BytesOf(fs)) + Size[v]
PROOF
  <1> DEFINE gs == [fs EXCEPT ![k] = v]
             b == [q \in Kept(fs) |-> q]
  <1>1. /\ gs \in [Keys -> Values \cup {NoValue}]
        /\ Kept(gs) = Kept(fs) \cup {k} /\ k \notin Kept(fs)
        /\ gs[k] = v /\ \A q \in Kept(fs) : gs[q] = fs[q]
    <2>1. /\ gs \in [Keys -> Values \cup {NoValue}]
          /\ gs[k] = v /\ \A q \in Keys : q # k => gs[q] = fs[q]
      BY DEF Directories
    <2> HIDE DEF gs
    <2> QED BY <2>1, DataAssumption DEF Kept
  <1>2. gs \in Directories
    <2>1. IsFiniteSet(Kept(fs))
      BY DEF Directories
    <2> HIDE DEF gs
    <2>2. IsFiniteSet(Kept(gs))
      BY <1>1, <2>1, FS_AddElement
    <2> QED BY <1>1, <2>2 DEF Directories
  <1>3. /\ DOMAIN BytesOf(gs) = Kept(fs) \cup {k} /\ DOMAIN BytesOf(fs) = Kept(fs)
        /\ BytesOf(gs)[k] = Size[v] /\ \A q \in Kept(fs) : BytesOf(gs)[q] = BytesOf(fs)[q]
    <2> HIDE DEF gs
    <2> QED BY <1>1 DEF BytesOf
  <1> HIDE DEF gs
  <1>4. Renames(b, BytesOf(fs), BytesOf(gs))
    <2>1. b \in [DOMAIN BytesOf(fs) -> DOMAIN BytesOf(gs)] /\ \A q \in Kept(fs) : b[q] = q
      BY <1>3
    <2> HIDE DEF b
    <2> QED BY <1>3, <2>1 DEF Renames
  <1>5. Image(b, DOMAIN BytesOf(fs)) = DOMAIN BytesOf(gs) \ {k}
    BY <1>1, <1>3 DEF Image
  <1>6. Besides(BytesOf(gs), k, BytesOf(fs)) /\ k \in DOMAIN BytesOf(gs)
    BY <1>3, <1>4, <1>5 DEF Besides
  <1>7. Summable(BytesOf(gs)) /\ Summable(BytesOf(fs))
    BY <1>2, FilesSummable
  <1>8. /\ SumFunction(BytesOf(fs)) \in Int
        /\ SumFunction(BytesOf(gs)) = BytesOf(gs)[k] + SumFunction(BytesOf(fs))
    BY <1>6, <1>7, SumBesides
  <1>9. Size[v] \in Int
    BY DataAssumption
  <1> HIDE DEF b
  <1> QED BY <1>2, <1>3, <1>8, <1>9 DEF gs

\* One that is removed takes its own away.
LEMMA FileRemoved ==
  ASSUME NEW fs \in Directories, NEW k \in Keys, fs[k] # NoValue
  PROVE  LET gs == [fs EXCEPT ![k] = NoValue] IN
         gs \in Directories /\ SumFunction(BytesOf(fs)) = SumFunction(BytesOf(gs)) + Size[fs[k]]
PROOF
  <1> DEFINE gs == [fs EXCEPT ![k] = NoValue]
  <1>1. /\ gs \in [Keys -> Values \cup {NoValue}]
        /\ Kept(gs) \subseteq Kept(fs) /\ gs[k] = NoValue
        /\ fs = [gs EXCEPT ![k] = fs[k]] /\ fs[k] \in Values
    BY DEF Directories, Kept
  <1>2. gs \in Directories
    <2>1. IsFiniteSet(Kept(fs))
      BY DEF Directories
    <2>2. IsFiniteSet(Kept(gs))
      BY <1>1, <2>1, FS_Subset
    <2> QED BY <1>1, <2>2 DEF Directories
  <1> HIDE DEF gs
  <1> QED BY <1>1, <1>2, FileAdded DEF gs

-----------------------------------------------------------------------------
(* The two stores.                                                         *)

\* Only the mutex and the waiting threads differ.
Alike(s, r) == r.max = s.max /\ r.current = s.current /\ r.index = s.index

LEMMA MutexAlike ==
  ASSUME NEW E, NEW s \in Storage(E), NEW t
  PROVE  /\ Alike(s, s) /\ Alike(s, Locked(s, t)) /\ Alike(s, Unlocked(s))
         /\ Alike(s, Notified(s)) /\ Alike(s, Notified(Unlocked(s))) /\ Alike(s, Waiting(s, t))
         /\ Alike(s, Notified(Locked(s, t)))
BY DEF Alike, Storage, Locked, Unlocked, Notified, Waiting

MemoryOK(store) == store.current = SumFunction(Bytes(store.index)) /\ store.current <= store.max

LEMMA AlikeMemoryOK ==
  ASSUME NEW s, MemoryOK(s), NEW r, Alike(s, r)
  PROVE  MemoryOK(r)
BY DEF Alike, MemoryOK

LEMMA MarkedMemoryOK ==
  ASSUME NEW s \in Storage(MemElements), MemoryOK(s), NEW i \in 0 .. Len(s.index), NEW state \in States
  PROVE  MemoryOK(Marked(s, i, state)) /\ Marked(s, i, state).max = s.max
PROOF
  <1>1. CASE i = 0
    BY <1>1 DEF Marked
  <1>2. CASE i # 0
    <2> DEFINE r == Marked(s, i, state)
    <2>1. /\ Changed(s.index, r.index, i, [s.index[i] EXCEPT !.state = state])
          /\ r \in Storage(MemElements)
      BY <1>2, MarkElement, MarkedType
    <2>2. r.current = s.current /\ r.max = s.max
      BY <1>2 DEF Marked, Storage
    <2>3. s.index \in Seq(MemElements) /\ r.index \in Seq(MemElements) /\ s.index[i] \in MemElements
      BY <1>2, <2>1 DEF Storage
    <2> HIDE DEF r
    <2>4. /\ DOMAIN r.index = DOMAIN s.index
          /\ \A j \in DOMAIN s.index : r.index[j].value = s.index[j].value
      <3> DEFINE e == [s.index[i] EXCEPT !.state = state]
      <3>1. e.value = s.index[i].value
        BY <2>3 DEF MemElements
      <3>2. Changed(s.index, r.index, i, e)
        BY <2>1
      <3> HIDE DEF e
      <3>3. DOMAIN r.index = 1 .. Len(r.index) /\ DOMAIN s.index = 1 .. Len(s.index)
        BY <2>3
      <3> QED BY <3>1, <3>2, <3>3 DEF Changed
    <2>5. Bytes(r.index) = Bytes(s.index)
      BY <2>4 DEF Bytes
    <2> QED BY <2>2, <2>5 DEF MemoryOK, r
  <1> QED BY <1>1, <1>2

LEMMA ErasedMemoryOK ==
  ASSUME StoresOK, MemoryOK(mem), NEW i \in 1 .. Len(mem.index)
  PROVE  MemoryOK(Erased(i)) /\ Erased(i).max = mem.max
PROOF
  <1>1. mem.index \in Seq(MemElements) /\ mem.index[i] \in MemElements
    BY DEF StoresOK, Storage
  <1>2. Size[mem.index[i].value] \in Nat
    BY <1>1, DataAssumption DEF MemElements
  <1>3. SumFunction(Bytes(mem.index))
          = SumFunction(Bytes(RemoveAt(mem.index, i))) + Size[mem.index[i].value]
    BY <1>1, RemovedBytes
  <1>4. SumFunction(Bytes(RemoveAt(mem.index, i))) \in Int
    BY <1>1, RemoveAtType, BytesSummable, SumType
  <1>5. /\ Erased(i).max = mem.max /\ Erased(i).index = RemoveAt(mem.index, i)
        /\ Erased(i).current = mem.current - Size[mem.index[i].value]
        /\ mem.max \in Nat /\ mem.current \in Int
    BY DEF Erased, StoresOK, Storage
  <1> QED BY <1>2, <1>3, <1>4, <1>5 DEF MemoryOK

LEMMA InsertedMemoryOK ==
  ASSUME StoresOK, ThreadsOK, MemoryOK(mem), NEW t \in Clients, pc[t] = "spaceInMemory",
         Required(t) <= mem.max, HasSpace(mem, Required(t))
  PROVE  MemoryOK(Inserted(t)) /\ Inserted(t).max = mem.max
PROOF
  <1>1. call[t].key \in Keys /\ call[t].value \in Values /\ Required(t) \in Nat
    BY ClientAt, CallShape
  <1> DEFINE e == [key |-> call[t].key, value |-> call[t].value, state |-> "notStarted"]
  <1>2. e \in MemElements /\ e.value = call[t].value
    BY <1>1 DEF MemElements, States
  <1>3. mem.index \in Seq(MemElements) /\ mem.max \in Nat /\ mem.current \in Int
    BY DEF StoresOK, Storage
  <1>4. /\ Inserted(t).max = mem.max /\ Inserted(t).index = Append(mem.index, e)
        /\ Inserted(t).current = mem.current + Required(t)
    BY DEF Inserted, StoresOK, Storage
  <1> HIDE DEF e
  <1>5. SumFunction(Bytes(Append(mem.index, e))) = SumFunction(Bytes(mem.index)) + Required(t)
    BY <1>2, <1>3, AppendedBytes DEF Required
  <1>6. mem.current + Required(t) <= mem.max
    BY <1>1, <1>3 DEF HasSpace
  <1> QED BY <1>4, <1>5, <1>6 DEF MemoryOK

-----------------------------------------------------------------------------
(* The memory index.                                                       *)

PlainOps == {"Store", "Get", "Delete"}
Plain == \A t \in Clients : call[t].op \in PlainOps \cup {"None"}

SpaceLabels == {"spaceInMemory", "waitOnMemory", "waitingOnMemory"}
\* A client that waits for space wants no more than there can be.
Fits(t) == pc[t] \in SpaceLabels => Required(t) <= mem.max
MemoryAccounted == MemoryOK(mem) /\ \A t \in Clients : Fits(t)

MemoryKept == MemoryOK(mem') /\ mem'.max = mem.max

LEMMA AlikeKept ==
  ASSUME MemoryOK(mem), Alike(mem, mem')
  PROVE  MemoryKept
BY AlikeMemoryOK DEF MemoryKept, Alike

LEMMA ErasedKept ==
  ASSUME TypeOK, MemoryOK(mem), NEW i \in 1 .. Len(mem.index), Alike(Erased(i), mem')
  PROVE  MemoryKept
BY ErasedMemoryOK, AlikeMemoryOK DEF MemoryKept, Alike, TypeOK

\* A plain client is at none of the labels of the other operations.
LEMMA PlainLabels ==
  ASSUME TypeOK, Plain, NEW t \in Clients
  PROVE  pc[t] \notin {"deleteIfFromMemory", "deleteIfFromDisk", "checkDiskMax", "setMemMax",
                       "checkMemMax", "setDiskMax"}
PROOF
  <1>1. call[t].op \in OpsAt(t, pc[t]) /\ call[t].op \in PlainOps \cup {"None"}
    BY ClientAt DEF TypeOK, Plain
  <1> QED BY <1>1, ClientAt DEF PlainOps, TypeOK

LEMMA StoreKeepsMemory ==
  ASSUME TypeOK, MemoryAccounted, NEW t \in Clients,
         \/ CheckWorkerIsStillRunning(t)
         \/ LockMemoryToStore(t) \/ StoreInMemory(t) \/ WaitForSpaceInMemory(t)
         \/ GiveUpStoring(t) \/ JoinWorker(t)
  PROVE  MemoryKept
PROOF
  <1> MemoryOK(mem) /\ StoresOK /\ ThreadsOK
    BY DEF MemoryAccounted, TypeOK
  <1> mem \in Storage(MemElements)
    BY DEF StoresOK
  <1>1. CASE CheckWorkerIsStillRunning(t) \/ LockMemoryToStore(t) \/ GiveUpStoring(t) \/ JoinWorker(t)
    <2>1. mem' = mem \/ mem' = Locked(mem, t) \/ mem' = Unlocked(mem)
      BY <1>1 DEF CheckWorkerIsStillRunning, LockMemoryToStore, GiveUpStoring, JoinWorker
    <2>2. Alike(mem, mem')
      BY <2>1, MutexAlike
    <2> QED BY <2>2, AlikeKept
  <1>2. CASE StoreInMemory(t)
    <2>1. pc[t] = "spaceInMemory" /\ HasSpace(mem, Required(t)) /\ Fits(t)
      BY <1>2 DEF StoreInMemory, MemoryAccounted
    <2>2. MemoryOK(Inserted(t)) /\ Inserted(t).max = mem.max /\ Inserted(t) \in Storage(MemElements)
      BY <2>1, InsertedMemoryOK, InsertedType DEF Fits, SpaceLabels
    <2>3. Alike(Inserted(t), mem')
      BY <1>2, <2>2, MutexAlike DEF StoreInMemory
    <2> QED BY <2>2, <2>3, AlikeMemoryOK DEF MemoryKept, Alike
  <1>3. CASE WaitForSpaceInMemory(t)
    <2> DEFINE i == FindMemoryRemovalCandidate
    <2>1. mem' = mem \/ (i # 0 /\ mem' = Erased(i))
      BY <1>3 DEF WaitForSpaceInMemory
    <2>2. i \in 0 .. Len(mem.index)
      BY SearchResults
    <2>3. ASSUME i # 0, mem' = Erased(i) PROVE MemoryKept
      <3>1. i \in 1 .. Len(mem.index)
        BY <2>2, <2>3
      <3>2. Alike(Erased(i), mem')
        BY <2>3 DEF Alike
      <3> HIDE DEF i
      <3> QED BY <3>1, <3>2, ErasedKept
    <2>4. ASSUME mem' = mem PROVE MemoryKept
      BY <2>4, AlikeKept DEF Alike
    <2> QED BY <2>1, <2>3, <2>4
  <1> QED BY <1>1, <1>2, <1>3

LEMMA WaitKeepsMemory ==
  ASSUME TypeOK, MemoryAccounted, NEW t \in Threads, WaitOnMemory(t) \/ WakeOnMemory(t)
  PROVE  MemoryKept
PROOF
  <1> MemoryOK(mem) /\ StoresOK /\ mem \in Storage(MemElements)
    BY DEF MemoryAccounted, TypeOK, StoresOK
  <1> DEFINE i == FindMemoryRemovalCandidate
  <1>1. \/ mem' = Waiting(mem, t) \/ mem' = Locked(mem, t)
        \/ i # 0 /\ mem' = Locked(Erased(i), t)
    BY DEF WaitOnMemory, WakeOnMemory
  <1>2. i \in 0 .. Len(mem.index)
    BY SearchResults
  <1>3. ASSUME i # 0, mem' = Locked(Erased(i), t) PROVE MemoryKept
    <2>1. i \in 1 .. Len(mem.index)
      BY <1>2, <1>3
    <2> HIDE DEF i
    <2>2. Erased(i) \in Storage(MemElements)
      BY <2>1, ErasedType
    <2>3. Alike(Erased(i), mem')
      BY <1>3, <2>2, MutexAlike
    <2> QED BY <2>1, <2>3, ErasedKept
  <1>4. ASSUME mem' = Waiting(mem, t) \/ mem' = Locked(mem, t) PROVE MemoryKept
    <2>1. Alike(mem, mem')
      BY <1>4, MutexAlike
    <2> QED BY <2>1, AlikeKept
  <1> QED BY <1>1, <1>3, <1>4

LEMMA StoreOnDiskKeepsMemory ==
  ASSUME TypeOK, MemoryAccounted, NEW t \in Threads, StoreOnDiskStep(t)
  PROVE  MemoryKept
PROOF
  <1> MemoryOK(mem) /\ mem \in Storage(MemElements)
    BY DEF MemoryAccounted, TypeOK, StoresOK
  <1>1. mem' \in {mem, Unlocked(mem), Notified(mem), Notified(Unlocked(mem))}
    BY DEF StoreOnDiskStep, BeginStoreOnDisk, EndWaitForSpaceOnDisk, NoticeCancelled, PopOldest,
           DecideToWaitOnDisk, WaitOnDisk, WakeOnDisk, WriteSucceeds, WriteFails, EndCancelled,
           AbandonStoreOnDisk
  <1>2. Alike(mem, mem')
    BY <1>1, MutexAlike
  <1> QED BY <1>2, AlikeKept

LEMMA CallsKeepMemory ==
  ASSUME TypeOK, Plain, MemoryAccounted, NEW t \in Clients,
         \/ GetFromMemory(t) \/ GetSettled(t) \/ GetStarted(t)
         \/ DeleteFromMemory(t) \/ DeleteFromDisk(t)
         \/ DeleteIfFromMemory(t) \/ DeleteIfFromDisk(t)
         \/ CheckDiskMax(t) \/ SetMaxMemoryUsage(t)
         \/ CheckMemMax(t) \/ SetMaxDiskUsage(t)
  PROVE  MemoryKept
PROOF
  <1> MemoryOK(mem) /\ StoresOK /\ mem \in Storage(MemElements)
    BY DEF MemoryAccounted, TypeOK, StoresOK
  <1>0. \/ GetFromMemory(t) \/ GetSettled(t) \/ GetStarted(t)
        \/ DeleteFromMemory(t) \/ DeleteFromDisk(t)
    BY PlainLabels DEF DeleteIfFromMemory, DeleteIfFromDisk, CheckDiskMax, SetMaxMemoryUsage,
       CheckMemMax, SetMaxDiskUsage
  <1> DEFINE i == Find(mem.index, call[t].key)
  <1>1. mem' = mem \/ (i # 0 /\ mem' = Notified(Erased(i)))
    BY <1>0 DEF GetFromMemory, GetSettled, GetStarted, DeleteFromMemory, DeleteFromDisk
  <1>2. i \in 0 .. Len(mem.index)
    BY FindResult DEF Storage
  <1>3. ASSUME i # 0, mem' = Notified(Erased(i)) PROVE MemoryKept
    <2>1. i \in 1 .. Len(mem.index)
      BY <1>2, <1>3
    <2> HIDE DEF i
    <2>2. Erased(i) \in Storage(MemElements)
      BY <2>1, ErasedType
    <2>3. Alike(Erased(i), mem')
      BY <1>3, <2>2, MutexAlike
    <2> QED BY <2>1, <2>3, ErasedKept
  <1>4. ASSUME mem' = mem PROVE MemoryKept
    BY <1>4, AlikeKept DEF Alike
  <1> QED BY <1>1, <1>3, <1>4

LEMMA CopyKeepsMemory ==
  ASSUME TypeOK, MemoryAccounted, TakeOldest \/ WorkerReturns \/ MarkStored
  PROVE  MemoryKept
PROOF
  <1> MemoryOK(mem) /\ StoresOK /\ mem \in Storage(MemElements)
    BY DEF MemoryAccounted, TypeOK, StoresOK
  <1>1. CASE WorkerReturns
    <2>1. Alike(mem, mem')
      BY <1>1, MutexAlike DEF WorkerReturns
    <2> QED BY <2>1, AlikeKept
  <1>2. ASSUME NEW i \in 0 .. Len(mem.index), NEW state \in States,
               \/ mem' = Locked(Marked(mem, i, state), Worker)
               \/ mem' = Notified(Marked(mem, i, state))
        PROVE  MemoryKept
    <2>1. /\ MemoryOK(Marked(mem, i, state)) /\ Marked(mem, i, state).max = mem.max
          /\ Marked(mem, i, state) \in Storage(MemElements)
      BY MarkedMemoryOK, MarkedType
    <2>2. Alike(Marked(mem, i, state), mem')
      BY <1>2, <2>1, MutexAlike
    <2> QED BY <2>1, <2>2, AlikeMemoryOK DEF MemoryKept, Alike
  <1>3. FindOldestInMemoryOnly \in 0 .. Len(mem.index)
    BY SearchResults
  <1>4. Find(mem.index, call[Worker].key) \in 0 .. Len(mem.index)
    BY FindResult DEF Storage
  <1>5. {"started", "completed"} \subseteq States
    BY DEF States
  <1> QED BY <1>1, <1>2, <1>3, <1>4, <1>5 DEF TakeOldest, MarkStored

LEMMA MemoryStays ==
  ASSUME TypeOK, Plain, MemoryAccounted, [Next]_vars
  PROVE  MemoryKept
PROOF
  <1> MemoryOK(mem) /\ mem \in Storage(MemElements)
    BY DEF MemoryAccounted, TypeOK, StoresOK
  <1>1. ASSUME NEW t \in Clients, ClientStep(t) PROVE MemoryKept
    <2> t \in Threads
      BY DEF Threads
    <2> QED BY <1>1, StoreKeepsMemory, WaitKeepsMemory, StoreOnDiskKeepsMemory, CallsKeepMemory
            DEF ClientStep
  <1>2. ASSUME WorkerStep PROVE MemoryKept
    <2> Worker \in Threads
      BY DEF Threads
    <2> QED BY <1>2, CopyKeepsMemory, WaitKeepsMemory, StoreOnDiskKeepsMemory DEF WorkerStep
  <1>3. ASSUME \/ \E t \in Clients : \E c \in Requests : Call(t, c)
               \/ DestructorStep \/ Destroyed \/ UNCHANGED vars
        PROVE  MemoryKept
    <2>1. mem' = mem \/ mem' = Notified(mem)
      BY <1>3 DEF Call, DestructorStep, Destroy, NotifyWorker, EndDestroy, Destroyed, vars
    <2>2. Alike(mem, mem')
      BY <2>1, MutexAlike
    <2> QED BY <2>2, AlikeKept
  <1> QED BY <1>1, <1>2, <1>3 DEF Next

\* A client comes to wait for space from LockMemoryToStore, which has compared.
LEMMA EntersSpace ==
  ASSUME TypeOK, NEW t \in Clients, ClientStep(t), pc'[t] \in SpaceLabels
  PROVE  call' = call /\ (pc[t] \in SpaceLabels \/ Required(t) <= mem.max)
PROOF
  <1> ThreadsOK /\ t \in Threads /\ t # Worker
    BY ClientAt DEF TypeOK
  <1>0. mem.max \in Nat
    BY DEF TypeOK, StoresOK, Storage
  <1>a. ASSUME NEW label, Goto(t, label) PROVE pc'[t] = label /\ call' = call
    BY <1>a DEF Goto, ThreadsOK
  <1>b. ASSUME NEW result, Return(t, result) PROVE FALSE
    BY <1>b DEF Return, ThreadsOK, SpaceLabels
  <1>c. ~Throw(t) /\ ~AfterDelete(t) /\ ~AfterStoreOnDisk(t) /\ ~ThrowFromStoreOnDisk(t)
    BY <1>a, <1>b DEF Throw, AfterDelete, AfterStoreOnDisk, ThrowFromStoreOnDisk, SpaceLabels
  <1>1. CASE StoreOnDiskStep(t)
    <2>1. \E label \in StoreOnDiskLabels : Goto(t, label)
      BY <1>1, <1>c DEF StoreOnDiskStep, BeginStoreOnDisk, EndWaitForSpaceOnDisk, NoticeCancelled,
         PopOldest, DecideToWaitOnDisk, WaitOnDisk, WakeOnDisk, WriteSucceeds, WriteFails,
         EndCancelled, AbandonStoreOnDisk, StoreOnDiskLabels
    <2> QED BY <2>1, <1>a DEF StoreOnDiskLabels, SpaceLabels
  <1>2. CASE CheckWorkerIsStillRunning(t)
    <2>1. Goto(t, AfterCheck(t)) /\ pc[t] \in {"check", "recheck"}
      BY <1>2, <1>c DEF CheckWorkerIsStillRunning
    <2>2. AfterCheck(t) \in {"lockMemory", "deleteFromMemory", "deleteIfFromMemory", "getFromMemory"}
      BY <2>1 DEF AfterCheck
    <2> QED BY <2>1, <2>2, <1>a DEF SpaceLabels
  <1>3. CASE LockMemoryToStore(t)
    <2>1. call' = call /\ ~(Required(t) > mem.max)
      BY <1>3, <1>a DEF LockMemoryToStore, TooLargeForMemory, SpaceLabels
    <2>2. Required(t) \in Nat
      BY <1>3, ClientAt, CallShape DEF LockMemoryToStore
    <2> QED BY <1>0, <2>1, <2>2
  <1>4. CASE \/ StoreInMemory(t) \/ WaitForSpaceInMemory(t)
             \/ GiveUpStoring(t) \/ JoinWorker(t)
             \/ WaitOnMemory(t) \/ WakeOnMemory(t)
    BY <1>4, <1>a, <1>b DEF StoreInMemory, WaitForSpaceInMemory, GiveUpStoring, JoinWorker,
       WaitOnMemory, WakeOnMemory, SpaceLabels
  <1>5. CASE \/ GetFromMemory(t) \/ GetSettled(t) \/ GetStarted(t)
             \/ DeleteFromMemory(t) \/ DeleteFromDisk(t)
             \/ DeleteIfFromMemory(t) \/ DeleteIfFromDisk(t)
    <2>1. \E label \in {"getFromDisk", "waitingToGet", "deleteFromDisk", "deleteIfFromMemory",
                        "deleteIfFromDisk"} : Goto(t, label)
      BY <1>5, <1>b, <1>c DEF GetFromMemory, GetSettled, ReadFile, GetStarted, DeleteFromMemory,
         DeleteFromDisk, DeleteIfFromMemory, DeleteIfFromDisk
    <2> QED BY <2>1, <1>a DEF SpaceLabels
  <1>6. CASE \/ CheckDiskMax(t) \/ SetMaxMemoryUsage(t)
             \/ CheckMemMax(t) \/ SetMaxDiskUsage(t)
    <2>1. \E label \in {"setMemMax", "setDiskMax"} : Goto(t, label)
      BY <1>6, <1>b DEF CheckDiskMax, SetMaxMemoryUsage, CheckMemMax, SetMaxDiskUsage
    <2> QED BY <2>1, <1>a DEF SpaceLabels
  <1> QED BY <1>1, <1>2, <1>3, <1>4, <1>5, <1>6 DEF ClientStep

\* What the others are doing is left alone by every step.
OthersKept(t) == \A u \in Threads \ {t} : pc'[u] = pc[u] /\ call'[u] = call[u]

LEMMA OneAtATime ==
  ASSUME TypeOK, [Next]_vars
  PROVE  \/ \E t \in Clients : ClientStep(t) /\ OthersKept(t)
         \/ WorkerStep /\ OthersKept(Worker)
         \/ \E t \in Clients, c \in Requests : Call(t, c) /\ OthersKept(t)
         \/ (DestructorStep \/ Destroyed \/ UNCHANGED vars) /\ pc' = pc /\ call' = call
PROOF
  <1>1. ASSUME NEW t \in Clients, ClientStep(t) PROVE OthersKept(t)
    BY <1>1, ClientAlone, ThreadsAssumption DEF Alone, OthersKept, Threads
  <1>2. ASSUME WorkerStep PROVE OthersKept(Worker)
    BY <1>2, WorkerAlone, ThreadsAssumption DEF Alone, OthersKept, Threads
  <1>3. ASSUME NEW t \in Clients, NEW c \in Requests, Call(t, c) PROVE OthersKept(t)
    BY <1>3 DEF Call, OthersKept, TypeOK, ThreadsOK
  <1>4. ASSUME DestructorStep \/ Destroyed \/ UNCHANGED vars PROVE pc' = pc /\ call' = call
    BY <1>4 DEF DestructorStep, Destroy, NotifyWorker, EndDestroy, Destroyed, vars, threadVars
  <1> QED BY <1>1, <1>2, <1>3, <1>4 DEF Next

LEMMA MemoryAccountedStep ==
  ASSUME TypeOK, Plain, MemoryAccounted, [Next]_vars
  PROVE  MemoryAccounted'
PROOF
  <1>1. MemoryOK(mem)' /\ mem'.max = mem.max
    BY MemoryStays DEF MemoryKept, MemoryOK
  <1>2. ASSUME NEW u \in Clients, pc'[u] = pc[u], call'[u] = call[u] PROVE Fits(u)'
    BY <1>1, <1>2 DEF Fits, Required, MemoryAccounted
  <1>3. ASSUME NEW t \in Clients, OthersKept(t), Fits(t)' PROVE \A u \in Clients : Fits(u)'
    BY <1>2, <1>3 DEF OthersKept, Threads
  <1>4. ASSUME NEW t \in Clients, ClientStep(t) PROVE Fits(t)'
    BY <1>1, <1>4, EntersSpace DEF Fits, Required, MemoryAccounted
  <1>5. ASSUME NEW t \in Clients, NEW c \in Requests, Call(t, c) PROVE Fits(t)'
    <2>1. pc'[t] \in {"check", "checkDiskMax", "checkMemMax"}
      BY <1>5 DEF Call, FirstLabel, TypeOK, ThreadsOK, Threads
    <2> QED BY <2>1 DEF Fits, SpaceLabels
  <1>6. ASSUME OthersKept(Worker) PROVE \A u \in Clients : Fits(u)'
    BY <1>2, <1>6, ThreadsAssumption DEF OthersKept, Threads
  <1>7. ASSUME pc' = pc, call' = call PROVE \A u \in Clients : Fits(u)'
    BY <1>2, <1>7
  <1>8. \A u \in Clients : Fits(u)'
    BY <1>3, <1>4, <1>5, <1>6, <1>7, OneAtATime
  <1> QED BY <1>1, <1>8 DEF MemoryAccounted

LEMMA PlainStep ==
  ASSUME \A c \in Requests : c.op \in PlainOps, TypeOK, Plain, [Next]_vars
  PROVE  Plain'
PROOF
  <1>1. ASSUME ClientsKept PROVE Plain'
    BY <1>1 DEF ClientsKept, Plain, NoCall
  <1>2. ASSUME NEW t \in Clients, NEW c \in Requests, Call(t, c) PROVE Plain'
    BY <1>2 DEF Call, Plain, TypeOK, ThreadsOK, Threads
  <1>3. ASSUME call' = call PROVE Plain'
    BY <1>3 DEF Plain
  <1> QED BY <1>1, <1>2, <1>3, ClientKeeps, WorkerKeeps, OneAtATime

-----------------------------------------------------------------------------
(* The directory.                                                          *)

\* A file belongs to a completed element.
Belongs(k) == files[k] # NoValue => \E d \in OnDisk(k) : d.state = "completed"
DiskOK ==
  /\ files \in Directories
  /\ disk.current = SumFunction(BytesOf(files)) /\ disk.current <= disk.max
  /\ \A k \in Keys : Belongs(k)

WriteLabels == {"spaceOnDisk", "writeFile", "waitOnDisk", "waitingOnDisk"}
Begun(k) == {[key |-> k, state |-> "started"]}
\* A thread that writes holds the disk mutex from the moment its element is in the index; nobody
\* takes the element, or the space that it has found, away.
Writes(t) ==
  /\ pc[t] \notin {"waitOnDisk", "waitingOnDisk"}
  /\ pc[t] \in {"spaceOnDisk", "writeFile"} =>
       Required(t) <= disk.max /\ OnDisk(call[t].key) = Begun(call[t].key)
  /\ pc[t] = "writeFile" /\ running => disk.current + Required(t) <= disk.max
DiskAccounted == DiskOK /\ \A t \in Threads : Writes(t)

Settled == Alike(disk, disk') /\ files' = files

LEMMA SettledDiskOK ==
  ASSUME DiskOK, Settled
  PROVE  DiskOK'
BY DEF DiskOK, Settled, Alike, Belongs, OnDisk

\* The others go on writing: the index is only changed by a thread that excludes them.
LEMMA OthersWrite ==
  ASSUME NEW u \in Threads, Writes(u), pc'[u] = pc[u], call'[u] = call[u], running' => running,
         Settled \/ pc[u] \notin WriteLabels
  PROVE  Writes(u)'
BY DEF Writes, WriteLabels, Settled, Alike, Required, OnDisk

\* A step that stays out of the directory.
Passes(t) == Settled /\ (running' => running) /\ pc'[t] \notin WriteLabels

LEMMA PassingStep ==
  ASSUME DiskAccounted, NEW t \in Threads, Passes(t), OthersKept(t)
  PROVE  DiskAccounted'
PROOF
  <1>1. DiskOK'
    BY SettledDiskOK DEF DiskAccounted, Passes
  <1>2. \A u \in Threads \ {t} : Writes(u)'
    BY OthersWrite DEF DiskAccounted, Passes, OthersKept
  <1>3. Writes(t)'
    BY DEF Writes, Passes, WriteLabels
  <1> QED BY <1>1, <1>2, <1>3 DEF DiskAccounted

\* A step of the thread that holds the disk mutex, or that takes a free one.
LEMMA WritingStep ==
  ASSUME MutualExclusion, DiskAccounted, NEW t \in Threads, disk.owner = t \/ Free(disk),
         OthersKept(t), running' = running, DiskOK', Writes(t)'
  PROVE  DiskAccounted'
PROOF
  <1>1. ASSUME NEW u \in Threads \ {t} PROVE Writes(u)'
    <2>1. pc[u] \notin DiskHolds
      BY ThreadsAssumption DEF MutualExclusion, Owned, Free, Threads
    <2>2. Writes(u)
      BY DEF DiskAccounted
    <2>3. pc[u] \notin WriteLabels
      BY <2>1, <2>2 DEF Writes, WriteLabels, DiskHolds
    <2> QED BY <2>2, <2>3, OthersWrite DEF OthersKept
  <1> QED BY <1>1 DEF DiskAccounted

\* What there is in the index of a key whose element is found in it.
LEMMA FoundOnDisk ==
  ASSUME StoresOK, NEW k \in Keys, Once(disk.index, k), Find(disk.index, k) # 0
  PROVE  /\ Find(disk.index, k) \in 1 .. Len(disk.index)
         /\ disk.index[Find(disk.index, k)].key = k
         /\ OnDisk(k) = {disk.index[Find(disk.index, k)]}
PROOF
  <1> DEFINE i == Find(disk.index, k)
  <1>1. i \in 0 .. Len(disk.index) /\ disk.index[i].key = k /\ Len(disk.index) \in Nat
    BY FindResult DEF StoresOK, Storage
  <1>2. i \in 1 .. Len(disk.index)
    BY <1>1
  <1> HIDE DEF i
  <1>3. OnDisk(k) = {disk.index[i]}
    BY <1>1, <1>2 DEF OnDisk, ElementsOf, Once
  <1> QED BY <1>1, <1>2, <1>3 DEF i

\* Losing an element with its file.
LEMMA RemovedDiskOK ==
  ASSUME TypeOK, AllCoherent, DiskOK, NEW i \in 1 .. Len(disk.index),
         files[disk.index[i].key] # NoValue,
         RemoveFile(disk.index[i].key), Alike(WithoutFile(i), disk')
  PROVE  /\ DiskOK'
         /\ \A q \in Keys : q # disk.index[i].key => OnDisk(q)' = OnDisk(q)
PROOF
  <1> DEFINE k == disk.index[i].key
  <1>1. disk.index \in Seq(DiskElements) /\ disk.index[i] \in DiskElements
    BY DEF TypeOK, StoresOK, Storage
  <1>2. k \in Keys
    BY <1>1 DEF DiskElements
  <1>3. files' = [files EXCEPT ![k] = NoValue] /\ files \in Directories
    BY DEF RemoveFile, DiskOK
  <1>4. /\ disk'.index = RemoveAt(disk.index, i) /\ disk'.max = disk.max
        /\ disk'.current = disk.current - Size[files[k]]
        /\ disk.max \in Nat /\ disk.current \in Int
    BY DEF WithoutFile, Alike, TypeOK, StoresOK, Storage
  <1>5. Size[files[k]] \in Nat
    <2>1. files[k] \in Values
      BY <1>2 DEF TypeOK, DirectoryOK
    <2> QED BY <2>1, DataAssumption
  <1>6. files' \in Directories /\ SumFunction(BytesOf(files)) = SumFunction(BytesOf(files')) + Size[files[k]]
    BY <1>2, <1>3, FileRemoved
  <1>7. SumFunction(BytesOf(files')) \in Int
    BY <1>6, FilesSummable, SumType
  <1>8. /\ disk'.current = SumFunction(BytesOf(files')) /\ disk'.current <= disk'.max
    BY <1>4, <1>5, <1>6, <1>7 DEF DiskOK
  <1>9. \A q \in Keys : q # k => OnDisk(q)' = OnDisk(q) /\ files'[q] = files[q]
    <2> TAKE q \in Keys
    <2>1. Once(disk.index, q)
      BY DEF AllCoherent, Coherent
    <2>2. q # k => ElementsOf(RemoveAt(disk.index, i), q) = ElementsOf(disk.index, q)
      BY <1>1, <2>1, RemoveElement
    <2>3. q # k => files'[q] = files[q]
      BY <1>3 DEF Directories
    <2> QED BY <1>4, <2>2, <2>3 DEF OnDisk
  <1>10. files'[k] = NoValue
    BY <1>2, <1>3 DEF Directories
  <1> HIDE DEF k
  <1>11. \A q \in Keys : Belongs(q)'
    BY <1>9, <1>10 DEF Belongs, DiskOK
  <1> QED BY <1>6, <1>8, <1>9, <1>11 DEF DiskOK, k

\* The element with which a store begins is the only one of its key.
LEMMA BeginAccounts ==
  ASSUME TypeOK, MutualExclusion, AllCoherent, DiskAccounted, NEW t \in Threads,
         BeginStoreOnDisk(t), Required(t) <= disk.max, OthersKept(t)
  PROVE  DiskAccounted'
PROOF
  <1> DEFINE k == call[t].key
             e == [key |-> k, state |-> "started"]
  <1>0. disk \in Storage(DiskElements) /\ ThreadsOK /\ disk.max \in Nat
    BY DEF TypeOK, StoresOK, Storage
  <1>1. /\ pc[t] = "lockDisk" /\ Free(disk) /\ UNCHANGED workerVars /\ files' = files
        /\ disk' = [Locked(disk, t) EXCEPT !.index = Append(@, e)]
        /\ Goto(t, "spaceOnDisk")
    <2>1. Required(t) \in Nat
      BY StoringOnDisk DEF TypeOK, BeginStoreOnDisk, StoreOnDiskLabels
    <2>2. ~(Required(t) > disk.max)
      BY <1>0, <2>1
    <2> QED BY <2>2 DEF BeginStoreOnDisk, directory
  <1>2. k \in Keys /\ t \in Storers(k)
    BY <1>1, StoringOnDisk DEF TypeOK, StoreOnDiskLabels, Storers
  <1>3. OnDisk(k) = {}
    BY <1>1, <1>2 DEF AllCoherent, Coherent, Stage, StageAt
  <1>4. /\ disk'.max = disk.max /\ disk'.current = disk.current
        /\ disk'.index = Append(disk.index, e)
        /\ disk.index \in Seq(DiskElements)
    BY <1>0, <1>1 DEF Storage, Locked
  <1>5. Longer(disk.index, disk'.index, e)
    BY <1>4 DEF Longer
  <1>6. ASSUME NEW q \in Keys
        PROVE  OnDisk(q)' = IF q = k THEN Begun(k) ELSE OnDisk(q)
    <2>1. Once(disk.index, q)
      BY DEF AllCoherent, Coherent
    <2> HIDE DEF e
    <2>2. e.key = k /\ Begun(k) = {e}
      BY DEF e, Begun
    <2> QED BY <1>3, <1>5, <2>1, <2>2, AppendElement DEF OnDisk
  <1>7. DiskOK'
    <2>1. DiskOK /\ \A q \in Keys : Belongs(q)
      BY DEF DiskAccounted, DiskOK
    <2>2. \A q \in Keys : Belongs(q)'
      BY <1>1, <1>3, <1>6, <2>1 DEF Belongs
    <2> QED BY <1>1, <1>4, <2>1, <2>2 DEF DiskOK
  <1>8. Writes(t)'
    <2>1. pc'[t] = "spaceOnDisk" /\ call' = call
      BY <1>0, <1>1 DEF Goto, ThreadsOK
    <2> QED BY <1>2, <1>4, <1>6, <2>1 DEF Writes, Required
  <1> QED BY <1>1, <1>7, <1>8, WritingStep DEF workerVars

\* It goes on to write its file once there is space for it, or the buffer has been stopped.
LEMMA SpaceAccounts ==
  ASSUME TypeOK, DiskAccounted, NEW t \in Threads, EndWaitForSpaceOnDisk(t), OthersKept(t)
  PROVE  DiskAccounted'
PROOF
  <1> ThreadsOK /\ disk.max \in Nat /\ disk.current \in Int
    BY DEF TypeOK, StoresOK, Storage
  <1>1. Required(t) \in Nat
    BY StoringOnDisk DEF TypeOK, EndWaitForSpaceOnDisk, StoreOnDiskLabels
  <1>2. pc'[t] = "writeFile" /\ call' = call /\ running' = running /\ disk' = disk /\ files' = files
    BY DEF EndWaitForSpaceOnDisk, Goto, ThreadsOK, workerVars, directory
  <1>3. Writes(t) /\ pc[t] = "spaceOnDisk"
    BY DEF DiskAccounted, EndWaitForSpaceOnDisk
  <1>4. running => disk.current + Required(t) <= disk.max
    BY <1>1, <1>3 DEF EndWaitForSpaceOnDisk, HasSpaceOnDisk, HasSpace, Writes
  <1>5. Settled
    BY <1>2 DEF Settled, Alike
  <1>6. Writes(t)'
    BY <1>2, <1>3, <1>4 DEF Writes, Required, OnDisk
  <1>7. \A u \in Threads \ {t} : Writes(u)'
    BY <1>2, <1>5, OthersWrite DEF DiskAccounted, OthersKept
  <1> QED BY <1>5, <1>6, <1>7, SettledDiskOK DEF DiskAccounted

\* Its element is still there, and not cancelled.
LEMMA WriterIsWanted ==
  ASSUME TypeOK, NEW t \in Threads, Writes(t), pc[t] = "spaceOnDisk"
  PROVE  StillWanted(t)
PROOF
  <1> DEFINE k == call[t].key
             i == Find(disk.index, k)
  <1>1. disk.index \in Seq(DiskElements) /\ OnDisk(k) = Begun(k)
    BY DEF TypeOK, StoresOK, Storage, Writes
  <1>2. i # 0 /\ disk.index[i] \in Begun(k)
    BY <1>1, FindElement DEF OnDisk, Begun
  <1> QED BY <1>2 DEF StillWanted, Begun

\* The space of a popped file is given back, and the element of the thread that pops it stays.
LEMMA PopAccounts ==
  ASSUME TypeOK, MutualExclusion, AllCoherent, DiskAccounted, NEW t \in Threads,
         PopOldest(t), pc'[t] \in WriteLabels, OthersKept(t)
  PROVE  DiskAccounted'
PROOF
  <1> DEFINE oldest == Head(disk.index)
  <1> ThreadsOK /\ StoresOK
    BY DEF TypeOK
  <1>0. pc[t] = "spaceOnDisk" /\ StillWanted(t) /\ oldest.state = "completed" /\ running' = running
    BY DEF PopOldest
  <1>1. ~ThrowFromStoreOnDisk(t)
    BY DEF ThrowFromStoreOnDisk, Return, ThreadsOK, WriteLabels
  <1>2. /\ files[oldest.key] # NoValue /\ RemoveFile(oldest.key) /\ disk' = WithoutFile(1)
        /\ Goto(t, "spaceOnDisk")
    BY <1>1 DEF PopOldest
  <1>3. Writes(t) /\ DiskOK
    BY DEF DiskAccounted
  <1>4. /\ disk.index \in Seq(DiskElements) /\ disk.index # <<>>
    <2>1. disk.index \in Seq(DiskElements)
      BY DEF StoresOK, Storage
    <2>2. OnDisk(call[t].key) # {}
      BY <1>0, <1>3 DEF Writes, Begun
    <2> QED BY <2>1, <2>2 DEF OnDisk, ElementsOf
  <1>5. 1 \in 1 .. Len(disk.index) /\ oldest = disk.index[1] /\ oldest \in DiskElements
    BY <1>4
  <1>6. Alike(WithoutFile(1), disk')
    BY <1>2 DEF Alike
  <1>7. DiskOK' /\ \A q \in Keys : q # oldest.key => OnDisk(q)' = OnDisk(q)
    <2> HIDE DEF oldest
    <2> QED BY <1>2, <1>3, <1>5, <1>6, RemovedDiskOK
  <1>8. call[t].key \in Keys /\ call[t].key # oldest.key
    <2>1. call[t].key \in Keys
      BY <1>0, StoringOnDisk DEF StoreOnDiskLabels
    <2>2. oldest \in OnDisk(oldest.key)
      <3> HIDE DEF oldest
      <3> QED BY <1>5 DEF OnDisk, ElementsOf
    <2>3. oldest \notin Begun(call[t].key)
      BY <1>0 DEF Begun
    <2> HIDE DEF oldest
    <2> QED BY <1>0, <1>3, <2>1, <2>2, <2>3 DEF Writes
  <1>9. Writes(t)'
    <2>1. pc'[t] = "spaceOnDisk" /\ call' = call
      BY <1>2 DEF Goto, ThreadsOK
    <2>2. disk'.max = disk.max
      BY <1>2 DEF WithoutFile, StoresOK, Storage
    <2> HIDE DEF oldest
    <2>3. OnDisk(call[t].key)' = OnDisk(call[t].key)
      BY <1>7, <1>8, <2>1
    <2> QED BY <1>0, <1>3, <2>1, <2>2, <2>3 DEF Writes, Required
  <1>10. disk.owner = t
    BY <1>0 DEF MutualExclusion, Owned, DiskHolds
  <1> HIDE DEF oldest
  <1> QED BY <1>0, <1>7, <1>9, <1>10, WritingStep

\* A file takes the space that was found for it, and its element is completed.
LEMMA WriteAccounts ==
  ASSUME TypeOK, MutualExclusion, AllCoherent, DiskAccounted, NEW t \in Threads,
         WriteSucceeds(t), OthersKept(t)
  PROVE  DiskAccounted'
PROOF
  <1> DEFINE k == call[t].key
             i == FindStartedToStoreOnDisk(k)
             e == [disk.index[i] EXCEPT !.state = "completed"]
             marked == Marked(disk, i, "completed")
  <1> ThreadsOK /\ StoresOK /\ disk \in Storage(DiskElements)
    BY DEF TypeOK, StoresOK
  <1>0. pc[t] = "writeFile" /\ running /\ running' = running /\ Writes(t) /\ DiskOK
    BY DEF WriteSucceeds, DiskAccounted, workerVars
  <1>1. k \in Keys /\ call[t].value \in Values /\ Required(t) \in Nat
    BY <1>0, StoringOnDisk DEF StoreOnDiskLabels
  <1>2. OnDisk(k) = Begun(k) /\ disk.current + Required(t) <= disk.max
    BY <1>0 DEF Writes
  <1>3. files[k] = NoValue
    BY <1>0, <1>1, <1>2 DEF DiskOK, Belongs, Begun
  <1>4. i \in 1 .. Len(disk.index) /\ disk.index[i].key = k
    <2>0. \E d \in OnDisk(k) : d.state = "started"
      BY <1>2 DEF Begun
    <2>1. i \in 0 .. Len(disk.index) /\ i # 0 /\ disk.index[i].key = k
      <3> HIDE DEF k
      <3> QED BY <2>0, FoundInState, SearchResults
    <2> HIDE DEF i
    <2> QED BY <2>1
  <1>5. Changed(disk.index, marked.index, i, e) /\ marked \in Storage(DiskElements)
    <2>1. "completed" \in States /\ i \in 0 .. Len(disk.index)
      BY <1>4 DEF States
    <2> HIDE DEF i
    <2> QED BY <1>4, <2>1, MarkElement, MarkedType
  <1>6. marked.current = disk.current /\ marked.max = disk.max
    BY <1>4 DEF Marked, Storage
  <1>7. /\ disk'.index = marked.index /\ disk'.max = disk.max
        /\ disk'.current = disk.current + Required(t)
    <2> HIDE DEF marked
    <2>1. disk' = [Notified(Unlocked(marked)) EXCEPT !.current = @ + Required(t)]
      BY DEF WriteSucceeds, marked
    <2> QED BY <1>5, <1>6, <2>1 DEF Notified, Unlocked, Storage
  <1>8. files' = [files EXCEPT ![k] = call[t].value]
    BY DEF WriteSucceeds
  <1>9. e.key = k /\ e.state = "completed"
    <2>1. disk.index[i] \in DiskElements
      <3> HIDE DEF i
      <3> QED BY <1>4 DEF Storage
    <2> HIDE DEF i
    <2> QED BY <1>4, <2>1 DEF DiskElements
  <1>10. ASSUME NEW q \in Keys PROVE OnDisk(q)' = IF q = k THEN {e} ELSE OnDisk(q)
    <2>1. Once(disk.index, q)
      BY DEF AllCoherent, Coherent
    <2> HIDE DEF e, marked, i
    <2> QED BY <1>5, <1>7, <1>9, <2>1, ChangeElement DEF OnDisk
  <1>11. /\ files' \in Directories
         /\ SumFunction(BytesOf(files')) = SumFunction(BytesOf(files)) + Required(t)
    BY <1>0, <1>1, <1>3, <1>8, FileAdded DEF DiskOK, Required
  <1> HIDE DEF e, marked, i
  <1>12. DiskOK'
    <2>1. \A q \in Keys : q # k => files'[q] = files[q]
      BY <1>8 DEF TypeOK, DirectoryOK
    <2>2. ASSUME NEW q \in Keys, q # k PROVE Belongs(q)'
      <3>1. Belongs(q) /\ OnDisk(q)' = OnDisk(q) /\ files'[q] = files[q]
        BY <1>0, <1>10, <2>1, <2>2 DEF DiskOK
      <3> QED BY <3>1 DEF Belongs
    <2>3. ASSUME NEW q \in Keys, q = k PROVE Belongs(q)'
      <3>1. OnDisk(q)' = {e}
        BY <1>10, <2>3
      <3>2. \E d \in OnDisk(q)' : d.state = "completed"
        BY <1>9, <3>1
      <3> QED BY <3>2 DEF Belongs
    <2>4. \A q \in Keys : Belongs(q)'
      BY <2>2, <2>3
    <2>5. disk.max \in Nat /\ disk.current \in Int
      BY DEF Storage
    <2> HIDE DEF k
    <2> QED BY <1>0, <1>2, <1>7, <1>11, <2>4, <2>5 DEF DiskOK
  <1>13. pc'[t] \notin WriteLabels
    BY DEF WriteSucceeds, AfterStoreOnDisk, Goto, Return, ThreadsOK, WriteLabels
  <1>14. disk.owner = t
    BY <1>0 DEF MutualExclusion, Owned, DiskHolds
  <1> QED BY <1>0, <1>12, <1>13, <1>14, WritingStep DEF Writes, WriteLabels

\* A store that ends otherwise leaves its bytes out.
LEMMA StoreOnDiskAccounts ==
  ASSUME HasPopFunctor, TypeOK, MutualExclusion, AllCoherent, DiskAccounted, NEW t \in Threads,
         StoreOnDiskStep(t), OthersKept(t)
  PROVE  DiskAccounted'
PROOF
  <1> ThreadsOK /\ disk \in Storage(DiskElements)
    BY DEF TypeOK, StoresOK
  <1>0. Writes(t)
    BY DEF DiskAccounted
  <1>1. ASSUME Alike(disk, disk'), files' = files, running' => running, pc'[t] \notin WriteLabels
        PROVE  DiskAccounted'
    BY <1>1, PassingStep DEF Passes, Settled
  <1>2. ASSUME ThrowFromStoreOnDisk(t) \/ AfterStoreOnDisk(t) PROVE pc'[t] \notin WriteLabels
    BY <1>2 DEF ThrowFromStoreOnDisk, AfterStoreOnDisk, Goto, Return, ThreadsOK, WriteLabels
  <1>3. CASE BeginStoreOnDisk(t)
    <2>1. CASE Required(t) <= disk.max
      BY <1>3, <2>1, BeginAccounts
    <2>2. CASE ~(Required(t) <= disk.max)
      <3>1. /\ disk' = Notified(disk) /\ files' = files /\ ~running'
            /\ ThrowFromStoreOnDisk(t)
        BY <1>3, <2>2 DEF BeginStoreOnDisk, directory, StopRunning
      <3> QED BY <1>1, <1>2, <3>1, MutexAlike
    <2> QED BY <2>1, <2>2
  <1>4. CASE EndWaitForSpaceOnDisk(t)
    BY <1>4, SpaceAccounts
  <1>5. CASE PopOldest(t)
    <2>1. CASE pc'[t] \in WriteLabels
      BY <1>5, <2>1, PopAccounts
    <2>2. CASE pc'[t] \notin WriteLabels
      <3>1. ~Goto(t, "spaceOnDisk")
        BY <2>2 DEF Goto, ThreadsOK, WriteLabels
      <3>2. disk' = Unlocked(disk) /\ files' = files /\ running' = running
        BY <1>5, <3>1 DEF PopOldest
      <3> QED BY <1>1, <2>2, <3>2, MutexAlike
    <2> QED BY <2>1, <2>2
  <1>6. CASE NoticeCancelled(t)
    BY <1>0, <1>6, WriterIsWanted DEF NoticeCancelled, StillWanted
  <1>7. CASE DecideToWaitOnDisk(t) \/ WaitOnDisk(t) \/ WakeOnDisk(t)
    BY <1>0, <1>7 DEF DecideToWaitOnDisk, WaitOnDisk, WakeOnDisk, Writes
  <1>8. CASE WriteSucceeds(t)
    BY <1>8, WriteAccounts
  <1>9. CASE WriteFails(t) \/ EndCancelled(t) \/ AbandonStoreOnDisk(t)
    <2>1. /\ disk' \in {disk, Unlocked(disk), Notified(Unlocked(disk))}
          /\ files' = files /\ (running' => running)
          /\ ThrowFromStoreOnDisk(t) \/ AfterStoreOnDisk(t)
      BY <1>9 DEF WriteFails, EndCancelled, AbandonStoreOnDisk, directory, StopRunning, workerVars
    <2> QED BY <1>1, <1>2, <2>1, MutexAlike
  <1> QED BY <1>3, <1>4, <1>5, <1>6, <1>7, <1>8, <1>9 DEF StoreOnDiskStep

\* A Delete gives the space of a file back, or cancels a store that has none yet.
LEMMA DeleteAccounts ==
  ASSUME TypeOK, MutualExclusion, AllCoherent, DiskAccounted, NEW t \in Clients,
         DeleteFromDisk(t), OthersKept(t)
  PROVE  DiskAccounted'
PROOF
  <1> DEFINE k == call[t].key
             i == Find(disk.index, k)
             e == [disk.index[i] EXCEPT !.state = "cancelled"]
             marked == Marked(disk, i, "cancelled")
  <1> ThreadsOK /\ StoresOK /\ disk \in Storage(DiskElements) /\ t \in Threads
    BY DEF TypeOK, StoresOK, Threads
  <1>0. pc[t] = "deleteFromDisk" /\ Free(disk) /\ running' = running /\ DiskOK
    BY DEF DeleteFromDisk, DiskAccounted, workerVars
  <1>1. k \in Keys
    BY <1>0, ClientAt, CallShape
  <1>2. pc'[t] \notin WriteLabels
    BY DEF DeleteFromDisk, Throw, AfterDelete, Goto, Return, ThreadsOK, WriteLabels
  <1>3. i # 0 => i \in 1 .. Len(disk.index) /\ disk.index[i].key = k /\ OnDisk(k) = {disk.index[i]}
    BY <1>1, FoundOnDisk DEF AllCoherent, Coherent
  <1>4. ASSUME DiskOK' PROVE DiskAccounted'
    BY <1>0, <1>2, <1>4, WritingStep DEF Writes, WriteLabels
  <1>5. CASE UNCHANGED <<disk, files>>
    BY <1>0, <1>4, <1>5, SettledDiskOK DEF Settled, Alike
  <1>6. ASSUME i # 0, disk.index[i].state \in {"started", "cancelled"},
               disk' = Notified(marked), files' = files
        PROVE  DiskOK'
    <2>1. Changed(disk.index, marked.index, i, e) /\ marked \in Storage(DiskElements)
      <3>1. "cancelled" \in States /\ i \in 1 .. Len(disk.index) /\ i \in 0 .. Len(disk.index)
        BY <1>3, <1>6 DEF States
      <3> HIDE DEF i
      <3> QED BY <3>1, MarkElement, MarkedType
    <2>2. marked.current = disk.current /\ marked.max = disk.max
      BY <1>6 DEF Marked, Storage
    <2> HIDE DEF marked
    <2>3. disk'.index = marked.index /\ disk'.max = disk.max /\ disk'.current = disk.current
      BY <1>6, <2>1, <2>2 DEF Notified, Storage
    <2> HIDE DEF i
    <2>4. e.key = k
      BY <1>3, <1>6, <2>1 DEF Changed
    <2> HIDE DEF e
    <2>5. ASSUME NEW q \in Keys, q # k PROVE OnDisk(q)' = OnDisk(q)
      <3>1. Once(disk.index, q)
        BY DEF AllCoherent, Coherent
      <3> QED BY <2>1, <2>3, <2>4, <2>5, <3>1, ChangeElement DEF OnDisk
    <2>6. files[k] = NoValue
      <3>1. \A d \in OnDisk(k) : d.state # "completed"
        BY <1>3, <1>6
      <3> QED BY <1>0, <1>1, <3>1 DEF DiskOK, Belongs
    <2>7. \A q \in Keys : Belongs(q)'
      BY <1>0, <1>6, <2>5, <2>6 DEF Belongs, DiskOK
    <2> QED BY <1>0, <1>6, <2>3, <2>7 DEF DiskOK
  <1>7. ASSUME i # 0, files[k] # NoValue, RemoveFile(k), disk' = Notified(WithoutFile(i))
        PROVE  DiskOK'
    <2> HIDE DEF i
    <2>1. i \in 1 .. Len(disk.index) /\ disk.index[i].key = k
      BY <1>3, <1>7
    <2>2. WithoutFile(i) \in Storage(DiskElements)
      BY <1>7, <2>1, WithoutFileType DEF TypeOK
    <2>3. Alike(WithoutFile(i), disk')
      BY <1>7, <2>2, MutexAlike
    <2> HIDE DEF k
    <2> QED BY <1>0, <1>7, <2>1, <2>3, RemovedDiskOK
  <1> QED BY <1>4, <1>5, <1>6, <1>7 DEF DeleteFromDisk

\* The rest of what the threads do stays out of the directory.
LEMMA ClientPasses ==
  ASSUME TypeOK, Plain, NEW t \in Clients,
         \/ CheckWorkerIsStillRunning(t)
         \/ LockMemoryToStore(t) \/ StoreInMemory(t) \/ WaitForSpaceInMemory(t)
         \/ GiveUpStoring(t) \/ JoinWorker(t)
         \/ WaitOnMemory(t) \/ WakeOnMemory(t)
         \/ GetFromMemory(t) \/ GetSettled(t) \/ GetStarted(t) \/ DeleteFromMemory(t)
  PROVE  Passes(t)
PROOF
  <1> ThreadsOK /\ disk \in Storage(DiskElements) /\ t \in Threads /\ t # Worker
    BY ClientAt DEF TypeOK, StoresOK
  <1>1. disk' \in {disk, Waiting(disk, t)} /\ files' = files /\ running' = running
    BY DEF CheckWorkerIsStillRunning, LockMemoryToStore, StoreInMemory, WaitForSpaceInMemory,
       GiveUpStoring, JoinWorker, WaitOnMemory, WakeOnMemory, GetFromMemory, GetSettled,
       GetStarted, DeleteFromMemory, directory, workerVars
  <1>2. Settled
    BY <1>1, MutexAlike DEF Settled
  <1>a. ASSUME NEW label, Goto(t, label) PROVE pc'[t] = label
    BY <1>a DEF Goto, ThreadsOK
  <1>b. ASSUME NEW result, Return(t, result) PROVE pc'[t] \notin WriteLabels
    BY <1>b DEF Return, ThreadsOK, WriteLabels
  <1>3. CASE CheckWorkerIsStillRunning(t)
    <2>1. Goto(t, AfterCheck(t)) \/ Goto(t, "recheck") \/ Return(t, "threw")
      BY <1>3 DEF CheckWorkerIsStillRunning, Throw
    <2>2. AfterCheck(t) \notin WriteLabels
      <3>1. pc[t] \in {"check", "recheck"}
        BY <1>3 DEF CheckWorkerIsStillRunning
      <3>2. AfterCheck(t) \in {"lockMemory", "deleteFromMemory", "deleteIfFromMemory", "getFromMemory"}
        BY <3>1 DEF AfterCheck
      <3> QED BY <3>2 DEF WriteLabels
    <2>3. pc'[t] \notin WriteLabels
      BY <2>1, <2>2, <1>a, <1>b DEF WriteLabels
    <2> QED BY <1>1, <1>2, <2>3 DEF Passes
  <1>4. CASE ~CheckWorkerIsStillRunning(t)
    <2>1. \/ \E result : Return(t, result)
          \/ \E label \in {"lockDisk", "spaceInMemory", "waitOnMemory", "joinWorker",
                           "waitingOnMemory", "getFromDisk", "waitingToGet", "deleteFromDisk",
                           "recheck"} : Goto(t, label)
      BY <1>4 DEF LockMemoryToStore, StoreInMemory, WaitForSpaceInMemory, GiveUpStoring,
         JoinWorker, WaitOnMemory, WakeOnMemory, GetFromMemory, GetSettled, ReadFile, GetStarted,
         DeleteFromMemory, AfterDelete
    <2>2. pc'[t] \notin WriteLabels
      BY <2>1, <1>a, <1>b DEF WriteLabels
    <2> QED BY <1>1, <1>2, <2>2 DEF Passes
  <1> QED BY <1>3, <1>4

LEMMA WorkerPasses ==
  ASSUME TypeOK,
         \/ TakeOldest \/ WorkerReturns \/ MarkStored
         \/ WaitOnMemory(Worker) \/ WakeOnMemory(Worker)
  PROVE  Passes(Worker)
PROOF
  <1> ThreadsOK /\ disk \in Storage(DiskElements) /\ Worker \in Threads
    BY DEF TypeOK, StoresOK, Threads
  <1>1. disk' \in {disk, Unlocked(disk)} /\ files' = files /\ running' = running
    BY DEF TakeOldest, WorkerReturns, MarkStored, WaitOnMemory, WakeOnMemory, directory, workerVars
  <1>2. Settled
    BY <1>1, MutexAlike DEF Settled
  <1>3. pc'[Worker] \notin WriteLabels
    BY DEF TakeOldest, WorkerReturns, MarkStored, WaitOnMemory, WakeOnMemory, Goto, ThreadsOK,
       WriteLabels
  <1> QED BY <1>1, <1>2, <1>3 DEF Passes

LEMMA DiskAccountedStep ==
  ASSUME HasPopFunctor, TypeOK, MutualExclusion, AllCoherent, Plain, DiskAccounted, [Next]_vars
  PROVE  DiskAccounted'
PROOF
  <1> disk \in Storage(DiskElements) /\ Worker \in Threads
    BY DEF TypeOK, StoresOK, Threads
  <1>1. ASSUME NEW t \in Clients, ClientStep(t), OthersKept(t) PROVE DiskAccounted'
    <2> t \in Threads
      BY DEF Threads
    <2>1. CASE StoreOnDiskStep(t)
      BY <1>1, <2>1, StoreOnDiskAccounts
    <2>2. CASE DeleteFromDisk(t)
      BY <1>1, <2>2, DeleteAccounts
    <2>3. CASE ~StoreOnDiskStep(t) /\ ~DeleteFromDisk(t)
      <3>1. /\ ~DeleteIfFromMemory(t) /\ ~DeleteIfFromDisk(t)
            /\ ~CheckDiskMax(t) /\ ~SetMaxMemoryUsage(t)
            /\ ~CheckMemMax(t) /\ ~SetMaxDiskUsage(t)
        BY PlainLabels DEF DeleteIfFromMemory, DeleteIfFromDisk, CheckDiskMax, SetMaxMemoryUsage,
           CheckMemMax, SetMaxDiskUsage
      <3>2. Passes(t)
        BY <1>1, <2>3, <3>1, ClientPasses DEF ClientStep
      <3> QED BY <1>1, <3>2, PassingStep
    <2> QED BY <2>1, <2>2, <2>3
  <1>2. ASSUME WorkerStep, OthersKept(Worker) PROVE DiskAccounted'
    BY <1>2, StoreOnDiskAccounts, WorkerPasses, PassingStep DEF WorkerStep
  <1>3. ASSUME NEW t \in Clients, NEW c \in Requests, Call(t, c), OthersKept(t) PROVE DiskAccounted'
    <2>1. t \in Threads /\ disk' = disk /\ files' = files /\ running' = running
      BY <1>3 DEF Call, directory, workerVars, Threads
    <2>2. pc'[t] \in {"check", "checkDiskMax", "checkMemMax"}
      BY <1>3 DEF Call, FirstLabel, TypeOK, ThreadsOK, Threads
    <2>3. Passes(t)
      BY <2>1, <2>2 DEF Passes, Settled, Alike, WriteLabels
    <2> QED BY <1>3, <2>1, <2>3, PassingStep
  <1>4. ASSUME DestructorStep \/ Destroyed \/ UNCHANGED vars, pc' = pc, call' = call
        PROVE  DiskAccounted'
    <2>1. disk' \in {disk, Notified(disk)} /\ files' = files /\ (running' => running)
      BY <1>4 DEF DestructorStep, Destroy, NotifyWorker, EndDestroy, Destroyed, vars, directory,
         workerVars, StopRunning
    <2>2. Settled
      BY <2>1, MutexAlike DEF Settled
    <2>3. \A u \in Threads : Writes(u)'
      BY <1>4, <2>1, <2>2, OthersWrite DEF DiskAccounted
    <2> QED BY <2>2, <2>3, SettledDiskOK DEF DiskAccounted
  <1> QED BY <1>1, <1>2, <1>3, <1>4, OneAtATime

-----------------------------------------------------------------------------
(* The theorem.                                                            *)

LEMMA AccountedInit ==
  ASSUME Init
  PROVE  Plain /\ MemoryAccounted /\ DiskAccounted
PROOF
  <1>1. Plain
    BY DEF Init, Plain, NoCall, Threads
  <1>2. /\ mem.index = <<>> /\ mem.current = 0 /\ mem.max \in Nat
        /\ disk.current = 0 /\ disk.max \in Nat
    BY LimitsAssumption DEF Init, EmptyStorage
  <1>3. \A t \in Threads : pc[t] \in {"findOldest", "idle"}
    BY DEF Init
  <1>4. SumFunction(Bytes(mem.index)) = 0
    <2>1. DOMAIN Bytes(mem.index) = {}
      BY <1>2 DEF Bytes
    <2> QED BY <2>1, SumOfNone
  <1>5. MemoryAccounted
    BY <1>2, <1>3, <1>4 DEF MemoryAccounted, MemoryOK, Fits, SpaceLabels, Threads
  <1>6. files \in [Keys -> Values \cup {NoValue}] /\ Kept(files) = {}
    BY DEF Init, Kept
  <1>7. SumFunction(BytesOf(files)) = 0
    <2>1. DOMAIN BytesOf(files) = {}
      BY <1>6 DEF BytesOf
    <2> QED BY <2>1, SumOfNone
  <1>8. DiskOK
    <2>1. files \in Directories
      BY <1>6, FS_EmptySet DEF Directories
    <2> QED BY <1>2, <1>6, <1>7, <2>1 DEF DiskOK, Belongs, Kept
  <1>9. DiskAccounted
    BY <1>3, <1>8 DEF DiskAccounted, Writes
  <1> QED BY <1>1, <1>5, <1>9

LEMMA AccountedIsEnough ==
  ASSUME TypeOK, MemoryAccounted, DiskAccounted
  PROVE  Accounting
PROOF
  <1>1. MemoryBytes = Bytes(mem.index)
    BY DEF MemoryBytes, Bytes
  <1>2. FileBytes = BytesOf(files)
    BY DEF FileBytes, BytesOf, Kept
  <1>3. ASSUME NEW k \in Keys, files[k] # NoValue
        PROVE  \E i \in DOMAIN disk.index :
                 disk.index[i].key = k /\ disk.index[i].state = "completed"
    <2>1. PICK d \in OnDisk(k) : d.state = "completed"
      BY <1>3 DEF DiskAccounted, DiskOK, Belongs
    <2>2. DOMAIN disk.index = 1 .. Len(disk.index)
      BY DEF TypeOK, StoresOK, Storage
    <2> QED BY <2>1, <2>2 DEF OnDisk, ElementsOf
  <1> QED BY <1>1, <1>2, <1>3 DEF Accounting, MemoryAccounted, MemoryOK, DiskAccounted, DiskOK

\* Each store's `current` is the number of bytes it really holds, and never exceeds its limit, for
\* every number of threads that store, get and delete: the space that StoreOnDisk finds is still
\* there when WriteFile has written, since nobody else adds to it while the disk mutex is held; a
\* Delete that meets a store on its way cancels it before it has taken any; and what an eviction, a
\* pop or a Delete gives back is what the store took.  The buffer pops, a key is stored once, and
\* clients call neither Delete(predicate), which leaves the files, nor the setters, which may lower
\* a limit below what is there: with any of these the code does break it.
THEOREM SpaceIsAccountedFor ==
  ASSUME HasPopFunctor, ~ReuseKeys,
         \A c \in Requests : c.op \in {"Store", "Get", "Delete"}
  PROVE  Spec => []Accounting
PROOF
  <1> DEFINE Inv == Sane /\ Plain /\ MemoryAccounted /\ DiskAccounted
  <1>1. Init => Inv
    BY TypeInit, MutexInit, OneWayInit, ContractInit, AccountedInit DEF Sane
  <1>2. Inv /\ [Next]_vars => Inv'
    <2> SUFFICES ASSUME Inv, [Next]_vars PROVE Inv'
      OBVIOUS
    <2>1. TypeOK'
      BY TypeStep DEF Sane
    <2>2. AllCoherent'
      BY <2>1, ServedStep DEF Served
    <2>3. Sane'
      BY <2>1, <2>2, MutexStep, OneWayStep DEF Sane
    <2>4. Plain' /\ MemoryAccounted' /\ DiskAccounted'
      BY PlainStep, MemoryAccountedStep, DiskAccountedStep DEF Sane, PlainOps
    <2> QED BY <2>3, <2>4
  <1>3. Inv => Accounting
    BY AccountedIsEnough DEF Sane
  <1> QED BY <1>1, <1>2, <1>3, PTL DEF Spec
=============================================================================

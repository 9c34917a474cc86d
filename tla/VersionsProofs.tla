--------------------------- MODULE VersionsProofs ---------------------------
(***************************************************************************)
(* StructuredDataVersions is well formed, implements VersionForest, and    *)
(* does not depend on the order in which versions arrive, as long as a     *)
(* version is only ever put under a lower index and nothing is merged in.  *)
(*                                                                         *)
(* The argument is one simulation relation: Keeps(d, c) says that every    *)
(* field of the object d is what the forest c, a map from each version to  *)
(* the one it was put under, makes of it.  Each operation of the class     *)
(* takes an object that keeps c to one that keeps the forest that the      *)
(* abstract operation makes of c; all the rest is read off Keeps.  As to   *)
(* the order of arrival, such an object is determined by its forest, and   *)
(* two edges may be added to a forest in either order.                     *)
(***************************************************************************)
EXTENDS VersionsProperties, FiniteSetTheorems, WellFoundedInduction,
        NaturalsInduction, TLAPS

USE NamesAssumption, RequestsAssumption, LimitsAssumption

-----------------------------------------------------------------------------
(* Forests.                                                                *)

Kids(c, v) == {w \in DOMAIN c : c[w] = v}
NoParents == {NoVersion, Dangling}

\* A version is always put under a lower one, so that no chain closes.
Numbered == \A r \in Requests : r.old # NoVersion => r.old.index < r.new.index

Lineage(c) ==
  /\ c = [v \in DOMAIN c |-> c[v]]
  /\ DOMAIN c \subseteq Names /\ IsFiniteSet(DOMAIN c)
  /\ \A v \in DOMAIN c : c[v] \in Names \cup {NoVersion}
  /\ \A v \in DOMAIN c : c[v] # NoVersion => c[v].index < v.index

Rooted(c, root) ==
  /\ root = NoVersion <=> DOMAIN c = {}
  /\ root # NoVersion => root \in DOMAIN c /\ c[root] \notin DOMAIN c
  /\ \A v \in DOMAIN c : c[v] = NoVersion => v = root

\* The versions that wait for a parent, and the same by the parent.
Waiting(c, root) == {v \in DOMAIN c \ {root} : c[v] \notin DOMAIN c}
Grouped(c, S) == [k \in {c[v] : v \in S} |-> {v \in S : c[v] = k}]

IsObject(d) ==
  DOMAIN d = {"maxVersions", "maxBranches", "parent", "children", "rootParent",
              "root", "tips", "orphans"}

\* The fields that hold the links between the versions.
Links(d, c) ==
  /\ d.parent = [v \in DOMAIN c |-> d.parent[v]]
  /\ \A v \in DOMAIN c : IF c[v] \in DOMAIN c THEN d.parent[v] = c[v]
                                              ELSE d.parent[v] \in NoParents
  /\ d.children = [v \in DOMAIN c |-> Kids(c, v)]
  /\ d.tips = {v \in DOMAIN c : Kids(c, v) = {}}

Minus(c, S) == [v \in DOMAIN c \ S |-> c[v]]

\* Every field of the object d is what the forest c makes of it.
Keeps(d, c) ==
  /\ IsObject(d)
  /\ Lineage(c) /\ Rooted(c, d.root) /\ Links(d, c)
  /\ d.rootParent = (IF d.root = NoVersion THEN NoVersion ELSE c[d.root])
  /\ d.orphans = Grouped(c, Waiting(c, d.root))

TipsOf(c) == {v \in DOMAIN c : Kids(c, v) = {}}
Small(c, l) ==
  /\ Cardinality(DOMAIN c) <= l.versions
  /\ Cardinality(TipsOf(c)) <= l.branches

HasLimits(d) == d.maxVersions \in Nat \ {0} /\ d.maxBranches \in Nat \ {0}

Sound(d) ==
  HasLimits(d) /\ \E c : Keeps(d, c) /\ Small(c, LimitsOf(d))

-----------------------------------------------------------------------------
(* What a well-kept object looks like.                                     *)

\* Nothing but its own fields makes an object.
LEMMA NewKeeps ==
  ASSUME NEW l, l.versions \in Nat \ {0}, l.branches \in Nat \ {0}
  PROVE  Keeps(New(l), EmptyFunction) /\ HasLimits(New(l))
           /\ Small(EmptyFunction, LimitsOf(New(l)))
<1> DEFINE e == New(l)
<1>1. IsObject(e) BY DEF IsObject, New
<1>2. e.parent = EmptyFunction /\ e.children = EmptyFunction
        /\ e.rootParent = NoVersion /\ e.root = NoVersion /\ e.tips = {}
        /\ e.orphans = EmptyFunction /\ e.maxVersions = l.versions
        /\ e.maxBranches = l.branches
  BY DEF New
<1>3. DOMAIN EmptyFunction = {} BY DEF EmptyFunction
<1>4. Lineage(EmptyFunction)
  BY <1>3, FS_EmptySet DEF Lineage, EmptyFunction
<1>5. Rooted(EmptyFunction, NoVersion) BY <1>3 DEF Rooted
<1>6. Waiting(EmptyFunction, NoVersion) = {} BY <1>3 DEF Waiting
<1>7. Keeps(e, EmptyFunction)
  <2> HIDE DEF e
  <2>1. EmptyFunction = [v \in DOMAIN EmptyFunction |-> Kids(EmptyFunction, v)]
    BY <1>3 DEF EmptyFunction
  <2>2. EmptyFunction = Grouped(EmptyFunction, Waiting(EmptyFunction, NoVersion))
    BY <1>6 DEF EmptyFunction, Grouped
  <2>3. EmptyFunction = [v \in DOMAIN EmptyFunction |-> EmptyFunction[v]]
    BY <1>3 DEF EmptyFunction
  <2> QED BY <1>1, <1>2, <1>3, <1>4, <1>5, <2>1, <2>2, <2>3 DEF Keeps, Links
<1>8. HasLimits(e) BY <1>2 DEF HasLimits
<1>9. Small(EmptyFunction, LimitsOf(e))
  BY <1>2, <1>3, FS_EmptySet DEF Small, TipsOf, LimitsOf
<1> QED BY <1>7, <1>8, <1>9

\* The abstract forest that an object keeps is the one read off it.
LEMMA KeptIsClaimed ==
  ASSUME NEW d, NEW c, Keeps(d, c)
  PROVE  c = Claims(d)
<1>1. DOMAIN c = Present(d) BY DEF Keeps, Links, Present
<1>2. ASSUME NEW v \in DOMAIN c PROVE Claimed(d, v) = c[v]
  <2>0. v \in Names /\ v # NoVersion BY DEF Keeps, Links, Lineage
  <2>1. CASE v = d.root BY <2>0, <2>1 DEF Claimed, Keeps
  <2>2. CASE v # d.root /\ d.parent[v] \in Present(d)
    <3>1. c[v] \in DOMAIN c
      BY <1>1, <2>2 DEF Keeps, Links, NoParents, Lineage
    <3> QED BY <3>1, <2>2 DEF Keeps, Links, Claimed
  <2>3. CASE v # d.root /\ d.parent[v] \notin Present(d)
    <3>1. c[v] \notin DOMAIN c BY <1>1, <2>3 DEF Keeps, Links
    <3>2. c[v] \in DOMAIN d.orphans /\ v \in d.orphans[c[v]]
      BY <3>1, <2>3 DEF Keeps, Links, Waiting, Grouped
    <3>3. \A p \in DOMAIN d.orphans : v \in d.orphans[p] => p = c[v]
      BY DEF Keeps, Links, Grouped
    <3>4. OrphanKey(d, v) = c[v] BY <3>2, <3>3 DEF OrphanKey
    <3>5. Claimed(d, v) = OrphanKey(d, v) BY <2>3 DEF Claimed
    <3> QED BY <3>4, <3>5
  <2> QED BY <2>1, <2>2, <2>3
<1>3. c = [v \in DOMAIN c |-> c[v]] BY DEF Keeps, Links, Lineage
<1> QED BY <1>1, <1>2, <1>3 DEF Claims

-----------------------------------------------------------------------------
(* The lowest of some versions.                                            *)

LEMMA LeastNumber ==
  ASSUME NEW I \in SUBSET Nat, I # {}
  PROVE  \E n \in I : \A m \in I : n <= m
<1> DEFINE R == OpToRel(<, Nat)
<1>1. IsWellFoundedOn(R, Nat) BY NatLessThanWellFounded
<1>2. \A x, y \in Nat : y < x => <<y, x>> \in R BY DEF OpToRel
<1> HIDE DEF R
<1>3. PICK n \in I : \A m \in I : ~(<<m, n>> \in R) BY <1>1, WFMin
<1>4. ASSUME NEW m \in I PROVE n <= m
  <2>1. n \in Nat /\ m \in Nat OBVIOUS
  <2>2. ~(m < n) BY <1>2, <1>3, <2>1
  <2> QED BY <2>1, <2>2
<1> QED BY <1>4

LEMMA LowestVersion ==
  ASSUME NEW S \in SUBSET Names, S # {}
  PROVE  \E v \in S : \A w \in S : v.index <= w.index
<1> DEFINE I == {v.index : v \in S}
<1>1. I \in SUBSET Nat /\ I # {} OBVIOUS
<1>2. PICK n \in I : \A m \in I : n <= m
  <2> HIDE DEF I
  <2> QED BY <1>1, LeastNumber
<1>3. PICK v \in S : v.index = n OBVIOUS
<1> QED BY <1>2, <1>3

\* Versions are compared by index and then by id.
LEMMA LeastIsLowest ==
  ASSUME NEW S \in SUBSET Names, S # {}
  PROVE  Least(S) \in S /\ \A w \in S \ {Least(S)} : Less(Least(S), w)
<1>1. PICK u \in S : \A w \in S : u.index <= w.index BY LowestVersion
<1> DEFINE T == {w \in S : w.index = u.index}
           I == {w.id : w \in T}
<1>2. I \in SUBSET Nat /\ I # {} OBVIOUS
<1>3. PICK n \in I : \A m \in I : n <= m
  <2> HIDE DEF I
  <2> QED BY <1>2, LeastNumber
<1>4. PICK v \in T : v.id = n OBVIOUS
<1>5. ASSUME NEW w \in S \ {v} PROVE Less(v, w)
  <2>1. v \in [index : Nat, id : Nat] /\ w \in [index : Nat, id : Nat]
    OBVIOUS
  <2>2. CASE w.index # u.index
    BY <1>1, <2>1, <2>2 DEF Less
  <2>3. CASE w.index = u.index
    <3>1. w.id \in I BY <2>3
    <3>2. n <= w.id BY <3>1, <1>3
    <3>3. w.id # v.id BY <2>1, <2>3
    <3> QED BY <2>1, <2>3, <3>2, <3>3, <1>4 DEF Less
  <2> QED BY <2>2, <2>3
<1>6. \E a \in S : \A b \in S \ {a} : Less(a, b) BY <1>4, <1>5
<1> QED BY <1>6 DEF Least

-----------------------------------------------------------------------------
(* Chains of parents.                                                      *)

\* The versions from v up to the front of its branch.
IsChain(s, c, v) ==
  /\ s \in Seq(DOMAIN c) /\ Len(s) >= 1 /\ s[1] = v
  /\ \A i \in 1 .. Len(s) - 1 : s[i + 1] = c[s[i]]
  /\ c[s[Len(s)]] \notin DOMAIN c
Chain(c, v) == CHOOSE s : IsChain(s, c, v)

LEMMA LongerChain ==
  ASSUME NEW c, NEW v \in DOMAIN c, c[v] \in DOMAIN c, NEW s,
         IsChain(s, c, c[v])
  PROVE  IsChain(<<v>> \o s, c, v)
<1> DEFINE t == <<v>> \o s
<1>1. s \in Seq(DOMAIN c) /\ Len(s) \in Nat /\ Len(s) >= 1 BY DEF IsChain
<1>2. t \in Seq(DOMAIN c) /\ Len(t) = Len(s) + 1 /\ t[1] = v
        /\ \A i \in 1 .. Len(s) : t[i + 1] = s[i]
  BY <1>1
<1>3. ASSUME NEW i \in 1 .. Len(t) - 1 PROVE t[i + 1] = c[t[i]]
  <2> HIDE DEF t
  <2>1. CASE i = 1 BY <1>1, <1>2, <2>1 DEF IsChain
  <2>2. CASE i # 1
    <3>1. i - 1 \in 1 .. Len(s) - 1 BY <1>2, <1>1, <2>2
    <3>2. s[(i - 1) + 1] = c[s[i - 1]] BY <3>1 DEF IsChain
    <3>3. t[(i - 1) + 1] = s[i - 1] /\ (i - 1) + 1 = i /\ t[i + 1] = s[i]
      BY <3>1, <1>2, <1>1
    <3> QED BY <3>2, <3>3
  <2> QED BY <2>1, <2>2
<1>4. t[Len(t)] = s[Len(s)] BY <1>1, <1>2
<1> HIDE DEF t
<1> QED BY <1>1, <1>2, <1>3, <1>4 DEF IsChain, t

LEMMA ChainExists ==
  ASSUME NEW c, Lineage(c), NEW v \in DOMAIN c
  PROVE  IsChain(Chain(c, v), c, v)
<1> DEFINE Bad == {w \in DOMAIN c : ~ \E s : IsChain(s, c, w)}
<1>1. Bad = {}
  <2> SUFFICES ASSUME Bad # {} PROVE FALSE OBVIOUS
  <2>1. Bad \in SUBSET Names BY DEF Lineage
  <2>2. PICK w \in Bad : \A x \in Bad : w.index <= x.index
    <3> HIDE DEF Bad
    <3> QED BY <2>1, LowestVersion
  <2>3. CASE c[w] \notin DOMAIN c
    <3>1. IsChain(<<w>>, c, w) BY <2>3 DEF IsChain
    <3> QED BY <3>1, <2>2
  <2>4. CASE c[w] \in DOMAIN c
    <3>1. c[w] \in Names /\ w \in Names /\ c[w].index < w.index
      BY <2>4 DEF Lineage
    <3>2. c[w] \notin Bad BY <3>1, <2>2
    <3>3. PICK s : IsChain(s, c, c[w]) BY <3>2, <2>4
    <3>4. IsChain(<<w>> \o s, c, w) BY <3>3, <2>4, LongerChain
    <3> QED BY <3>4
  <2> QED BY <2>3, <2>4
<1>2. \E s : IsChain(s, c, v) BY <1>1
<1> QED BY <1>2 DEF Chain

LEMMA ChainUnique ==
  ASSUME NEW c, NEW v, NEW s, NEW t, IsChain(s, c, v), IsChain(t, c, v)
  PROVE  s = t
<1>0. s \in Seq(DOMAIN c) /\ t \in Seq(DOMAIN c)
        /\ Len(s) \in Nat \ {0} /\ Len(t) \in Nat \ {0}
  BY DEF IsChain
<1> DEFINE Bad == {i \in 1 .. Len(s) : i > Len(t) \/ s[i] # t[i]}
<1>1. Bad = {}
  <2> SUFFICES ASSUME Bad # {} PROVE FALSE OBVIOUS
  <2>1. Bad \in SUBSET Nat BY <1>0
  <2>2. PICK i \in Bad : \A j \in Bad : i <= j
    <3> HIDE DEF Bad
    <3> QED BY <2>1, LeastNumber
  <2>3. i # 1 BY <1>0 DEF IsChain
  <2>4. i - 1 \in 1 .. Len(s) - 1 /\ i - 1 \notin Bad BY <2>2, <2>3, <1>0
  <2>5. i - 1 <= Len(t) /\ s[i - 1] = t[i - 1] BY <2>4, <1>0
  <2>6. s[i] = c[s[i - 1]] BY <2>4, <1>0 DEF IsChain
  <2>7. CASE i - 1 < Len(t)
    <3>1. i - 1 \in 1 .. Len(t) - 1 BY <2>7, <2>4, <1>0
    <3>2. t[i] = c[t[i - 1]] BY <3>1, <1>0 DEF IsChain
    <3> QED BY <3>1, <3>2, <2>5, <2>6, <1>0
  <2>8. CASE i - 1 = Len(t)
    <3>1. s[i] \in DOMAIN c BY <1>0
    <3> QED BY <3>1, <2>5, <2>6, <2>8 DEF IsChain
  <2> QED BY <2>7, <2>8, <2>5, <1>0
<1>2. Len(s) <= Len(t) /\ \A i \in 1 .. Len(s) : s[i] = t[i]
  <2>1. Len(s) \notin Bad BY <1>1
  <2> QED BY <1>1, <2>1, <1>0
<1>3. Len(s) = Len(t)
  <2> SUFFICES ASSUME Len(s) < Len(t) PROVE FALSE BY <1>2, <1>0
  <2>1. Len(s) \in 1 .. Len(t) - 1 BY <1>0
  <2>2. t[Len(s) + 1] = c[t[Len(s)]] BY <2>1 DEF IsChain
  <2>3. t[Len(s) + 1] \in DOMAIN c BY <1>0
  <2>4. t[Len(s)] = s[Len(s)] BY <1>2, <1>0
  <2> QED BY <2>2, <2>3, <2>4 DEF IsChain
<1> QED BY <1>0, <1>2, <1>3

\* The indices fall on the way up.
LEMMA ChainFalls ==
  ASSUME NEW c, Lineage(c), NEW v, NEW s, IsChain(s, c, v),
         NEW i \in 1 .. Len(s), NEW j \in 1 .. Len(s), i < j
  PROVE  s[j].index < s[i].index
<1>0. s \in Seq(DOMAIN c) /\ Len(s) \in Nat \ {0} BY DEF IsChain
<1>1. \A k \in 1 .. Len(s) : s[k] \in Names /\ s[k].index \in Nat
  <2>1. \A k \in 1 .. Len(s) : s[k] \in DOMAIN c BY <1>0
  <2> QED BY <2>1 DEF Lineage
<1> DEFINE Bad == {k \in i + 1 .. Len(s) : ~(s[k].index < s[i].index)}
<1>2. Bad = {}
  <2> SUFFICES ASSUME Bad # {} PROVE FALSE OBVIOUS
  <2>1. Bad \in SUBSET Nat BY <1>0
  <2>2. PICK k \in Bad : \A m \in Bad : k <= m
    <3> HIDE DEF Bad
    <3> QED BY <2>1, LeastNumber
  <2>3. k - 1 \in 1 .. Len(s) - 1 /\ k - 1 \notin Bad /\ k \in Nat
    BY <2>2, <1>0
  <2>4. s[(k - 1) + 1] = c[s[k - 1]] BY <2>3 DEF IsChain
  <2>5. s[k] = c[s[k - 1]] /\ s[k] \in Names /\ s[k - 1] \in DOMAIN c
    BY <2>3, <2>4, <1>1, <1>0
  <2>6. s[k].index < s[k - 1].index BY <2>5 DEF Lineage
  <2>7. s[k - 1].index \in Nat /\ s[k].index \in Nat /\ s[i].index \in Nat
    BY <1>1, <2>3, <1>0, SMTT(30)
  <2>8. CASE k - 1 = i BY <2>6, <2>8
  <2>9. CASE k - 1 # i
    <3>1. s[k - 1].index < s[i].index BY <2>3, <2>9, <1>0
    <3> QED BY <3>1, <2>6, <2>7, SMTT(30)
  <2> QED BY <2>8, <2>9
<1>3. j \in i + 1 .. Len(s) BY <1>0
<1> QED BY <1>2, <1>3

LEMMA ChainVisitsOnce ==
  ASSUME NEW c, Lineage(c), NEW v, NEW s, IsChain(s, c, v),
         NEW i \in 1 .. Len(s), NEW j \in 1 .. Len(s), s[i] = s[j]
  PROVE  i = j
<1>0. s \in Seq(DOMAIN c) /\ Len(s) \in Nat \ {0} BY DEF IsChain
<1>1. s[i].index \in Nat /\ s[j].index \in Nat
  <2>1. s[i] \in DOMAIN c /\ s[j] \in DOMAIN c BY <1>0
  <2> QED BY <2>1 DEF Lineage
<1>2. ~(i < j) BY ChainFalls, <1>1
<1>3. ~(j < i) BY ChainFalls, <1>1
<1> QED BY <1>2, <1>3, <1>0

\* A chain starts where the chain of any of its versions does, further up.
LEMMA ChainStep ==
  ASSUME NEW c, Lineage(c), NEW v \in DOMAIN c
  PROVE  Chain(c, v) = IF c[v] \in DOMAIN c THEN <<v>> \o Chain(c, c[v])
                                            ELSE <<v>>
<1>1. IsChain(Chain(c, v), c, v) BY ChainExists
<1>2. CASE c[v] \in DOMAIN c
  <2>1. IsChain(Chain(c, c[v]), c, c[v]) BY <1>2, ChainExists
  <2>2. IsChain(<<v>> \o Chain(c, c[v]), c, v) BY <2>1, <1>2, LongerChain
  <2> QED BY <1>1, <2>2, <1>2, ChainUnique
<1>3. CASE c[v] \notin DOMAIN c
  <2>1. IsChain(<<v>>, c, v) BY <1>3 DEF IsChain
  <2> QED BY <1>1, <2>1, <1>3, ChainUnique
<1> QED BY <1>2, <1>3

\* What Upwards computes, whatever function its definition chooses.
LEMMA UpwardsIsChain ==
  ASSUME NEW d, NEW c, Lineage(c), Links(d, c), NEW v \in DOMAIN c
  PROVE  Upwards(d, v) = Chain(c, v)
<1> DEFINE Eq(f) ==
      f = [w \in Present(d) |->
             IF d.parent[w] \in Present(d) THEN <<w>> \o f[d.parent[w]]
                                           ELSE <<w>>]
    up == CHOOSE f : Eq(f)
<1>0. Lineage(c) /\ Present(d) = DOMAIN c BY DEF Keeps, Links, Present
<1>1. \A w \in DOMAIN c : /\ d.parent[w] \in DOMAIN c <=> c[w] \in DOMAIN c
                          /\ c[w] \in DOMAIN c => d.parent[w] = c[w]
  BY DEF Keeps, Links, Lineage, NoParents
<1>2. Eq([w \in DOMAIN c |-> Chain(c, w)])
  <2> DEFINE g == [w \in DOMAIN c |-> Chain(c, w)]
  <2>1. ASSUME NEW w \in DOMAIN c
        PROVE  g[w] = IF d.parent[w] \in DOMAIN c THEN <<w>> \o g[d.parent[w]]
                                                  ELSE <<w>>
    BY <1>0, <1>1, ChainStep
  <2> QED BY <1>0, <2>1
<1>3. Eq(up)
  <2> HIDE DEF Eq
  <2> QED BY <1>2
<1>4. Upwards(d, v) = up[v] BY DEF Upwards
<1>5. \A w \in DOMAIN c :
        up[w] = IF d.parent[w] \in DOMAIN c THEN <<w>> \o up[d.parent[w]]
                                            ELSE <<w>>
  <2> HIDE DEF up
  <2> QED BY <1>0, <1>3
<1> HIDE DEF up
<1> DEFINE Bad == {w \in DOMAIN c : up[w] # Chain(c, w)}
<1>6. Bad = {}
  <2> SUFFICES ASSUME Bad # {} PROVE FALSE OBVIOUS
  <2>1. Bad \in SUBSET Names BY <1>0 DEF Lineage
  <2>2. PICK w \in Bad : \A x \in Bad : w.index <= x.index
    <3> HIDE DEF Bad
    <3> QED BY <2>1, LowestVersion
  <2>3. CASE c[w] \notin DOMAIN c
    BY <1>0, <1>1, <1>5, <2>2, <2>3, ChainStep
  <2>4. CASE c[w] \in DOMAIN c
    <3>1. c[w] \in Names /\ w \in Names /\ c[w].index < w.index
      BY <2>4, <1>0 DEF Lineage
    <3>2. c[w] \notin Bad BY <3>1, <2>2
    <3>3. up[c[w]] = Chain(c, c[w]) BY <3>2, <2>4
    <3>4. up[w] = <<w>> \o up[c[w]] BY <1>1, <1>5, <2>4
    <3>5. Chain(c, w) = <<w>> \o Chain(c, c[w]) BY <1>0, <2>4, ChainStep
    <3> QED BY <3>3, <3>4, <3>5, <2>2
  <2> QED BY <2>3, <2>4
<1> QED BY <1>4, <1>6

\* The same of the abstract forest, which wants the versions in no order.
LEMMA AboveIsChain ==
  ASSUME NEW c, Lineage(c), NEW v \in DOMAIN c
  PROVE  TheForest!Above(c, v) = Range(Chain(c, v))
<1> DEFINE Eq(f) ==
      f = [w \in DOMAIN c |->
             {w} \cup IF c[w] \in DOMAIN c THEN f[c[w]] ELSE {}]
    up == CHOOSE f : Eq(f)
<1>1. ASSUME NEW w \in DOMAIN c
      PROVE  Range(Chain(c, w)) =
               {w} \cup IF c[w] \in DOMAIN c THEN Range(Chain(c, c[w])) ELSE {}
  <2>1. CASE c[w] \notin DOMAIN c
    <3>1. Chain(c, w) = <<w>> BY <2>1, ChainStep
    <3> QED BY <3>1, <2>1 DEF Range
  <2>2. CASE c[w] \in DOMAIN c
    <3> DEFINE s == Chain(c, c[w])
    <3>1. Chain(c, w) = <<w>> \o s BY <2>2, ChainStep
    <3>2. s \in Seq(DOMAIN c) BY <2>2, ChainExists DEF IsChain
    <3> HIDE DEF s
    <3>3. \A x : x \in Range(<<w>> \o s) <=> x = w \/ x \in Range(s)
      <4>1. Range(<<w>> \o s) = {(<<w>> \o s)[i] : i \in 1 .. Len(s) + 1}
        <5> DEFINE t == <<w>> \o s
        <5>1. t \in Seq(DOMAIN c) /\ Len(t) = Len(s) + 1 BY <3>2
        <5> HIDE DEF t
        <5>2. DOMAIN t = 1 .. Len(s) + 1 BY <5>1, <3>2
        <5>3. Range(t) = {t[i] : i \in 1 .. Len(s) + 1} BY <5>2 DEF Range
        <5> QED BY <5>3 DEF t
      <4>2. (<<w>> \o s)[1] = w
              /\ \A i \in 1 .. Len(s) : (<<w>> \o s)[i + 1] = s[i]
        BY <3>2
      <4>3. \A i \in 1 .. Len(s) + 1 : i = 1 \/ i - 1 \in 1 .. Len(s)
        BY <3>2
      <4>4. ASSUME NEW x, x = w \/ x \in Range(s)
            PROVE  x \in Range(<<w>> \o s)
        <5>1. 1 \in 1 .. Len(s) + 1 BY <3>2
        <5>2. \A i \in 1 .. Len(s) : i + 1 \in 1 .. Len(s) + 1 BY <3>2
        <5>3. Range(s) = {s[i] : i \in 1 .. Len(s)} BY <3>2 DEF Range
        <5>4. CASE x = w BY <4>1, <4>2, <5>1, <5>4
        <5>5. CASE x \in Range(s)
          <6>1. PICK i \in 1 .. Len(s) : x = s[i] BY <5>3, <5>5
          <6>2. x = (<<w>> \o s)[i + 1] /\ i + 1 \in 1 .. Len(s) + 1 BY <4>2, <5>2, <6>1
          <6> HIDE DEF s
          <6> QED BY <4>1, <6>2
        <5> QED BY <4>4, <5>4, <5>5
      <4>5. ASSUME NEW x \in Range(<<w>> \o s) PROVE x = w \/ x \in Range(s)
        <5>1. PICK i \in 1 .. Len(s) + 1 : x = (<<w>> \o s)[i] BY <4>1
        <5>2. CASE i = 1 BY <5>1, <5>2, <4>2
        <5>3. CASE i # 1
          <6>1. i - 1 \in 1 .. Len(s) BY <4>3, <5>3
          <6>2. x = s[i - 1] BY <5>1, <6>1, <4>2
          <6> QED BY <6>1, <6>2, <3>2 DEF Range
        <5> QED BY <5>2, <5>3
      <4> QED BY <4>4, <4>5
    <3>4. Range(Chain(c, w)) = {w} \cup Range(Chain(c, c[w]))
      BY <3>1, <3>3 DEF s
    <3> QED BY <3>4, <2>2
  <2> QED BY <2>1, <2>2
<1>2. Eq([w \in DOMAIN c |-> Range(Chain(c, w))]) BY <1>1
<1>3. Eq(up)
  <2> HIDE DEF Eq
  <2> QED BY <1>2
<1>4. TheForest!Above(c, v) = up[v] BY DEF TheForest!Above
<1>5. \A w \in DOMAIN c :
        up[w] = {w} \cup IF c[w] \in DOMAIN c THEN up[c[w]] ELSE {}
  <2> HIDE DEF up
  <2> QED BY <1>3
<1> HIDE DEF up
<1> DEFINE Bad == {w \in DOMAIN c : up[w] # Range(Chain(c, w))}
<1>6. Bad = {}
  <2> SUFFICES ASSUME Bad # {} PROVE FALSE OBVIOUS
  <2>1. Bad \in SUBSET Names BY DEF Lineage
  <2>2. PICK w \in Bad : \A x \in Bad : w.index <= x.index
    <3> HIDE DEF Bad
    <3> QED BY <2>1, LowestVersion
  <2>3. CASE c[w] \notin DOMAIN c BY <1>1, <1>5, <2>2, <2>3
  <2>4. CASE c[w] \in DOMAIN c
    <3>1. c[w] \in Names /\ w \in Names /\ c[w].index < w.index
      BY <2>4 DEF Lineage
    <3>2. c[w] \notin Bad BY <3>1, <2>2
    <3>3. up[c[w]] = Range(Chain(c, c[w])) BY <3>2, <2>4
    <3> QED BY <3>3, <1>1, <1>5, <2>2, <2>4
  <2> QED BY <2>3, <2>4
<1> QED BY <1>4, <1>6

-----------------------------------------------------------------------------
(* The orphans.                                                            *)

LEMMA GroupedAlike ==
  ASSUME NEW c, NEW e, NEW S, \A v \in S : c[v] = e[v]
  PROVE  Grouped(c, S) = Grouped(e, S)
<1>1. {c[v] : v \in S} = {e[v] : v \in S} OBVIOUS
<1>2. \A k : {v \in S : c[v] = k} = {v \in S : e[v] = k} OBVIOUS
<1> QED BY <1>1, <1>2 DEF Grouped

LEMMA GroupedEmpty ==
  ASSUME NEW c, NEW S
  PROVE  Grouped(c, S) = EmptyFunction <=> S = {}
<1>1. DOMAIN EmptyFunction = {} BY DEF EmptyFunction
<1>2. DOMAIN Grouped(c, S) = {c[v] : v \in S} BY DEF Grouped
<1>3. ASSUME S = {} PROVE Grouped(c, S) = EmptyFunction
  BY <1>3 DEF Grouped, EmptyFunction
<1>4. {c[v] : v \in S} = {} => S = {} OBVIOUS
<1> QED BY <1>1, <1>2, <1>3, <1>4

\* EraseOrphan takes one version out, and its key with the last.
LEMMA GroupedWithoutOrphan ==
  ASSUME NEW c, NEW S, NEW t \in S
  PROVE  WithoutOrphan(Grouped(c, S), c[t], t) = Grouped(c, S \ {t})
<1> DEFINE f == Grouped(c, S)
           key == c[t]
           T == S \ {t}
<1>1. DOMAIN f = {c[v] : v \in S} /\ \A k \in DOMAIN f : f[k] = {v \in S : c[v] = k}
  BY DEF Grouped
<1>2. key \in DOMAIN f BY <1>1
<1>3. CASE f[key] = {t}
  <2>1. WithoutOrphan(f, key, t) = [k \in {x \in DOMAIN f : x # key} |-> f[k]]
    BY <1>3 DEF WithoutOrphan, RestrictDomain, Restrict
  <2>0. \A v \in T : c[v] # key BY <1>1, <1>2, <1>3
  <2>2. {x \in DOMAIN f : x # key} = {c[v] : v \in T} BY <2>0, <1>1
  <2>3. ASSUME NEW k \in {c[v] : v \in T} PROVE f[k] = {v \in T : c[v] = k}
    <3>1. k # key /\ k \in DOMAIN f BY <2>0, <1>1
    <3>2. f[k] = {v \in S : c[v] = k} BY <3>1, <1>1
    <3> QED BY <3>1, <3>2
  <2> QED BY <2>1, <2>2, <2>3 DEF Grouped
<1>4. CASE f[key] # {t}
  <2>1. WithoutOrphan(f, key, t) =
          [k \in DOMAIN f |-> IF k = key THEN f[key] \ {t} ELSE f[k]]
    BY <1>4 DEF WithoutOrphan
  <2>2. PICK u \in T : c[u] = key BY <1>1, <1>2, <1>4
  <2>3. DOMAIN f = {c[v] : v \in T} BY <1>1, <2>2
  <2>4. \A k \in DOMAIN f :
          (IF k = key THEN f[key] \ {t} ELSE f[k]) = {v \in T : c[v] = k}
    BY <1>1
  <2>5. WithoutOrphan(f, key, t) =
          [k \in {c[v] : v \in T} |-> {v \in T : c[v] = k}]
    <3> HIDE DEF f, T, key
    <3> QED BY <2>1, <2>3, <2>4
  <2> QED BY <2>5 DEF Grouped
<1> QED BY <1>3, <1>4

\* InsertOrphan adds some versions under a key, new or not.
LEMMA GroupedWithOrphans ==
  ASSUME NEW c, NEW e, NEW S, NEW key, NEW A,
         \A v \in S : e[v] = c[v], \A v \in A : e[v] = key
  PROVE  WithOrphans(Grouped(c, S), key, A) = Grouped(e, S \cup A)
<1> DEFINE f == Grouped(c, S)
<1>1. DOMAIN f = {c[v] : v \in S} /\ \A k \in DOMAIN f : f[k] = {v \in S : c[v] = k}
  BY DEF Grouped
<1>2. CASE A = {}
  <2>1. Grouped(c, S) = Grouped(e, S) BY GroupedAlike
  <2> QED BY <1>2, <2>1 DEF WithOrphans
<1>3. CASE A # {}
  <2> DEFINE g == WithOrphans(f, key, A)
             more == A \cup IF key \in DOMAIN f THEN f[key] ELSE {}
  <2>1. g = Over([k \in {key} |-> more], f) BY <1>3 DEF WithOrphans
  <2>2. g = [k \in {key} \cup DOMAIN f |-> IF k = key THEN more ELSE f[k]]
    BY <2>1 DEF Over
  <2>3. {key} \cup DOMAIN f = {e[v] : v \in S \cup A} BY <1>1, <1>3
  <2>4. ASSUME NEW k \in {e[v] : v \in S \cup A}
        PROVE  (IF k = key THEN more ELSE f[k]) = {v \in S \cup A : e[v] = k}
    <3>1. CASE k # key BY <1>1, <2>3, <3>1
    <3>2. CASE k = key /\ key \in DOMAIN f BY <1>1, <3>2
    <3>3. CASE k = key /\ key \notin DOMAIN f BY <1>1, <3>3
    <3> QED BY <3>1, <3>2, <3>3
  <2> HIDE DEF g
  <2>5. g = [k \in {e[v] : v \in S \cup A} |-> {v \in S \cup A : e[v] = k}]
    BY <2>2, <2>3, <2>4
  <2> QED BY <2>5 DEF Grouped, g
<1> QED BY <1>2, <1>3

Agree(c, e, S) == \A v \in S : c[v] = e[v]
NotUnder(c, S, key) == {v \in S : c[v] # key}

\* Unorphan drops the key whose versions have found their parent.
LEMMA GroupedWithout ==
  ASSUME NEW c, NEW e, NEW S, NEW key, Agree(c, e, S)
  PROVE  Without(Grouped(c, S), {key}) = Grouped(e, NotUnder(c, S, key))
<1> USE DEF Agree, NotUnder
<1> DEFINE f == Grouped(c, S)
           T == NotUnder(c, S, key)
<1>1. DOMAIN f = {c[v] : v \in S} /\ \A k \in DOMAIN f : f[k] = {v \in S : c[v] = k}
  BY DEF Grouped
<1>2. Without(f, {key}) = [k \in {x \in DOMAIN f : x \notin {key}} |-> f[k]]
  BY DEF Without, RestrictDomain, Restrict
<1>3. {x \in DOMAIN f : x \notin {key}} = {e[v] : v \in T} BY <1>1
<1>4. \A k \in {e[v] : v \in T} : f[k] = {v \in T : e[v] = k} BY <1>1, <1>3
<1> QED BY <1>2, <1>3, <1>4 DEF Grouped

\* ReplaceRootFromOrphans picks a version that waits, and the key it is under.
LEMMA GroupedLeast ==
  ASSUME NEW c, NEW S \in SUBSET Names, S # {}, \A v \in S : c[v] \in Names,
         NEW f, f = Grouped(c, S), NEW key, key = Least(DOMAIN f),
         NEW orphan, orphan = Least(f[key])
  PROVE  orphan \in S /\ c[orphan] = key
<1>1. DOMAIN f = {c[v] : v \in S} /\ \A k \in DOMAIN f : f[k] = {v \in S : c[v] = k}
  BY DEF Grouped
<1>2. DOMAIN f \in SUBSET Names /\ DOMAIN f # {} BY <1>1
<1>3. key \in DOMAIN f
  <2> HIDE DEF Grouped
  <2> QED BY <1>2, LeastIsLowest
<1>4. f[key] \in SUBSET Names /\ f[key] # {}
  <2>1. f[key] = {v \in S : c[v] = key} BY <1>1, <1>3
  <2>2. \E v \in S : c[v] = key BY <1>1, <1>3
  <2> QED BY <2>1, <2>2
<1>5. Least(f[key]) \in f[key] BY <1>4, LeastIsLowest
<1>6. f[key] = {v \in S : c[v] = key} BY <1>1, <1>3
<1> QED BY <1>5, <1>6

LEMMA OrphanKeyIsClaim ==
  ASSUME NEW d, NEW c, NEW S, d.orphans = Grouped(c, S), NEW t \in S
  PROVE  OrphanKey(d, t) = c[t]
<1>1. c[t] \in DOMAIN d.orphans /\ t \in d.orphans[c[t]] BY DEF Grouped
<1>2. \A p \in DOMAIN d.orphans : t \in d.orphans[p] => p = c[t] BY DEF Grouped
<1> QED BY <1>1, <1>2 DEF OrphanKey

-----------------------------------------------------------------------------
(* Replacing the root.                                                     *)

LEMMA MinusLineage ==
  ASSUME NEW c, Lineage(c), NEW S
  PROVE  /\ Lineage(Minus(c, S))
         /\ DOMAIN Minus(c, S) = DOMAIN c \ S
         /\ \A v \in DOMAIN c \ S : Minus(c, S)[v] = c[v]
         /\ \A v : Kids(Minus(c, S), v) = Kids(c, v) \ S
<1> DEFINE e == Minus(c, S)
<1>1. DOMAIN e = DOMAIN c \ S /\ \A v \in DOMAIN c \ S : e[v] = c[v]
  BY DEF Minus
<1>2. \A v : Kids(e, v) = Kids(c, v) \ S BY <1>1 DEF Kids
<1>3. IsFiniteSet(DOMAIN c \ S)
  BY FS_Subset DEF Lineage
<1>4. e = [v \in DOMAIN e |-> e[v]] BY DEF Minus
<1> HIDE DEF e
<1>5. Lineage(e) BY <1>1, <1>3, <1>4 DEF Lineage
<1> QED BY <1>1, <1>2, <1>5 DEF e

LEMMA WithoutIsRestricted ==
  ASSUME NEW f, NEW S
  PROVE  Without(f, S) = [v \in DOMAIN f \ S |-> f[v]]
<1>1. {v \in DOMAIN f : v \notin S} = DOMAIN f \ S OBVIOUS
<1> QED BY <1>1 DEF Without, RestrictDomain, Restrict

\* The fields after each of the two replacements.
LEMMA FromOrphansFields ==
  ASSUME NEW d, IsObject(d)
  PROVE  LET e == ReplaceRootFromOrphans(d)
             key == Least(DOMAIN d.orphans)
             orphan == Least(d.orphans[key])
         IN  /\ IsObject(e)
             /\ e.maxVersions = d.maxVersions /\ e.maxBranches = d.maxBranches
             /\ e.parent = Without(d.parent, {d.root})
             /\ e.children = Without(d.children, {d.root})
             /\ e.tips = d.tips
             /\ e.rootParent = key /\ e.root = orphan
             /\ e.orphans = WithoutOrphan(d.orphans, key, orphan)
BY DEF ReplaceRootFromOrphans, Erased, IsObject

LEMMA FromChildrenFields ==
  ASSUME NEW d, IsObject(d), NEW kids, kids = d.children[d.root]
  PROVE  LET e == ReplaceRootFromChildren(d)
         IN  /\ IsObject(e)
             /\ e.maxVersions = d.maxVersions /\ e.maxBranches = d.maxBranches
             /\ e.parent = Without(Over([v \in kids |-> NoVersion], d.parent),
                                   {d.root})
             /\ e.children = Without(d.children, {d.root})
             /\ e.tips = d.tips
             /\ e.rootParent = d.root /\ e.root = Least(kids)
             /\ e.orphans = WithOrphans(d.orphans, d.root, kids \ {Least(kids)})
BY DEF ReplaceRootFromChildren, Erased, IsObject

Dethroned(d) == [d EXCEPT !.tips = @ \ {d.root}]
LEMMA DethronedFields ==
  ASSUME NEW d, IsObject(d)
  PROVE  LET e == Dethroned(d)
         IN  /\ IsObject(e)
             /\ e.maxVersions = d.maxVersions /\ e.maxBranches = d.maxBranches
             /\ e.parent = d.parent /\ e.children = d.children
             /\ e.tips = d.tips \ {d.root}
             /\ e.rootParent = d.rootParent /\ e.root = d.root
             /\ e.orphans = d.orphans
             /\ ReplaceRoot(d) = IF d.children[d.root] = {}
                                 THEN ReplaceRootFromOrphans(e)
                                 ELSE ReplaceRootFromChildren(e)
BY DEF Dethroned, ReplaceRoot, IsObject

\* The root has no child: a version that waits for its parent takes its place.
LEMMA ReplaceRootByOrphan ==
  ASSUME NEW d, NEW c, Keeps(d, c), d.root # NoVersion,
         Kids(c, d.root) = {}, Waiting(c, d.root) # {}
  PROVE  LET e == ReplaceRoot(d)
         IN  /\ Keeps(e, Minus(c, {d.root}))
             /\ e.maxVersions = d.maxVersions /\ e.maxBranches = d.maxBranches
             /\ e.root \in Waiting(c, d.root)
<1> DEFINE root == d.root
           W == Waiting(c, root)
           m == Minus(c, {root})
           key == Least(DOMAIN d.orphans)
           orphan == Least(d.orphans[key])
           e == ReplaceRoot(d)
<1>0. Lineage(c) /\ Rooted(c, root) /\ IsObject(d) /\ root \in DOMAIN c
        /\ c[root] \notin DOMAIN c
  BY DEF Keeps, Links, Rooted
<1>1. d.orphans = Grouped(c, W) BY DEF Keeps, Links
<1>2. W \in SUBSET DOMAIN c /\ W \in SUBSET Names /\ W # {}
        /\ \A v \in W : c[v] \in Names
  BY <1>0 DEF Waiting, Lineage, Rooted
<1>3. orphan \in W /\ c[orphan] = key
  <2> HIDE DEF W
  <2> QED BY <1>1, <1>2, GroupedLeast
<1>4. /\ IsObject(e)
      /\ e.maxVersions = d.maxVersions /\ e.maxBranches = d.maxBranches
      /\ e.parent = Without(d.parent, {root})
      /\ e.children = Without(d.children, {root})
      /\ e.tips = d.tips \ {root}
      /\ e.rootParent = key /\ e.root = orphan
      /\ e.orphans = WithoutOrphan(d.orphans, key, orphan)
  <2> DEFINE f == Dethroned(d)
  <2>1. /\ IsObject(f)
        /\ f.maxVersions = d.maxVersions /\ f.maxBranches = d.maxBranches
        /\ f.parent = d.parent /\ f.children = d.children
        /\ f.tips = d.tips \ {d.root}
        /\ f.rootParent = d.rootParent /\ f.root = d.root
        /\ f.orphans = d.orphans
        /\ ReplaceRoot(d) = IF d.children[d.root] = {}
                            THEN ReplaceRootFromOrphans(f)
                            ELSE ReplaceRootFromChildren(f)
    BY <1>0, DethronedFields
  <2>2. d.children[d.root] = {} BY <1>0 DEF Keeps, Links
  <2> HIDE DEF f
  <2>3. key = Least(DOMAIN f.orphans) /\ orphan = Least(f.orphans[key])
    BY <2>1
  <2> HIDE DEF key, orphan
  <2>4. ReplaceRoot(d) = ReplaceRootFromOrphans(f) BY <2>1, <2>2
  <2> DEFINE g == ReplaceRootFromOrphans(f)
  <2>5. /\ IsObject(g)
        /\ g.maxVersions = f.maxVersions /\ g.maxBranches = f.maxBranches
        /\ g.parent = Without(f.parent, {f.root})
        /\ g.children = Without(f.children, {f.root})
        /\ g.tips = f.tips
        /\ g.rootParent = key /\ g.root = orphan
        /\ g.orphans = WithoutOrphan(f.orphans, key, orphan)
    BY <2>1, <2>3, FromOrphansFields
  <2>6. e = g BY <2>4
  <2> HIDE DEF e, g
  <2> QED BY <2>1, <2>5, <2>6
<1> HIDE DEF e, key, orphan
<1>5. /\ Lineage(m)
      /\ DOMAIN m = DOMAIN c \ {root}
      /\ \A v \in DOMAIN c \ {root} : m[v] = c[v]
      /\ \A v : Kids(m, v) = Kids(c, v) \ {root}
  <2>1. Lineage(c) BY <1>0
  <2> QED BY ONLY <2>1, MinusLineage, Zenon
<1> HIDE DEF m
<1>6. \A v \in DOMAIN m : m[v] \in DOMAIN m <=> c[v] \in DOMAIN c
  BY <1>0, <1>5 DEF Kids
<1>7. Rooted(m, orphan)
  BY <1>0, <1>2, <1>3, <1>5, <1>6 DEF Rooted, Waiting, Lineage
<1>8. /\ e.parent = [v \in DOMAIN m |-> e.parent[v]]
      /\ \A v \in DOMAIN m : IF m[v] \in DOMAIN m THEN e.parent[v] = m[v]
                                                 ELSE e.parent[v] \in NoParents
  <2>1. DOMAIN d.parent = DOMAIN c BY DEF Keeps, Links
  <2>2. e.parent = [v \in DOMAIN m |-> d.parent[v]]
    <3>1. e.parent = [v \in DOMAIN d.parent \ {root} |-> d.parent[v]]
      BY <1>4, WithoutIsRestricted
    <3> QED BY <3>1, <2>1, <1>5
  <2> QED BY <2>2, <1>5, <1>6 DEF Keeps, Links
<1>9. e.children = [v \in DOMAIN m |-> Kids(m, v)]
  <2>1. DOMAIN d.children = DOMAIN c /\ \A v \in DOMAIN c : d.children[v] = Kids(c, v)
    BY DEF Keeps, Links
  <2>2. e.children = [v \in DOMAIN m |-> d.children[v]]
    <3>1. e.children = [v \in DOMAIN d.children \ {root} |-> d.children[v]]
      BY <1>4, WithoutIsRestricted
    <3> QED BY <3>1, <2>1, <1>5
  <2>3. \A v \in DOMAIN m : Kids(m, v) = Kids(c, v)
    BY <1>0, <1>5 DEF Kids
  <2> QED BY <2>1, <2>2, <2>3, <1>5
<1>10. e.rootParent = (IF e.root = NoVersion THEN NoVersion ELSE m[e.root])
  BY <1>2, <1>3, <1>4, <1>5 DEF Waiting
<1>11. e.tips = {v \in DOMAIN m : Kids(m, v) = {}}
  BY <1>0, <1>4, <1>5 DEF Keeps, Links, Kids
<1>12. e.orphans = Grouped(m, Waiting(m, e.root))
  <2>1. e.orphans = Grouped(c, W \ {orphan})
    <3> HIDE DEF W
    <3> QED BY <1>1, <1>3, <1>4, GroupedWithoutOrphan
  <2>2. W \ {orphan} = Waiting(m, orphan)
    BY <1>5, <1>6 DEF Waiting
  <2>3. \A v \in W \ {orphan} : c[v] = m[v] BY <1>5 DEF Waiting
  <2>4. Grouped(c, W \ {orphan}) = Grouped(m, W \ {orphan})
    <3> HIDE DEF W
    <3> QED BY <2>3, GroupedAlike
  <2> QED BY <2>1, <2>2, <2>4, <1>4
<1>13. Keeps(e, m)
  BY <1>4, <1>5, <1>7, <1>8, <1>9, <1>10, <1>11, <1>12 DEF Keeps, Links
<1> QED BY <1>3, <1>4, <1>13 DEF m, e

\* The lowest child of the root takes its place, and the others wait for it.
LEMMA ReplaceRootByChild ==
  ASSUME NEW d, NEW c, Keeps(d, c), d.root # NoVersion, Kids(c, d.root) # {}
  PROVE  LET e == ReplaceRoot(d)
         IN  /\ Keeps(e, Minus(c, {d.root}))
             /\ e.maxVersions = d.maxVersions /\ e.maxBranches = d.maxBranches
             /\ e.root = Least(Kids(c, d.root))
<1> DEFINE root == d.root
           W == Waiting(c, root)
           m == Minus(c, {root})
           kids == Kids(c, root)
           heir == Least(kids)
           e == ReplaceRoot(d)
<1>0. Lineage(c) /\ Rooted(c, root) /\ IsObject(d) /\ root \in DOMAIN c
        /\ c[root] \notin DOMAIN c /\ root \in Names
  BY DEF Keeps, Links, Rooted, Lineage
<1>1. d.orphans = Grouped(c, W) /\ d.children[root] = kids
        /\ DOMAIN d.parent = DOMAIN c /\ DOMAIN d.children = DOMAIN c
  BY <1>0 DEF Keeps, Links
<1>2. kids \in SUBSET DOMAIN c /\ kids \in SUBSET Names /\ kids # {}
        /\ root \notin kids /\ \A v \in kids : c[v] = root
  BY <1>0 DEF Kids, Lineage
<1>3. heir \in kids
  <2> HIDE DEF kids
  <2> QED BY <1>2, LeastIsLowest
<1>4. /\ IsObject(e)
      /\ e.maxVersions = d.maxVersions /\ e.maxBranches = d.maxBranches
      /\ e.parent = Without(Over([v \in kids |-> NoVersion], d.parent), {root})
      /\ e.children = Without(d.children, {root})
      /\ e.tips = d.tips \ {root}
      /\ e.rootParent = root /\ e.root = heir
      /\ e.orphans = WithOrphans(d.orphans, root, kids \ {heir})
  <2> DEFINE f == Dethroned(d)
  <2>1. /\ IsObject(f)
        /\ f.maxVersions = d.maxVersions /\ f.maxBranches = d.maxBranches
        /\ f.parent = d.parent /\ f.children = d.children
        /\ f.tips = d.tips \ {root}
        /\ f.rootParent = d.rootParent /\ f.root = root
        /\ f.orphans = d.orphans
        /\ ReplaceRoot(d) = IF d.children[d.root] = {}
                            THEN ReplaceRootFromOrphans(f)
                            ELSE ReplaceRootFromChildren(f)
    BY <1>0, DethronedFields
  <2> HIDE DEF f, kids, root
  <2>2. ReplaceRoot(d) = ReplaceRootFromChildren(f) BY <1>1, <1>2, <2>1 DEF root
  <2>3. kids = f.children[f.root] BY <1>1, <2>1
  <2> DEFINE g == ReplaceRootFromChildren(f)
  <2>4. /\ IsObject(g)
        /\ g.maxVersions = f.maxVersions /\ g.maxBranches = f.maxBranches
        /\ g.parent = Without(Over([v \in kids |-> NoVersion], f.parent),
                              {f.root})
        /\ g.children = Without(f.children, {f.root})
        /\ g.tips = f.tips
        /\ g.rootParent = f.root /\ g.root = Least(kids)
        /\ g.orphans = WithOrphans(f.orphans, f.root, kids \ {Least(kids)})
    BY ONLY <2>1, <2>3, FromChildrenFields, ZenonT(60)
  <2>5. e = g BY <2>2
  <2> HIDE DEF e, g
  <2> QED BY <2>1, <2>4, <2>5
<1> HIDE DEF e, heir, kids
<1>5. /\ Lineage(m)
      /\ DOMAIN m = DOMAIN c \ {root}
      /\ \A v \in DOMAIN c \ {root} : m[v] = c[v]
      /\ \A v : Kids(m, v) = Kids(c, v) \ {root}
  <2>1. Lineage(c) BY <1>0
  <2> QED BY ONLY <2>1, MinusLineage, Zenon
<1> HIDE DEF m
<1>6. \A v \in DOMAIN m : m[v] \in DOMAIN m <=> c[v] \in DOMAIN c /\ v \notin kids
  BY <1>0, <1>5 DEF kids, Kids
<1>7. Rooted(m, heir)
  BY <1>0, <1>2, <1>3, <1>5, <1>6 DEF Rooted
<1>8. /\ e.parent = [v \in DOMAIN m |-> e.parent[v]]
      /\ \A v \in DOMAIN m : IF m[v] \in DOMAIN m THEN e.parent[v] = m[v]
                                                 ELSE e.parent[v] \in NoParents
  <2> DEFINE g == Over([v \in kids |-> NoVersion], d.parent)
  <2>1. g = [v \in DOMAIN c |-> IF v \in kids THEN NoVersion ELSE d.parent[v]]
    BY <1>1, <1>2 DEF Over
  <2> HIDE DEF g
  <2>2. e.parent = [v \in DOMAIN g \ {root} |-> g[v]]
    BY <1>4, WithoutIsRestricted DEF g
  <2>3. e.parent = [v \in DOMAIN m |->
                      IF v \in kids THEN NoVersion ELSE d.parent[v]]
    BY <2>1, <2>2, <1>5
  <2>4. \A v \in DOMAIN c : IF c[v] \in DOMAIN c THEN d.parent[v] = c[v]
                                                 ELSE d.parent[v] \in NoParents
    BY DEF Keeps, Links
  <2> QED BY <2>3, <2>4, <1>5, <1>6 DEF NoParents
<1>9. e.children = [v \in DOMAIN m |-> Kids(m, v)]
  <2>1. \A v \in DOMAIN c : d.children[v] = Kids(c, v) BY DEF Keeps, Links
  <2>2. e.children = [v \in DOMAIN m |-> d.children[v]]
    <3>1. e.children = [v \in DOMAIN d.children \ {root} |-> d.children[v]]
      BY <1>4, WithoutIsRestricted
    <3> QED BY <3>1, <1>1, <1>5
  <2>3. \A v \in DOMAIN m : Kids(m, v) = Kids(c, v)
    BY <1>0, <1>5 DEF Kids
  <2> QED BY <2>1, <2>2, <2>3, <1>5
<1>10. e.rootParent = (IF e.root = NoVersion THEN NoVersion ELSE m[e.root])
  BY <1>2, <1>3, <1>4, <1>5
<1>11. e.tips = {v \in DOMAIN m : Kids(m, v) = {}}
  <2>1. d.tips = {v \in DOMAIN c : Kids(c, v) = {}} BY DEF Keeps, Links
  <2>2. \A v \in DOMAIN m : Kids(m, v) = Kids(c, v)
    BY <1>0, <1>5 DEF Kids
  <2> QED BY <2>1, <2>2, <1>4, <1>5
<1>12. e.orphans = Grouped(m, Waiting(m, e.root))
  <2>1. \A v \in W : m[v] = c[v] BY <1>5 DEF Waiting
  <2>2. \A v \in kids \ {heir} : m[v] = root BY <1>2, <1>5
  <2>3. e.orphans = Grouped(m, W \cup (kids \ {heir}))
    <3> HIDE DEF W, root
    <3> QED BY <1>1, <1>4, <2>1, <2>2, GroupedWithOrphans
  <2>4. W \cup (kids \ {heir}) = Waiting(m, heir)
    BY <1>0, <1>2, <1>3, <1>5, <1>6 DEF Waiting
  <2> QED BY <2>3, <2>4, <1>4
<1>13. Keeps(e, m)
  BY <1>4, <1>5, <1>7, <1>8, <1>9, <1>10, <1>11, <1>12 DEF Keeps, Links
<1> QED BY <1>4, <1>13 DEF m, e, heir, kids

\* What comes of a root that is erased, as the abstract forest has it.
LEMMA ReplaceRootKeeps ==
  ASSUME NEW d, NEW c, Keeps(d, c), d.root # NoVersion, DOMAIN c # {d.root}
  PROVE  LET e == ReplaceRoot(d)
         IN  /\ Keeps(e, Minus(c, {d.root}))
             /\ e.maxVersions = d.maxVersions /\ e.maxBranches = d.maxBranches
             /\ TheForest!Succeeds(e.root, c, d.root)
<1> DEFINE root == d.root
           kids == Kids(c, root)
<1>0. Lineage(c) /\ Rooted(c, root) /\ root \in DOMAIN c
  BY DEF Keeps, Links, Rooted
<1>1. CASE kids = {}
  <2>1. Waiting(c, root) # {}
    <3>1. DOMAIN c \ {root} # {} /\ DOMAIN c \ {root} \in SUBSET Names
      BY <1>0 DEF Lineage
    <3>2. PICK v \in DOMAIN c \ {root} :
                 \A w \in DOMAIN c \ {root} : v.index <= w.index
      BY <3>1, LowestVersion
    <3>3. c[v] \notin DOMAIN c
      <4> SUFFICES ASSUME c[v] \in DOMAIN c PROVE FALSE OBVIOUS
      <4>1. c[v] \in Names /\ v \in Names /\ c[v].index < v.index
        BY <1>0 DEF Lineage
      <4>2. c[v] = root BY <3>2, <4>1
      <4> QED BY <1>1, <4>2 DEF Kids
    <3> QED BY <3>3 DEF Waiting
  <2>2. LET e == ReplaceRoot(d)
        IN  /\ Keeps(e, Minus(c, {d.root}))
            /\ e.maxVersions = d.maxVersions /\ e.maxBranches = d.maxBranches
            /\ e.root \in Waiting(c, d.root)
    BY <1>1, <2>1, ReplaceRootByOrphan
  <2>3. \A v \in Waiting(c, root) : TheForest!Succeeds(v, c, root)
    BY <1>1 DEF TheForest!Succeeds, TheForest!Kids, TheForest!Tops, Waiting, Kids
  <2> QED BY <2>2, <2>3
<1>2. CASE kids # {}
  <2>1. LET e == ReplaceRoot(d)
        IN  /\ Keeps(e, Minus(c, {d.root}))
            /\ e.maxVersions = d.maxVersions /\ e.maxBranches = d.maxBranches
            /\ e.root = Least(kids)
    BY <1>2, ReplaceRootByChild
  <2>2. kids \in SUBSET Names BY <1>0 DEF Kids, Lineage
  <2>3. Least(kids) \in kids /\ \A w \in kids \ {Least(kids)} : Less(Least(kids), w)
    <3> HIDE DEF kids
    <3> QED BY <1>2, <2>2, LeastIsLowest
  <2>4. \A v, w : TheForest!Lower(v, w) <=> Less(v, w)
    BY DEF TheForest!Lower, Less
  <2>5. TheForest!Kids(c, root) = kids BY DEF TheForest!Kids, Kids
  <2>6. TheForest!Succeeds(Least(kids), c, root)
    <3> HIDE DEF kids
    <3> QED BY <1>2, <2>3, <2>4, <2>5 DEF TheForest!Succeeds
  <2> QED BY <2>1, <2>6
<1> QED BY <1>1, <1>2

-----------------------------------------------------------------------------
(* Put.                                                                    *)

Grown(c, v, p) == [w \in DOMAIN c \cup {v} |-> IF w = v THEN p ELSE c[w]]

\* What a request that can be taken looks like.
Fresh(c, r) ==
  /\ r.new \in Names \ DOMAIN c /\ r.old \in Names \cup {NoVersion}
  /\ r.old # NoVersion => r.old.index < r.new.index

LEMMA GrownLineage ==
  ASSUME NEW c, Lineage(c), NEW r, Fresh(c, r)
  PROVE  LET g == Grown(c, r.new, r.old)
         IN  /\ Lineage(g) /\ DOMAIN g = DOMAIN c \cup {r.new}
             /\ g[r.new] = r.old /\ \A v \in DOMAIN c : g[v] = c[v]
             /\ \A v : Kids(g, v) =
                  Kids(c, v) \cup IF v = r.old THEN {r.new} ELSE {}
             /\ r.old # r.new
<1> DEFINE n == r.new
           p == r.old
           g == Grown(c, n, p)
<1>0. n \in Names /\ n \notin DOMAIN c /\ p # n BY DEF Fresh
<1>1. DOMAIN g = DOMAIN c \cup {n} /\ g[n] = p /\ \A v \in DOMAIN c : g[v] = c[v]
  BY <1>0 DEF Grown
<1>2. \A v : Kids(g, v) = Kids(c, v) \cup IF v = p THEN {n} ELSE {}
  BY <1>0, <1>1 DEF Kids
<1>3. g = [v \in DOMAIN g |-> g[v]] BY DEF Grown
<1>4. IsFiniteSet(DOMAIN c \cup {n}) BY FS_AddElement DEF Lineage
<1> HIDE DEF g
<1>5. Lineage(g) BY <1>0, <1>1, <1>3, <1>4 DEF Lineage, Fresh
<1> QED BY <1>0, <1>1, <1>2, <1>5 DEF g

\* What Put finds out about the request.
LEMMA PutReads ==
  ASSUME NEW d, NEW c, Keeps(d, c), NEW r, Fresh(c, r)
  PROVE  /\ Present(d) = DOMAIN c
         /\ IsRoot(d, r) <=> r.old = NoVersion \/ DOMAIN c = {}
         /\ IsRoot(d, r) => r.old \notin DOMAIN c
         /\ Parent(d, r) = IF r.old \in DOMAIN c THEN r.old ELSE NoVersion
         /\ UnorphansRoot(d, r) <=> d.root # NoVersion /\ c[d.root] = r.new
         /\ Unorphaned(d, r) = Kids(c, r.new) \ {d.root}
         /\ Adopted(d, r) = Kids(c, r.new)
<1> DEFINE n == r.new
           p == r.old
<1>0. Lineage(c) /\ Rooted(c, d.root) BY DEF Keeps
<1>1. Present(d) = DOMAIN c BY DEF Keeps, Links, Present
<1>2. n.index = 0 => p = NoVersion
  <2> SUFFICES ASSUME n.index = 0, p # NoVersion PROVE FALSE OBVIOUS
  <2>1. p \in Names /\ n \in Names BY DEF Fresh
  <2>2. p.index \in Nat /\ p.index < n.index BY <2>1 DEF Fresh
  <2> QED BY <2>2
<1>3. IsRoot(d, r) <=> p = NoVersion \/ DOMAIN c = {}
  BY <1>1, <1>2 DEF IsRoot
<1>4. p = NoVersion => p \notin DOMAIN c BY <1>0 DEF Lineage
<1>5. Parent(d, r) = IF p \in DOMAIN c THEN p ELSE NoVersion
  BY <1>1, <1>3, <1>4 DEF Parent
<1>6. UnorphansRoot(d, r) <=> d.root # NoVersion /\ c[d.root] = n
  BY DEF UnorphansRoot, Keeps, Fresh
<1>7. Unorphaned(d, r) = Kids(c, n) \ {d.root}
  <2>1. d.orphans = Grouped(c, Waiting(c, d.root)) BY DEF Keeps
  <2>2. Unorphaned(d, r) = {v \in Waiting(c, d.root) : c[v] = n}
    BY <2>1 DEF Unorphaned, Grouped
  <2>3. {v \in Waiting(c, d.root) : c[v] = n} = Kids(c, n) \ {d.root}
    BY DEF Waiting, Kids, Fresh
  <2> QED BY <2>2, <2>3
<1>8. Adopted(d, r) = Kids(c, n)
  <2>1. d.root \in Kids(c, n) <=> UnorphansRoot(d, r)
    BY <1>0, <1>6 DEF Kids, Rooted, Lineage
  <2> QED BY <1>7, <2>1 DEF Adopted
<1> QED BY <1>1, <1>3, <1>4, <1>5, <1>6, <1>7, <1>8

\* Insert has linked the new version, and not yet seen to root and orphans.
LEMMA LinkedLinks ==
  ASSUME NEW d, NEW c, Keeps(d, c), NEW r, Fresh(c, r)
  PROVE  LET e == Linked(d, r)
             g == Grown(c, r.new, r.old)
         IN  /\ IsObject(e) /\ Links(e, g)
             /\ e.maxVersions = d.maxVersions /\ e.maxBranches = d.maxBranches
             /\ e.rootParent = d.rootParent /\ e.root = d.root
             /\ e.orphans = Grouped(g, Waiting(c, d.root) \ Kids(c, r.new))
<1> DEFINE n == r.new
           p == r.old
           W == Waiting(c, d.root)
           e == Linked(d, r)
           g == Grown(c, n, p)
           kids == Kids(c, n)
           parent == IF p \in DOMAIN c THEN p ELSE NoVersion
           siblings == [v \in {parent} \ {NoVersion} |-> d.children[v] \cup {n}]
<1>0. /\ Lineage(c) /\ IsObject(d) /\ n \in Names /\ n \notin DOMAIN c
      /\ DOMAIN d.parent = DOMAIN c /\ DOMAIN d.children = DOMAIN c
      /\ d.orphans = Grouped(c, W) /\ NoVersion \notin DOMAIN c
  BY DEF Keeps, Links, Fresh, Lineage
<1>1. parent = Parent(d, r) /\ kids = Adopted(d, r) BY PutReads
<1>2. /\ IsObject(e)
      /\ e.maxVersions = d.maxVersions /\ e.maxBranches = d.maxBranches
      /\ e.parent = Over([v \in kids \cup {n} |-> IF v = n THEN parent ELSE n],
                         d.parent)
      /\ e.children = Over([v \in {n} |-> kids], Over(siblings, d.children))
      /\ e.tips = (IF parent # NoVersion /\ d.children[parent] = {}
                   THEN d.tips \ {parent} ELSE d.tips)
                    \cup IF kids = {} THEN {n} ELSE {}
      /\ e.orphans = Without(d.orphans, {n})
      /\ e.rootParent = d.rootParent /\ e.root = d.root
  <2>1. IsObject(d) BY <1>0
  <2> HIDE DEF kids, parent
  <2> QED BY <2>1, <1>1 DEF Linked, IsObject
<1> HIDE DEF e
<1>3. /\ Lineage(g) /\ DOMAIN g = DOMAIN c \cup {n}
      /\ g[n] = p /\ \A v \in DOMAIN c : g[v] = c[v]
      /\ \A v : Kids(g, v) = Kids(c, v) \cup IF v = p THEN {n} ELSE {}
      /\ p # n
  <2>1. Lineage(c) /\ Fresh(c, r) BY <1>0
  <2> QED BY ONLY <2>1, GrownLineage, Zenon
<1> HIDE DEF g
<1>4. kids \in SUBSET DOMAIN c /\ \A v \in DOMAIN c : v \in kids <=> c[v] = n
  BY DEF Kids
<1>5. \A v \in DOMAIN c :
        /\ IF c[v] \in DOMAIN c THEN d.parent[v] = c[v]
                                ELSE d.parent[v] \in NoParents
        /\ d.children[v] = Kids(c, v)
  BY DEF Keeps, Links
<1> HIDE DEF kids
<1>6. e.parent = [v \in DOMAIN g |-> IF v = n THEN parent
                                     ELSE IF v \in kids THEN n ELSE d.parent[v]]
  BY <1>0, <1>2, <1>3, <1>4 DEF Over
<1>7. \A v \in DOMAIN g : IF g[v] \in DOMAIN g THEN e.parent[v] = g[v]
                                               ELSE e.parent[v] \in NoParents
  <2>1. ASSUME NEW v \in DOMAIN c
        PROVE  IF g[v] \in DOMAIN g THEN e.parent[v] = g[v]
                                    ELSE e.parent[v] \in NoParents
    BY <1>0, <1>3, <1>4, <1>5, <1>6
  <2>2. IF g[n] \in DOMAIN g THEN e.parent[n] = g[n]
                             ELSE e.parent[n] \in NoParents
    BY <1>3, <1>6 DEF NoParents
  <2> QED BY <2>1, <2>2, <1>3
<1>8. e.children = [v \in DOMAIN g |-> Kids(g, v)]
  <2>1. Over(siblings, d.children) =
          [v \in DOMAIN c |-> IF v = p THEN d.children[v] \cup {n}
                                       ELSE d.children[v]]
    <3>1. CASE p \in DOMAIN c
      <4>1. {parent} \ {NoVersion} = {p} BY <3>1, <1>0
      <4>2. siblings = [v \in {p} |-> d.children[v] \cup {n}] BY <4>1
      <4> HIDE DEF siblings
      <4>3. DOMAIN siblings = {p} /\ siblings[p] = d.children[p] \cup {n}
        BY <4>2
      <4>4. DOMAIN siblings \cup DOMAIN d.children = DOMAIN c BY <4>3, <3>1, <1>0
      <4> QED BY <4>3, <4>4 DEF Over
    <3>2. CASE p \notin DOMAIN c
      <4>1. {parent} \ {NoVersion} = {} BY <3>2
      <4> QED BY <3>2, <4>1, <1>0 DEF Over
    <3> QED BY <3>1, <3>2
  <2> DEFINE h == Over(siblings, d.children)
  <2>2. e.children = Over([v \in {n} |-> kids], h) BY <1>2
  <2> HIDE DEF siblings
  <2>8. DOMAIN h = DOMAIN c /\ \A v \in DOMAIN c :
           h[v] = IF v = p THEN d.children[v] \cup {n} ELSE d.children[v]
    BY <2>1
  <2> HIDE DEF h
  <2>3. e.children = [v \in DOMAIN g |->
                        IF v = n THEN kids
                        ELSE IF v = p THEN d.children[v] \cup {n}
                        ELSE d.children[v]]
    <3>1. e.children = [v \in {n} \cup DOMAIN h |-> IF v = n THEN kids ELSE h[v]]
      BY <2>2 DEF Over
    <3>2. {n} \cup DOMAIN h = DOMAIN g BY <2>8, <1>3
    <3>3. n \notin DOMAIN h BY <2>8, <1>0
    <3>4. \A v \in DOMAIN g :
            (IF v = n THEN kids ELSE h[v])
              = IF v = n THEN kids
                ELSE IF v = p THEN d.children[v] \cup {n} ELSE d.children[v]
      BY <2>8, <3>2
    <3> QED BY ONLY <3>1, <3>2, <3>4
  <2>4. ASSUME NEW v \in DOMAIN g
        PROVE  (IF v = n THEN kids
                ELSE IF v = p THEN d.children[v] \cup {n} ELSE d.children[v])
                 = Kids(g, v)
    <3>0. Kids(g, v) = Kids(c, v) \cup IF v = p THEN {n} ELSE {} BY <1>3
    <3>1. CASE v = n
      <4>1. Kids(g, v) = kids BY <3>0, <3>1, <1>3 DEF kids
      <4> QED BY <4>1, <3>1
    <3>2. CASE v # n
      <4>1. d.children[v] = Kids(c, v) BY <3>2, <1>3, <1>5
      <4> QED BY <3>0, <3>2, <4>1
    <3> QED BY <3>1, <3>2
  <2> QED BY <2>3, <2>4
<1>9. e.tips = {v \in DOMAIN g : Kids(g, v) = {}}
  <2>1. d.tips = {v \in DOMAIN c : Kids(c, v) = {}} BY DEF Keeps, Links
  <2>2. Kids(g, n) = kids
    <3>1. Kids(g, n) = Kids(c, n) \cup IF n = p THEN {n} ELSE {} BY <1>3
    <3> QED BY <3>1, <1>3 DEF kids
  <2>3. \A v \in DOMAIN c : Kids(g, v) = {} <=> Kids(c, v) = {} /\ v # p
    BY <1>3
  <2>4. CASE p \in DOMAIN c
    <3>1. parent = p /\ parent # NoVersion BY <2>4, <1>0
    <3>2. (IF parent # NoVersion /\ d.children[parent] = {}
           THEN d.tips \ {parent} ELSE d.tips)
            = {v \in DOMAIN c : Kids(c, v) = {} /\ v # p}
      BY <3>1, <2>1, <2>4, <1>5
    <3> HIDE DEF parent
    <3> QED BY <3>2, <2>2, <2>3, <1>2, <1>3, <1>0
  <2>5. CASE p \notin DOMAIN c
    <3>1. parent = NoVersion BY <2>5
    <3>2. (IF parent # NoVersion /\ d.children[parent] = {}
           THEN d.tips \ {parent} ELSE d.tips)
            = {v \in DOMAIN c : Kids(c, v) = {} /\ v # p}
      BY <3>1, <2>1, <2>5
    <3> HIDE DEF parent
    <3> QED BY <3>2, <2>2, <2>3, <1>2, <1>3, <1>0
  <2> QED BY <2>4, <2>5
<1>10. e.orphans = Grouped(g, W \ kids)
  <2>1. Agree(c, g, W) BY <1>3 DEF Waiting, Agree
  <2>2. W \ kids = NotUnder(c, W, n) BY <1>4 DEF Waiting, NotUnder
  <2>3. Without(Grouped(c, W), {n}) = Grouped(g, W \ kids)
    <3> HIDE DEF W, n
    <3>1. Without(Grouped(c, W), {n}) = Grouped(g, NotUnder(c, W, n))
      BY <2>1, GroupedWithout
    <3> QED BY <3>1, <2>2
  <2> QED BY <2>3, <1>0, <1>2
<1>11. Links(e, g)
  <2>1. e.parent = [v \in DOMAIN g |-> e.parent[v]] BY <1>6
  <2> QED BY <2>1, <1>7, <1>8, <1>9 DEF Links
<1> QED BY <1>2, <1>10, <1>11 DEF e, g, kids

\* What is left to show once the links are right.
LEMMA KeepsAnew ==
  ASSUME NEW e, NEW g, NEW root, IsObject(e), Lineage(g), Links(e, g),
         e.root = root, Rooted(g, root), root \in DOMAIN g,
         e.rootParent = g[root], e.orphans = Grouped(g, Waiting(g, root))
  PROVE  Keeps(e, g)
<1>1. root # NoVersion BY DEF Lineage
<1> QED BY <1>1 DEF Keeps

LEMMA SameLinks ==
  ASSUME NEW e, NEW f, NEW g, Links(e, g), f.parent = e.parent,
         f.children = e.children, f.tips = e.tips
  PROVE  Links(f, g)
BY DEF Links

\* The root finds its parent, and the branch that it joins has no parent held.
LEMMA UnorphanRootByNew ==
  ASSUME NEW d, NEW c, Keeps(d, c), NEW r, Fresh(c, r), UnorphansRoot(d, r),
         r.old \notin DOMAIN c
  PROVE  LET e == UnorphanRoot(Linked(d, r), r)
         IN  /\ Keeps(e, Grown(c, r.new, r.old))
             /\ e.maxVersions = d.maxVersions /\ e.maxBranches = d.maxBranches
             /\ e.root = r.new
<1> DEFINE n == r.new
           p == r.old
           l == Linked(d, r)
           g == Grown(c, n, p)
           e == UnorphanRoot(l, r)
<1>0. Lineage(c) /\ Rooted(c, d.root) /\ d.root \in DOMAIN c /\ c[d.root] = n
        /\ n \in Names /\ n \notin DOMAIN c
  <2>1. d.root # NoVersion /\ c[d.root] = n BY PutReads
  <2>2. Lineage(c) /\ Rooted(c, d.root) BY DEF Keeps
  <2> QED BY <2>1, <2>2 DEF Rooted, Fresh
<1>1. /\ IsObject(l) /\ Links(l, g)
      /\ l.maxVersions = d.maxVersions /\ l.maxBranches = d.maxBranches
      /\ l.rootParent = d.rootParent /\ l.root = d.root
      /\ l.orphans = Grouped(g, Waiting(c, d.root) \ Kids(c, n))
  <2>1. Keeps(d, c) /\ Fresh(c, r) OBVIOUS
  <2> QED BY ONLY <2>1, LinkedLinks, ZenonT(30)
<1>2. /\ Lineage(g) /\ DOMAIN g = DOMAIN c \cup {n}
      /\ g[n] = p /\ \A v \in DOMAIN c : g[v] = c[v]
      /\ \A v : Kids(g, v) = Kids(c, v) \cup IF v = p THEN {n} ELSE {}
      /\ p # n
  <2>1. Lineage(c) /\ Fresh(c, r) BY <1>0
  <2> QED BY ONLY <2>1, GrownLineage, Zenon
<1> HIDE DEF l, g
<1>3. Parent(l, r) = NoVersion
  <2>1. Present(l) = DOMAIN g BY <1>1 DEF Links, Present
  <2> QED BY <2>1, <1>2 DEF Parent
<1>4. /\ IsObject(e)
      /\ e.maxVersions = d.maxVersions /\ e.maxBranches = d.maxBranches
      /\ e.parent = l.parent /\ e.children = l.children /\ e.tips = l.tips
      /\ e.root = n /\ e.rootParent = p /\ e.orphans = l.orphans
  BY <1>1, <1>3 DEF UnorphanRoot, IsObject
<1> HIDE DEF e
<1>5. Links(e, g) BY <1>1, <1>4, SameLinks
<1>6. Rooted(g, n) BY <1>0, <1>2 DEF Rooted
<1>7. Waiting(c, d.root) \ Kids(c, n) = Waiting(g, n)
  BY <1>0, <1>2 DEF Waiting, Kids
<1>8. Keeps(e, g) BY <1>1, <1>2, <1>4, <1>5, <1>6, <1>7, KeepsAnew
<1> QED BY <1>4, <1>8 DEF e, g, l

\* The version at the front of the branch takes the root's place.
LEMMA UnorphanRootByFront ==
  ASSUME NEW d, NEW c, Keeps(d, c), NEW r, Fresh(c, r), UnorphansRoot(d, r),
         r.old \in DOMAIN c
  PROVE  LET e == UnorphanRoot(Linked(d, r), r)
             g == Grown(c, r.new, r.old)
         IN  /\ Keeps(e, g)
             /\ e.maxVersions = d.maxVersions /\ e.maxBranches = d.maxBranches
             /\ e.root \in Range(Chain(g, r.new)) /\ g[e.root] \notin DOMAIN g
<1> DEFINE n == r.new
           p == r.old
           W == Waiting(c, d.root)
           l == Linked(d, r)
           g == Grown(c, n, p)
           s == Chain(g, n)
           front == s[Len(s)]
           e == UnorphanRoot(l, r)
<1>0. Lineage(c) /\ Rooted(c, d.root) /\ d.root \in DOMAIN c /\ c[d.root] = n
        /\ n \in Names /\ n \notin DOMAIN c /\ NoVersion \notin DOMAIN c
  <2>1. d.root # NoVersion /\ c[d.root] = n BY PutReads
  <2>2. Lineage(c) /\ Rooted(c, d.root) BY DEF Keeps
  <2> QED BY <2>1, <2>2 DEF Rooted, Fresh, Lineage
<1>1. /\ IsObject(l) /\ Links(l, g)
      /\ l.maxVersions = d.maxVersions /\ l.maxBranches = d.maxBranches
      /\ l.rootParent = d.rootParent /\ l.root = d.root
      /\ l.orphans = Grouped(g, Waiting(c, d.root) \ Kids(c, n))
  <2>1. Keeps(d, c) /\ Fresh(c, r) OBVIOUS
  <2> QED BY ONLY <2>1, LinkedLinks, ZenonT(30)
<1>2. /\ Lineage(g) /\ DOMAIN g = DOMAIN c \cup {n}
      /\ g[n] = p /\ \A v \in DOMAIN c : g[v] = c[v]
      /\ \A v : Kids(g, v) = Kids(c, v) \cup IF v = p THEN {n} ELSE {}
      /\ p # n
  <2>1. Lineage(c) /\ Fresh(c, r) BY <1>0
  <2> QED BY ONLY <2>1, GrownLineage, Zenon
<1> HIDE DEF l, g
<1>3. Parent(l, r) # NoVersion
  <2>1. Present(l) = DOMAIN g BY <1>1 DEF Links, Present
  <2>2. p # NoVersion /\ ~IsRoot(d, r) BY <1>0, PutReads
  <2>3. ~IsRoot(l, r) BY <2>1, <2>2, <1>2 DEF IsRoot
  <2> QED BY <2>1, <2>2, <2>3, <1>2 DEF Parent
<1>4. IsChain(s, g, n) BY <1>2, ChainExists
<1>5. front \in Range(s) /\ front \in DOMAIN g /\ g[front] \notin DOMAIN g
  <2> HIDE DEF s
  <2> QED BY <1>4 DEF IsChain, Range
<1>6. TopOf(l, n) = front BY <1>1, <1>2, UpwardsIsChain DEF TopOf
<1> HIDE DEF front
<1>7. front \in W \ Kids(c, n) BY <1>0, <1>2, <1>5 DEF Waiting, Kids
<1>8. OrphanKey(l, front) = g[front] BY <1>1, <1>7, OrphanKeyIsClaim
<1>9. /\ IsObject(e)
      /\ e.maxVersions = d.maxVersions /\ e.maxBranches = d.maxBranches
      /\ e.parent = l.parent /\ e.children = l.children /\ e.tips = l.tips
      /\ e.root = front /\ e.rootParent = g[front]
      /\ e.orphans = WithoutOrphan(l.orphans, g[front], front)
  BY <1>1, <1>3, <1>6, <1>8 DEF UnorphanRoot, IsObject
<1> HIDE DEF e
<1>10. Links(e, g) BY <1>1, <1>9, SameLinks
<1>11. Rooted(g, front) BY <1>0, <1>2, <1>5, <1>7 DEF Rooted, Waiting
<1>12. e.orphans = Grouped(g, Waiting(g, front))
  <2> DEFINE S == W \ Kids(c, n)
  <2>1. S \ {front} = Waiting(g, front)
    BY <1>0, <1>2, <1>5, <1>7 DEF Waiting, Kids
  <2>2. l.orphans = Grouped(g, S) BY <1>1
  <2> HIDE DEF S
  <2>3. front \in S BY <1>7 DEF S
  <2>4. WithoutOrphan(Grouped(g, S), g[front], front) = Grouped(g, S \ {front})
    BY <2>3, GroupedWithoutOrphan
  <2> QED BY <2>1, <2>2, <2>4, <1>9
<1>13. Keeps(e, g) BY <1>2, <1>5, <1>9, <1>10, <1>11, <1>12, KeepsAnew
<1> QED BY <1>5, <1>9, <1>13 DEF e, g, l

\* The first version of all, or the real root that comes late.
LEMMA NewRootKeeps ==
  ASSUME NEW d, NEW c, Keeps(d, c), NEW r, Fresh(c, r), IsRoot(d, r),
         ~UnorphansRoot(d, r), ~TwoRoots(d, r)
  PROVE  LET e == NewRoot(Linked(d, r), r)
         IN  /\ Keeps(e, Grown(c, r.new, r.old))
             /\ e.maxVersions = d.maxVersions /\ e.maxBranches = d.maxBranches
             /\ e.root = r.new
<1> DEFINE n == r.new
           p == r.old
           W == Waiting(c, d.root)
           l == Linked(d, r)
           g == Grown(c, n, p)
           e == NewRoot(l, r)
<1>0. Lineage(c) /\ Rooted(c, d.root)
        /\ (d.root # NoVersion => c[d.root] # n)
        /\ n \in Names /\ n \notin DOMAIN c /\ p \notin DOMAIN c
        /\ NoVersion \notin DOMAIN c
        /\ d.rootParent = (IF d.root = NoVersion THEN NoVersion ELSE c[d.root])
        /\ (d.root # NoVersion => d.rootParent # NoVersion)
  <2>1. Lineage(c) /\ Rooted(c, d.root) /\ NoVersion \notin DOMAIN c
          /\ d.rootParent = (IF d.root = NoVersion THEN NoVersion ELSE c[d.root])
    BY DEF Keeps, Lineage
  <2>2. (d.root # NoVersion => c[d.root] # n) /\ p \notin DOMAIN c BY PutReads
  <2>3. d.root # NoVersion => d.rootParent # NoVersion BY DEF TwoRoots
  <2>4. n \in Names /\ n \notin DOMAIN c BY DEF Fresh
  <2> QED BY <2>1, <2>2, <2>3, <2>4
<1>1. /\ IsObject(l) /\ Links(l, g)
      /\ l.maxVersions = d.maxVersions /\ l.maxBranches = d.maxBranches
      /\ l.rootParent = d.rootParent /\ l.root = d.root
      /\ l.orphans = Grouped(g, Waiting(c, d.root) \ Kids(c, n))
  <2>1. Keeps(d, c) /\ Fresh(c, r) OBVIOUS
  <2> QED BY ONLY <2>1, LinkedLinks, ZenonT(30)
<1>2. /\ Lineage(g) /\ DOMAIN g = DOMAIN c \cup {n}
      /\ g[n] = p /\ \A v \in DOMAIN c : g[v] = c[v]
      /\ \A v : Kids(g, v) = Kids(c, v) \cup IF v = p THEN {n} ELSE {}
      /\ p # n
  <2>1. Lineage(c) /\ Fresh(c, r) BY <1>0
  <2> QED BY ONLY <2>1, GrownLineage, Zenon
<1> HIDE DEF l, g
<1>3. /\ IsObject(e)
      /\ e.maxVersions = d.maxVersions /\ e.maxBranches = d.maxBranches
      /\ e.parent = l.parent /\ e.children = l.children /\ e.tips = l.tips
      /\ e.root = n /\ e.rootParent = p
      /\ e.orphans = IF l.rootParent = NoVersion THEN l.orphans
                     ELSE WithOrphans(l.orphans, l.rootParent, {l.root})
  BY <1>1 DEF NewRoot, IsObject
<1> HIDE DEF e
<1>4. Links(e, g) BY <1>1, <1>3, SameLinks
<1>5. Rooted(g, n) BY <1>0, <1>2 DEF Rooted
<1>6. e.orphans = Grouped(g, Waiting(g, n))
  <2> DEFINE S == W \ Kids(c, n)
  <2>1. CASE d.root = NoVersion
    <3>1. S = {} /\ Waiting(g, n) = {} BY <2>1, <1>0, <1>2 DEF Waiting, Rooted
    <3> QED BY <2>1, <3>1, <1>0, <1>1, <1>3
  <2>2. CASE d.root # NoVersion
    <3>1. e.orphans = WithOrphans(Grouped(g, S), d.rootParent, {d.root})
      BY <2>2, <1>0, <1>1, <1>3
    <3>2. d.root \in DOMAIN c /\ g[d.root] = d.rootParent
      BY <2>2, <1>0, <1>2 DEF Rooted
    <3>3. S \cup {d.root} = Waiting(g, n)
      BY <2>2, <3>2, <1>0, <1>2 DEF Waiting, Kids, Rooted
    <3>4. WithOrphans(Grouped(g, S), d.rootParent, {d.root})
            = Grouped(g, S \cup {d.root})
      <4> HIDE DEF S
      <4>1. \A v \in {d.root} : g[v] = d.rootParent BY <3>2
      <4> QED BY <4>1, GroupedWithOrphans
    <3> QED BY <3>1, <3>3, <3>4
  <2> QED BY <2>1, <2>2
<1>7. Keeps(e, g) BY <1>2, <1>3, <1>4, <1>5, <1>6, KeepsAnew
<1> QED BY <1>3, <1>7 DEF e, g, l

Added(d, r) ==
  LET linked == Linked(d, r)
  IN IF IsOrphan(d, r)
     THEN [linked EXCEPT !.orphans = WithOrphans(@, r.old, {r.new})]
     ELSE linked

\* Below a version that is held, or as one more orphan.
LEMMA AddedKeeps ==
  ASSUME NEW d, NEW c, Keeps(d, c), NEW r, Fresh(c, r), ~IsRoot(d, r),
         ~UnorphansRoot(d, r)
  PROVE  LET e == Added(d, r)
         IN  /\ Keeps(e, Grown(c, r.new, r.old))
             /\ e.maxVersions = d.maxVersions /\ e.maxBranches = d.maxBranches
             /\ e.root = d.root
<1> DEFINE n == r.new
           p == r.old
           W == Waiting(c, d.root)
           l == Linked(d, r)
           g == Grown(c, n, p)
           e == Added(d, r)
<1>0. /\ Lineage(c) /\ Rooted(c, d.root) /\ d.root \in DOMAIN c
      /\ c[d.root] # n /\ n \in Names /\ n \notin DOMAIN c
      /\ NoVersion \notin DOMAIN c /\ p # NoVersion
      /\ d.rootParent = c[d.root]
  BY PutReads DEF Keeps, Fresh, Lineage, Rooted
<1>1. /\ IsObject(l) /\ Links(l, g)
      /\ l.maxVersions = d.maxVersions /\ l.maxBranches = d.maxBranches
      /\ l.rootParent = d.rootParent /\ l.root = d.root
      /\ l.orphans = Grouped(g, Waiting(c, d.root) \ Kids(c, n))
  <2>1. Keeps(d, c) /\ Fresh(c, r) OBVIOUS
  <2> QED BY ONLY <2>1, LinkedLinks, ZenonT(30)
<1>2. /\ Lineage(g) /\ DOMAIN g = DOMAIN c \cup {n}
      /\ g[n] = p /\ \A v \in DOMAIN c : g[v] = c[v]
      /\ \A v : Kids(g, v) = Kids(c, v) \cup IF v = p THEN {n} ELSE {}
      /\ p # n
  <2>1. Lineage(c) /\ Fresh(c, r) BY <1>0
  <2> QED BY ONLY <2>1, GrownLineage, Zenon
<1>3. IsOrphan(d, r) <=> p \notin DOMAIN c BY PutReads DEF IsOrphan
<1> HIDE DEF l, g
<1>4. /\ IsObject(e)
      /\ e.maxVersions = d.maxVersions /\ e.maxBranches = d.maxBranches
      /\ e.parent = l.parent /\ e.children = l.children /\ e.tips = l.tips
      /\ e.root = d.root /\ e.rootParent = d.rootParent
      /\ e.orphans = IF p \in DOMAIN c THEN l.orphans
                     ELSE WithOrphans(l.orphans, p, {n})
  BY <1>1, <1>3 DEF Added, l, IsObject
<1> HIDE DEF e
<1>5. Links(e, g) BY <1>1, <1>4, SameLinks
<1>6. Rooted(g, d.root) BY <1>0, <1>2 DEF Rooted
<1>7. e.orphans = Grouped(g, Waiting(g, d.root))
  <2> DEFINE S == W \ Kids(c, n)
  <2>1. CASE p \in DOMAIN c
    <3>1. S = Waiting(g, d.root)
      BY <2>1, <1>0, <1>2 DEF Waiting, Kids
    <3> QED BY <2>1, <3>1, <1>1, <1>4
  <2>2. CASE p \notin DOMAIN c
    <3>1. e.orphans = WithOrphans(Grouped(g, S), p, {n}) BY <2>2, <1>1, <1>4
    <3>2. S \cup {n} = Waiting(g, d.root)
      BY <2>2, <1>0, <1>2 DEF Waiting, Kids
    <3>3. WithOrphans(Grouped(g, S), p, {n}) = Grouped(g, S \cup {n})
      <4> HIDE DEF S
      <4>1. \A v \in {n} : g[v] = p BY <1>2
      <4> QED BY <4>1, GroupedWithOrphans
    <3> QED BY <3>1, <3>2, <3>3
  <2> QED BY <2>1, <2>2
<1>8. d.root \in DOMAIN g /\ d.rootParent = g[d.root] BY <1>0, <1>2
<1>9. Keeps(e, g) BY <1>2, <1>4, <1>5, <1>6, <1>7, <1>8, KeepsAnew
<1> QED BY <1>4, <1>9 DEF e, g

-----------------------------------------------------------------------------
(* The limits.                                                             *)

LEMMA NoLarger ==
  ASSUME NEW S, NEW T, IsFiniteSet(T), S \subseteq T, NEW n \in Nat,
         Cardinality(T) <= n
  PROVE  IsFiniteSet(S) /\ Cardinality(S) <= n
<1>1. IsFiniteSet(S) /\ Cardinality(S) <= Cardinality(T) BY FS_Subset
<1>2. Cardinality(S) \in Nat /\ Cardinality(T) \in Nat
  BY <1>1, FS_CardinalityType
<1> QED BY <1>1, <1>2

LEMMA OneLarger ==
  ASSUME NEW S, NEW T, IsFiniteSet(T), NEW v, S \subseteq T \cup {v},
         NEW n \in Nat, Cardinality(T) <= n, Cardinality(T) # n
  PROVE  IsFiniteSet(S) /\ Cardinality(S) <= n
<1>1. IsFiniteSet(T \cup {v}) /\ Cardinality(T \cup {v}) <= Cardinality(T) + 1
  <2>1. Cardinality(T) \in Nat BY FS_CardinalityType
  <2>2. IsFiniteSet(T \cup {v})
          /\ Cardinality(T \cup {v}) = IF v \in T THEN Cardinality(T) ELSE Cardinality(T) + 1
    BY ONLY IsFiniteSet(T), FS_AddElement
  <2> QED BY <2>1, <2>2
<1>2. Cardinality(T) \in Nat BY FS_CardinalityType
<1>3. Cardinality(T \cup {v}) \in Nat BY <1>1, FS_CardinalityType
<1>4. Cardinality(T \cup {v}) <= n BY <1>1, <1>2, <1>3
<1> QED BY <1>1, <1>4, NoLarger

LEMMA OneForAnother ==
  ASSUME NEW S, NEW T, IsFiniteSet(T), NEW u \in T, NEW v,
         S \subseteq (T \ {u}) \cup {v}, NEW n \in Nat, Cardinality(T) <= n
  PROVE  IsFiniteSet(S) /\ Cardinality(S) <= n
<1>1. IsFiniteSet(T \ {u}) /\ Cardinality(T \ {u}) = Cardinality(T) - 1
  BY FS_RemoveElement
<1>2. Cardinality(T) \in Nat /\ Cardinality(T \ {u}) \in Nat
  BY <1>1, FS_CardinalityType
<1>3. Cardinality(T \ {u}) <= n /\ Cardinality(T \ {u}) # n BY <1>1, <1>2
<1> QED BY <1>1, <1>3, OneLarger

\* How the tips change with a new version.
LEMMA GrownTips ==
  ASSUME NEW c, Lineage(c), NEW r, Fresh(c, r)
  PROVE  LET g == Grown(c, r.new, r.old)
         IN  /\ TipsOf(g) = (TipsOf(c) \ {r.old})
                  \cup IF Kids(c, r.new) = {} THEN {r.new} ELSE {}
             /\ IsFiniteSet(TipsOf(c)) /\ IsFiniteSet(TipsOf(g))
             /\ IsFiniteSet(DOMAIN g)
             /\ Cardinality(DOMAIN g) = Cardinality(DOMAIN c) + 1
             /\ Cardinality(TipsOf(c)) \in Nat
             /\ Cardinality(DOMAIN c) \in Nat
<1> DEFINE n == r.new
           p == r.old
           g == Grown(c, n, p)
<1>1. /\ Lineage(g) /\ DOMAIN g = DOMAIN c \cup {n}
      /\ g[n] = p /\ \A v \in DOMAIN c : g[v] = c[v]
      /\ \A v : Kids(g, v) = Kids(c, v) \cup IF v = p THEN {n} ELSE {}
      /\ p # n
  BY GrownLineage
<1>2. n \notin DOMAIN c BY DEF Fresh
<1> HIDE DEF g
<1>3. TipsOf(g) = (TipsOf(c) \ {p}) \cup IF Kids(c, n) = {} THEN {n} ELSE {}
  <2>1. \A v : Kids(g, v) = {} <=> Kids(c, v) = {} /\ v # p
    <3> SUFFICES ASSUME NEW v PROVE Kids(g, v) = {} <=> Kids(c, v) = {} /\ v # p
      OBVIOUS
    <3>1. Kids(g, v) = Kids(c, v) \cup IF v = p THEN {n} ELSE {} BY <1>1
    <3> QED BY <3>1
  <2> QED BY <2>1, <1>1, <1>2 DEF TipsOf
<1>4. IsFiniteSet(DOMAIN c) /\ IsFiniteSet(DOMAIN g) BY <1>1 DEF Lineage
<1>5. IsFiniteSet(TipsOf(c)) /\ IsFiniteSet(TipsOf(g))
  <2>1. TipsOf(c) \in SUBSET DOMAIN c /\ TipsOf(g) \in SUBSET DOMAIN g
    BY DEF TipsOf
  <2> QED BY <2>1, <1>4, FS_Subset
<1>6. Cardinality(DOMAIN g) = Cardinality(DOMAIN c) + 1
  BY <1>1, <1>2, <1>4, FS_AddElement
<1>7. Cardinality(TipsOf(c)) \in Nat /\ Cardinality(DOMAIN c) \in Nat
  BY <1>4, <1>5, FS_CardinalityType
<1> QED BY <1>3, <1>4, <1>5, <1>6, <1>7 DEF g

\* What the two limits are to a well-kept object.
LEMMA LimitsRead ==
  ASSUME NEW d, NEW c, Keeps(d, c)
  PROVE  /\ AtVersionsLimit(d) <=> Cardinality(DOMAIN c) = d.maxVersions
         /\ AtBranchesLimit(d) <=> Cardinality(TipsOf(c)) = d.maxBranches
         /\ \A l : l = LimitsOf(d) =>
              l.versions = d.maxVersions /\ l.branches = d.maxBranches
<1>1. Present(d) = DOMAIN c /\ d.tips = TipsOf(c)
  BY DEF Keeps, Links, Present, TipsOf
<1> QED BY <1>1 DEF AtVersionsLimit, AtBranchesLimit, LimitsOf

\* A version that adds no branch, or that comes with room for one.
LEMMA NoBranchAdded ==
  ASSUME NEW d, NEW c, Keeps(d, c), HasLimits(d), Small(c, LimitsOf(d)),
         NEW r, Fresh(c, r), ~AddsBranch(d, r),
         IsRoot(d, r) => ~ChecksBranchCount(d, r) \/ UnorphansRoot(d, r)
  PROVE  Cardinality(TipsOf(Grown(c, r.new, r.old))) <= d.maxBranches
<1> DEFINE n == r.new
           p == r.old
           g == Grown(c, n, p)
<1>0. Lineage(c) /\ Rooted(c, d.root) /\ d.maxBranches \in Nat
        /\ NoVersion \notin DOMAIN c
  BY DEF Keeps, HasLimits, Lineage
<1>1. /\ TipsOf(g) = (TipsOf(c) \ {p}) \cup IF Kids(c, n) = {} THEN {n} ELSE {}
      /\ IsFiniteSet(TipsOf(c)) /\ Cardinality(TipsOf(c)) \in Nat
  BY <1>0, GrownTips
<1>2. Cardinality(TipsOf(c)) <= d.maxBranches
  BY LimitsRead DEF Small
<1> HIDE DEF g
<1>3. CASE Kids(c, n) # {}
  <2>1. TipsOf(g) \subseteq TipsOf(c) BY <1>1, <1>3
  <2> QED BY <2>1, <1>0, <1>1, <1>2, NoLarger DEF g
<1>4. CASE Kids(c, n) = {} /\ Cardinality(TipsOf(c)) # d.maxBranches
  <2>1. TipsOf(g) \subseteq TipsOf(c) \cup {n} BY <1>1
  <2> QED BY <2>1, <1>0, <1>1, <1>2, <1>4, OneLarger DEF g
<1>5. CASE Kids(c, n) = {} /\ Cardinality(TipsOf(c)) = d.maxBranches
  <2>1. ~UnorphansRoot(d, r) /\ Unorphaned(d, r) = {}
    BY <1>0, <1>5, PutReads DEF Kids, Rooted
  <2>2. ChecksBranchCount(d, r)
    BY <2>1, <1>5, LimitsRead DEF ChecksBranchCount
  <2>3. ~IsRoot(d, r) /\ ~IsOrphan(d, r) BY <2>1, <2>2 DEF AddsBranch
  <2>4. p \in DOMAIN c /\ Parent(d, r) = p
    BY <2>3, PutReads DEF IsOrphan
  <2>5. d.children[p] = {} /\ d.children[p] = Kids(c, p)
    BY <2>2, <2>4, <1>0 DEF AddsBranch, Keeps, Links
  <2>6. p \in TipsOf(c) BY <2>4, <2>5 DEF TipsOf
  <2>7. TipsOf(g) \subseteq (TipsOf(c) \ {p}) \cup {n} BY <1>1
  <2> QED BY <2>6, <2>7, <1>0, <1>1, <1>2, OneForAnother DEF g
<1> QED BY <1>3, <1>4, <1>5

-----------------------------------------------------------------------------
(* Insert does what the abstract Put does.                                 *)

\* VersionForest's Put, from the forest c and its root to c2 and root2.
PutInForest(c, root, l, v, p, c2, root2) ==
  LET grown == Grown(c, v, p)
  IN /\ v \notin DOMAIN c
     /\ \/ /\ Small(grown, l) /\ c2 = grown
           /\ DOMAIN c = {} => root2 = v
           /\ DOMAIN c # {} /\ c[root] = v =>
                root2 \in TheForest!Above(grown, v) \cap TheForest!Tops(grown)
           /\ DOMAIN c # {} /\ c[root] # v =>
                root2 = IF p = NoVersion \/ v.index = 0 THEN v ELSE root
        \/ /\ ~Small(grown, l) /\ c2 = Minus(grown, {root}) /\ Small(c2, l)
           /\ TheForest!Succeeds(root2, grown, root)

SameLimits(e, d) ==
  e.maxVersions = d.maxVersions /\ e.maxBranches = d.maxBranches

\* A Put that gets as far as Insert.
Inserts(d, r) ==
  /\ ~PutIsUndefined(d, r) /\ ~PutThrows(d, r)
  /\ r.new \notin Present(d) /\ ~ErasedAtOnce(d, r)

LEMMA GrownIsSmall ==
  ASSUME NEW d, NEW c, Keeps(d, c), HasLimits(d), Small(c, LimitsOf(d)),
         NEW r, Fresh(c, r), ~AtVersionsLimit(d),
         Cardinality(TipsOf(Grown(c, r.new, r.old))) <= d.maxBranches
  PROVE  Small(Grown(c, r.new, r.old), LimitsOf(d))
<1> DEFINE g == Grown(c, r.new, r.old)
<1>0. Lineage(c) BY DEF Keeps
<1>1. Cardinality(DOMAIN g) = Cardinality(DOMAIN c) + 1
        /\ Cardinality(DOMAIN c) \in Nat
  BY <1>0, GrownTips
<1>2. Cardinality(DOMAIN c) <= d.maxVersions /\ d.maxVersions \in Nat
        /\ Cardinality(DOMAIN c) # d.maxVersions
  BY LimitsRead DEF Small, HasLimits
<1> HIDE DEF g
<1>3. Cardinality(DOMAIN g) <= d.maxVersions BY <1>1, <1>2
<1> QED BY <1>3, LimitsRead DEF Small, g

\* The root finds its parent: it is no tip, so that there is room.
LEMMA InsertUnorphansRoot ==
  ASSUME NEW d, NEW c, Keeps(d, c), HasLimits(d), Small(c, LimitsOf(d)),
         NEW r, Fresh(c, r), Inserts(d, r), UnorphansRoot(d, r)
  PROVE  LET e == Inserted(d, r)
             g == Grown(c, r.new, r.old)
         IN  /\ Keeps(e, g) /\ SameLimits(e, d) /\ Small(g, LimitsOf(d))
             /\ PutInForest(c, d.root, LimitsOf(d), r.new, r.old, g, e.root)
<1> DEFINE n == r.new
           p == r.old
           e == Inserted(d, r)
           g == Grown(c, n, p)
<1>0. Lineage(c) /\ Rooted(c, d.root) /\ d.root # NoVersion /\ c[d.root] = n
        /\ d.root \in DOMAIN c /\ n \notin DOMAIN c
  BY PutReads DEF Keeps, Rooted, Fresh
<1>1. Lineage(g) /\ DOMAIN g = DOMAIN c \cup {n} /\ g[n] = p
  <2>1. Lineage(c) /\ Fresh(c, r) BY <1>0
  <2> QED BY ONLY <2>1, GrownLineage, Zenon
<1>2. Small(g, LimitsOf(d))
  <2>1. ~AtVersionsLimit(d) BY DEF Inserts, ErasedAtOnce
  <2>2. Kids(c, n) # {} BY <1>0 DEF Kids
  <2>3. TipsOf(g) \subseteq TipsOf(c) /\ IsFiniteSet(TipsOf(c))
    BY <1>0, <2>2, GrownTips
  <2>4. Cardinality(TipsOf(c)) <= d.maxBranches /\ d.maxBranches \in Nat
    BY LimitsRead DEF Small, HasLimits
  <2>5. Cardinality(TipsOf(g)) <= d.maxBranches
    <3> HIDE DEF g
    <3> QED BY <2>3, <2>4, NoLarger
  <2> QED BY <2>1, <2>5, GrownIsSmall
<1>3. e = UnorphanRoot(Linked(d, r), r) BY DEF Inserted
<1>4. Keeps(e, g) /\ SameLimits(e, d)
        /\ e.root \in TheForest!Above(g, n) \cap TheForest!Tops(g)
  <2>1. TheForest!Above(g, n) = Range(Chain(g, n)) BY <1>1, AboveIsChain
  <2>2. IsChain(Chain(g, n), g, n) BY <1>1, ChainExists
  <2>3. CASE p \notin DOMAIN c
    <3>1. Keeps(e, g) /\ e.root = n
            /\ e.maxVersions = d.maxVersions /\ e.maxBranches = d.maxBranches
      BY <2>3, <1>3, UnorphanRootByNew
    <3>2. n \in Range(Chain(g, n))
      <4> DEFINE s == Chain(g, n)
      <4>1. s \in Seq(DOMAIN g) /\ Len(s) >= 1 /\ s[1] = n
        BY <2>2 DEF IsChain
      <4> HIDE DEF s
      <4>2. 1 \in DOMAIN s BY <4>1
      <4>3. n \in Range(s) BY <4>1, <4>2 DEF Range
      <4> QED BY <4>3 DEF s
    <3>3. p \notin DOMAIN g BY <2>3, <1>0, <1>1, GrownLineage
    <3>4. n \in TheForest!Tops(g) BY <1>1, <3>3 DEF TheForest!Tops
    <3> QED BY <3>1, <3>2, <3>4, <2>1 DEF SameLimits
  <2>4. CASE p \in DOMAIN c
    <3>1. Keeps(e, g) /\ e.root \in Range(Chain(g, n)) /\ g[e.root] \notin DOMAIN g
            /\ e.maxVersions = d.maxVersions /\ e.maxBranches = d.maxBranches
      BY <2>4, <1>3, UnorphanRootByFront
    <3>2. \A v \in Range(Chain(g, n)) : v \in DOMAIN g
      BY <2>2 DEF IsChain, Range
    <3>3. e.root \in TheForest!Tops(g) BY <3>1, <3>2 DEF TheForest!Tops
    <3> QED BY <3>1, <3>3, <2>1 DEF SameLimits
  <2> QED BY <2>3, <2>4
<1> HIDE DEF e, g
<1>5. PutInForest(c, d.root, LimitsOf(d), n, p, g, e.root)
  BY <1>0, <1>2, <1>4 DEF PutInForest, g
<1> QED BY <1>2, <1>4, <1>5 DEF e, g

\* The new version becomes the root.
LEMMA InsertMakesRoot ==
  ASSUME NEW d, NEW c, Keeps(d, c), HasLimits(d), Small(c, LimitsOf(d)),
         NEW r, Fresh(c, r), Inserts(d, r), ~UnorphansRoot(d, r), IsRoot(d, r)
  PROVE  LET e == Inserted(d, r)
             g == Grown(c, r.new, r.old)
         IN  /\ Keeps(e, g) /\ SameLimits(e, d) /\ Small(g, LimitsOf(d))
             /\ PutInForest(c, d.root, LimitsOf(d), r.new, r.old, g, e.root)
<1> DEFINE n == r.new
           p == r.old
           e == Inserted(d, r)
           g == Grown(c, n, p)
<1>0. Lineage(c) /\ Rooted(c, d.root) /\ n \notin DOMAIN c
        /\ (p = NoVersion \/ DOMAIN c = {})
        /\ (DOMAIN c # {} => c[d.root] # n)
  BY PutReads DEF Keeps, Rooted, Fresh
<1>1. ~TwoRoots(d, r) BY DEF Inserts, PutThrows
<1>2. Small(g, LimitsOf(d))
  <2>1. ~AtVersionsLimit(d) BY DEF Inserts, ErasedAtOnce
  <2>2. ~ChecksBranchCount(d, r) BY <1>1 DEF Inserts, PutIsUndefined
  <2>3. ~AddsBranch(d, r) BY <2>2 DEF AddsBranch
  <2>4. Cardinality(TipsOf(g)) <= d.maxBranches BY <2>2, <2>3, NoBranchAdded
  <2> QED BY <2>1, <2>4, GrownIsSmall
<1>3. e = NewRoot(Linked(d, r), r) BY DEF Inserted
<1>4. Keeps(e, g) /\ e.root = n
        /\ e.maxVersions = d.maxVersions /\ e.maxBranches = d.maxBranches
  BY <1>1, <1>3, NewRootKeeps
<1> HIDE DEF e, g
<1>5. PutInForest(c, d.root, LimitsOf(d), n, p, g, e.root)
  BY <1>0, <1>2, <1>4 DEF PutInForest, g
<1> QED BY <1>2, <1>4, <1>5 DEF e, g, SameLimits

\* The new version joins a branch, or waits, and there is room.
LEMMA InsertAdds ==
  ASSUME NEW d, NEW c, Keeps(d, c), HasLimits(d), Small(c, LimitsOf(d)),
         NEW r, Fresh(c, r), Inserts(d, r), ~UnorphansRoot(d, r), ~IsRoot(d, r),
         ~ErasesRoot(d, r)
  PROVE  LET e == Inserted(d, r)
             g == Grown(c, r.new, r.old)
         IN  /\ Keeps(e, g) /\ SameLimits(e, d) /\ Small(g, LimitsOf(d))
             /\ PutInForest(c, d.root, LimitsOf(d), r.new, r.old, g, e.root)
<1> DEFINE n == r.new
           p == r.old
           e == Inserted(d, r)
           g == Grown(c, n, p)
<1>0. Lineage(c) /\ Rooted(c, d.root) /\ n \notin DOMAIN c /\ p # NoVersion
        /\ n.index # 0 /\ DOMAIN c # {} /\ c[d.root] # n
  <2>1. p # NoVersion /\ DOMAIN c # {} BY PutReads
  <2>2. n.index # 0 BY DEF IsRoot
  <2> QED BY <2>1, <2>2, PutReads DEF Keeps, Rooted, Fresh
<1>1. Small(g, LimitsOf(d))
  <2>1. ~AtVersionsLimit(d) /\ ~AddsBranch(d, r) BY DEF ErasesRoot
  <2>2. Cardinality(TipsOf(g)) <= d.maxBranches BY <2>1, NoBranchAdded
  <2> QED BY <2>1, <2>2, GrownIsSmall
<1>2. e = Added(d, r) BY DEF Inserted, Added
<1>3. Keeps(e, g) /\ e.root = d.root
        /\ e.maxVersions = d.maxVersions /\ e.maxBranches = d.maxBranches
  BY <1>2, AddedKeeps
<1> HIDE DEF e, g
<1>4. PutInForest(c, d.root, LimitsOf(d), n, p, g, e.root)
  BY <1>0, <1>1, <1>3 DEF PutInForest, g
<1> QED BY <1>1, <1>3, <1>4 DEF e, g, SameLimits

\* One more version, or tip, than there is room for, and the root goes.
LEMMA OneTooMany ==
  ASSUME NEW d, NEW c, Keeps(d, c), HasLimits(d), NEW r, Fresh(c, r),
         ~IsRoot(d, r), ~UnorphansRoot(d, r), ErasesRoot(d, r)
  PROVE  ~Small(Grown(c, r.new, r.old), LimitsOf(d))
<1> DEFINE n == r.new
           p == r.old
           g == Grown(c, n, p)
<1>0. Lineage(c) /\ Rooted(c, d.root) /\ n \notin DOMAIN c
        /\ d.maxVersions \in Nat /\ d.maxBranches \in Nat
  BY DEF Keeps, HasLimits, Fresh
<1>1. /\ TipsOf(g) = (TipsOf(c) \ {p}) \cup IF Kids(c, n) = {} THEN {n} ELSE {}
      /\ IsFiniteSet(TipsOf(c))
      /\ Cardinality(DOMAIN g) = Cardinality(DOMAIN c) + 1
  BY <1>0, GrownTips
<1> HIDE DEF g
<1>2. CASE AtVersionsLimit(d)
  <2>1. Cardinality(DOMAIN g) = d.maxVersions + 1 BY <1>1, <1>2, LimitsRead
  <2>2. ~(Cardinality(DOMAIN g) <= d.maxVersions) BY <2>1, <1>0
  <2> QED BY <2>2, LimitsRead DEF Small, g
<1>3. CASE AddsBranch(d, r)
  <2>1. Cardinality(TipsOf(c)) = d.maxBranches /\ Unorphaned(d, r) = {}
    BY <1>3, LimitsRead DEF AddsBranch, ChecksBranchCount
  <2>2. Kids(c, n) = {}
    BY <2>1, <1>0, PutReads DEF Kids, Rooted
  <2>3. p \notin TipsOf(c)
    <3>1. CASE IsOrphan(d, r)
      BY <3>1, PutReads DEF IsOrphan, TipsOf
    <3>2. CASE Parent(d, r) # NoVersion /\ d.children[Parent(d, r)] # {}
      <4>1. p \in DOMAIN c /\ Parent(d, r) = p BY <3>2, PutReads
      <4>2. d.children[p] = Kids(c, p) BY <4>1 DEF Keeps, Links
      <4> QED BY <3>2, <4>1, <4>2 DEF TipsOf
    <3> QED BY <1>3, <3>1, <3>2 DEF AddsBranch
  <2>4. TipsOf(g) = TipsOf(c) \cup {n} /\ n \notin TipsOf(c)
    BY <2>2, <2>3, <1>0, <1>1 DEF TipsOf
  <2>5. Cardinality(TipsOf(g)) = d.maxBranches + 1
    <3>1. IsFiniteSet(TipsOf(c)) BY <1>1
    <3>2. Cardinality(TipsOf(g)) = Cardinality(TipsOf(c)) + 1
      BY ONLY <2>4, <3>1, FS_AddElement
    <3> QED BY <2>1, <3>2
  <2>6. ~(Cardinality(TipsOf(g)) <= d.maxBranches) BY <2>5, <1>0
  <2> QED BY <2>6, LimitsRead DEF Small, g
<1> QED BY <1>2, <1>3 DEF ErasesRoot

\* Without the root there is room again.
LEMMA RoomWithoutRoot ==
  ASSUME NEW d, NEW c, Keeps(d, c), HasLimits(d), Small(c, LimitsOf(d)),
         NEW r, Fresh(c, r), Inserts(d, r), ~IsRoot(d, r), ~UnorphansRoot(d, r)
  PROVE  Small(Minus(Grown(c, r.new, r.old), {d.root}), LimitsOf(d))
<1> DEFINE n == r.new
           p == r.old
           root == d.root
           g == Grown(c, n, p)
           c2 == Minus(g, {root})
<1>0. Lineage(c) /\ Rooted(c, root) /\ n \notin DOMAIN c /\ DOMAIN c # {}
        /\ d.maxVersions \in Nat /\ d.maxBranches \in Nat
  BY PutReads DEF Keeps, HasLimits, Fresh
<1>1. root \in DOMAIN c /\ c[root] \notin DOMAIN c /\ c[root] # n
  BY <1>0, PutReads DEF Rooted
<1>2. /\ TipsOf(g) = (TipsOf(c) \ {p}) \cup IF Kids(c, n) = {} THEN {n} ELSE {}
      /\ IsFiniteSet(TipsOf(c)) /\ IsFiniteSet(TipsOf(g))
      /\ IsFiniteSet(DOMAIN g)
      /\ Cardinality(DOMAIN g) = Cardinality(DOMAIN c) + 1
      /\ Cardinality(DOMAIN c) \in Nat
  <2>1. Lineage(c) /\ Fresh(c, r) BY <1>0
  <2> QED BY ONLY <2>1, GrownTips, Zenon
<1>3. Lineage(g) /\ DOMAIN g = DOMAIN c \cup {n} /\ g[root] = c[root]
  BY <1>0, <1>1, GrownLineage, SMTT(30)
<1>4. Cardinality(DOMAIN c) <= d.maxVersions
        /\ Cardinality(TipsOf(c)) <= d.maxBranches
  BY LimitsRead DEF Small
<1>5. ~AddsBranch(d, r) => Cardinality(TipsOf(g)) <= d.maxBranches
  <2> HAVE ~AddsBranch(d, r)
  <2>1. IsRoot(d, r) => ~ChecksBranchCount(d, r) \/ UnorphansRoot(d, r)
    OBVIOUS
  <2> QED BY <2>1, NoBranchAdded
<1> HIDE DEF g
<1>6. /\ Lineage(c2) /\ DOMAIN c2 = DOMAIN g \ {root}
      /\ \A v \in DOMAIN g \ {root} : c2[v] = g[v]
      /\ \A v : Kids(c2, v) = Kids(g, v) \ {root}
  <2>1. Lineage(g) BY <1>3
  <2> QED BY ONLY <2>1, MinusLineage, Zenon
<1> HIDE DEF c2
<1>7. Cardinality(DOMAIN c2) <= d.maxVersions
  <2>1. Cardinality(DOMAIN g \ {root}) = Cardinality(DOMAIN g) - 1
    <3>1. IsFiniteSet(DOMAIN g) /\ root \in DOMAIN g BY <1>1, <1>2, <1>3
    <3> QED BY <3>1, FS_RemoveElement
  <2> QED BY <2>1, <1>2, <1>4, <1>6
<1>8. TipsOf(c2) \subseteq TipsOf(g) \ {root}
  <2> SUFFICES ASSUME NEW v \in TipsOf(c2)
               PROVE  v \in DOMAIN g \ {root} /\ Kids(g, v) = {}
    BY DEF TipsOf
  <2>1. v \in DOMAIN g \ {root} /\ Kids(c2, v) = {} BY <1>6 DEF TipsOf
  <2>2. Kids(g, v) \ {root} = {} BY <2>1, <1>6
  <2>3. root \notin Kids(g, v) BY <2>1, <1>1, <1>3 DEF Kids
  <2> QED BY <2>1, <2>2, <2>3
<1>9. Cardinality(TipsOf(c2)) <= d.maxBranches
  <2>1. CASE ~AddsBranch(d, r)
    <3>1. TipsOf(c2) \subseteq TipsOf(g) BY <1>8
    <3> QED BY <2>1, <3>1, <1>0, <1>2, <1>5, NoLarger
  <2>2. CASE AddsBranch(d, r)
    <3>1. RootIsTipOfTree(d)
      BY <2>2, <1>0, PutReads DEF Inserts, PutThrows
    <3>2. root \in TipsOf(c)
      BY <3>1, <1>1 DEF RootIsTipOfTree, Keeps, Links, TipsOf
    <3>3. TipsOf(c2) \subseteq (TipsOf(c) \ {root}) \cup {n} BY <1>2, <1>8
    <3>4. IsFiniteSet(TipsOf(c)) BY <1>2
    <3> HIDE DEF n, root
    <3> QED BY <3>2, <3>3, <3>4, <1>0, <1>4, OneForAnother
  <2> QED BY <2>1, <2>2
<1> QED BY <1>7, <1>9, LimitsRead DEF Small, c2, g

LEMMA InsertReplacesRoot ==
  ASSUME NEW d, NEW c, Keeps(d, c), HasLimits(d), Small(c, LimitsOf(d)),
         NEW r, Fresh(c, r), Inserts(d, r), ~UnorphansRoot(d, r), ~IsRoot(d, r),
         ErasesRoot(d, r)
  PROVE  LET e == Inserted(d, r)
             c2 == Minus(Grown(c, r.new, r.old), {d.root})
         IN  /\ Keeps(e, c2) /\ SameLimits(e, d) /\ Small(c2, LimitsOf(d))
             /\ PutInForest(c, d.root, LimitsOf(d), r.new, r.old, c2, e.root)
<1> DEFINE n == r.new
           p == r.old
           root == d.root
           a == Added(d, r)
           e == Inserted(d, r)
           g == Grown(c, n, p)
           c2 == Minus(g, {root})
<1>0. Lineage(c) /\ Rooted(c, root) /\ n \notin DOMAIN c /\ DOMAIN c # {}
  BY PutReads DEF Keeps, Fresh
<1>1. Keeps(a, g) /\ a.root = root
        /\ a.maxVersions = d.maxVersions /\ a.maxBranches = d.maxBranches
  BY AddedKeeps
<1>2. e = ReplaceRoot(a) BY DEF Inserted, Added
<1>3. root # NoVersion /\ DOMAIN g # {root}
  <2>1. n \in DOMAIN g BY DEF Grown
  <2> QED BY <2>1, <1>0 DEF Rooted
<1>4. ~Small(g, LimitsOf(d)) BY OneTooMany
<1>5. Small(c2, LimitsOf(d)) BY RoomWithoutRoot
<1> HIDE DEF a, e, g
<1>6. LET f == ReplaceRoot(a)
      IN  /\ Keeps(f, Minus(g, {a.root}))
          /\ f.maxVersions = a.maxVersions /\ f.maxBranches = a.maxBranches
          /\ TheForest!Succeeds(f.root, g, a.root)
  BY <1>1, <1>3, ReplaceRootKeeps
<1>7. Keeps(e, c2) /\ SameLimits(e, d) /\ TheForest!Succeeds(e.root, g, root)
  BY <1>1, <1>2, <1>6 DEF SameLimits
<1> HIDE DEF c2
<1>8. PutInForest(c, root, LimitsOf(d), n, p, c2, e.root)
  BY <1>0, <1>4, <1>5, <1>7 DEF PutInForest, c2, g
<1> QED BY <1>5, <1>7, <1>8 DEF c2, g, e

\* Put as a whole: it changes nothing, or does what VersionForest's does.
LEMMA PutKeeps ==
  ASSUME NEW d, NEW c, Keeps(d, c), HasLimits(d), Small(c, LimitsOf(d)),
         Numbered, NEW r \in Requests
  PROVE  LET e == PutOutcome(d, r).sdv
         IN  \/ e = d
             \/ \E c2 : /\ Keeps(e, c2) /\ SameLimits(e, d)
                        /\ Small(c2, LimitsOf(d))
                        /\ PutInForest(c, d.root, LimitsOf(d), r.new, r.old, c2, e.root)
<1> DEFINE e == PutOutcome(d, r).sdv
<1>1. e = d \/ (e = Inserted(d, r) /\ Inserts(d, r))
  BY DEF PutOutcome, Outcome, Inserts
<1>2. SUFFICES ASSUME e = Inserted(d, r), Inserts(d, r)
               PROVE  \E c2 : /\ Keeps(e, c2) /\ SameLimits(e, d)
                              /\ Small(c2, LimitsOf(d))
                              /\ PutInForest(c, d.root, LimitsOf(d), r.new, r.old, c2, e.root)
  BY <1>1
<1>3. Fresh(c, r)
  <2>1. Present(d) = DOMAIN c BY DEF Keeps, Links, Present
  <2>2. r.new \notin DOMAIN c BY <1>2, <2>1 DEF Inserts
  <2> QED BY <2>2 DEF Fresh, Numbered
<1> HIDE DEF e
<1>4. CASE UnorphansRoot(d, r) BY <1>2, <1>3, <1>4, InsertUnorphansRoot
<1>5. CASE ~UnorphansRoot(d, r) /\ IsRoot(d, r)
  BY <1>2, <1>3, <1>5, InsertMakesRoot
<1>6. CASE ~UnorphansRoot(d, r) /\ ~IsRoot(d, r) /\ ~ErasesRoot(d, r)
  BY <1>2, <1>3, <1>6, InsertAdds
<1>7. CASE ~UnorphansRoot(d, r) /\ ~IsRoot(d, r) /\ ErasesRoot(d, r)
  BY <1>2, <1>3, <1>7, InsertReplacesRoot
<1> QED BY <1>4, <1>5, <1>6, <1>7 DEF e

-----------------------------------------------------------------------------
(* The stem of a branch.                                                   *)

Further(s, k) == {s[j] : j \in {i \in 1 .. Len(s) : i >= k}}
LEMMA ChainSuffix ==
  ASSUME NEW c, Lineage(c), NEW v, NEW s, IsChain(s, c, v), NEW k \in 1 .. Len(s)
  PROVE  TheForest!Above(c, s[k]) = Further(s, k)
<1>0. s \in Seq(DOMAIN c) /\ Len(s) \in Nat \ {0} BY DEF IsChain
<1> DEFINE n == Len(s) - k + 1
           t == [j \in 1 .. n |-> s[j + k - 1]]
<1>1. n \in Nat /\ n >= 1 /\ \A j \in 1 .. n : j + k - 1 \in 1 .. Len(s)
  BY <1>0
<1>2. \A j \in 1 .. n : s[j + k - 1] \in DOMAIN c BY <1>0, <1>1
<1>3. t \in Seq(DOMAIN c) /\ Len(t) = n /\ \A j \in 1 .. n : t[j] = s[j + k - 1]
  <2>1. \A j \in 1 .. n : t[j] \in DOMAIN c BY <1>2
  <2> HIDE DEF n
  <2>2. t \in [1 .. n -> DOMAIN c] BY <1>2
  <2>3. t \in Seq(DOMAIN c)
    <3> HIDE DEF t
    <3> QED BY <2>2, <1>1
  <2>4. DOMAIN t = 1 .. n OBVIOUS
  <2>5. \A j \in 1 .. n : t[j] = s[j + k - 1] OBVIOUS
  <2> HIDE DEF t
  <2>6. Len(t) \in Nat /\ 1 .. n = 1 .. Len(t) BY <2>3, <2>4
  <2>7. Len(t) = n BY <2>6, <1>1
  <2> QED BY <2>3, <2>5, <2>7
<1>4. t[1] = s[k] /\ t[n] = s[Len(s)]
  <2> HIDE DEF t
  <2>1. t[1] = s[1 + k - 1] /\ t[n] = s[n + k - 1] BY <1>1, <1>3
  <2>2. 1 + k - 1 = k /\ n + k - 1 = Len(s) BY <1>0
  <2> QED BY <2>1, <2>2
<1> HIDE DEF t
<1>5. ASSUME NEW j \in 1 .. Len(t) - 1 PROVE t[j + 1] = c[t[j]]
  <2>1. j \in 1 .. n /\ j + 1 \in 1 .. n /\ j + k - 1 \in 1 .. Len(s) - 1
    BY <1>0, <1>1, <1>3
  <2>2. t[j] = s[j + k - 1] /\ t[j + 1] = s[(j + 1) + k - 1] BY <2>1, <1>3
  <2>3. s[(j + k - 1) + 1] = c[s[j + k - 1]] BY <2>1 DEF IsChain
  <2>4. (j + k - 1) + 1 = (j + 1) + k - 1 BY <2>1
  <2> QED BY <2>2, <2>3, <2>4
<1>6. IsChain(t, c, s[k]) BY <1>0, <1>1, <1>3, <1>4, <1>5 DEF IsChain
<1>7. s[k] \in DOMAIN c BY <1>0
<1>8. t = Chain(c, s[k]) BY <1>6, <1>7, ChainExists, ChainUnique
<1>9. TheForest!Above(c, s[k]) = Range(t) BY <1>7, <1>8, AboveIsChain
<1>10. Range(t) = {t[j] : j \in 1 .. n} BY <1>1, <1>3 DEF Range
<1>11. ASSUME NEW w, w \in Range(t) PROVE w \in Further(s, k)
  <2>1. PICK j \in 1 .. n : w = t[j] BY <1>10, <1>11
  <2>2. w = s[j + k - 1] /\ j + k - 1 \in 1 .. Len(s) /\ j + k - 1 >= k
    BY <2>1, <1>1, <1>3
  <2> QED BY <2>2 DEF Further
<1>12. ASSUME NEW j \in 1 .. Len(s), j >= k
       PROVE  s[j] \in Range(t)
  <2>1. j - k + 1 \in 1 .. n /\ (j - k + 1) + k - 1 = j BY <1>0, <1>12
  <2>2. t[j - k + 1] = s[j] BY <2>1, <1>3
  <2> QED BY <2>1, <2>2, <1>10
<1>13. Further(s, k) \subseteq Range(t) BY <1>12 DEF Further
<1> QED BY <1>9, <1>11, <1>13

\* The places of a chain s that the stem of its first version reaches.
Reaches(c, s, i) == \A k \in 2 .. i : Cardinality(Kids(c, s[k])) = 1
StemOf(c, tip) ==
  LET s == Chain(c, tip) IN {s[i] : i \in {j \in DOMAIN s : Reaches(c, s, j)}}

\* What DeleteBranchUntilFork computes.
LEMMA StemIsRead ==
  ASSUME NEW d, NEW c, Keeps(d, c), NEW tip \in DOMAIN c
  PROVE  /\ Stem(d, tip) = StemOf(c, tip)
         /\ TopOf(d, tip) = Chain(c, tip)[Len(Chain(c, tip))]
<1> DEFINE s == Chain(c, tip)
<1>0. Lineage(c) /\ Links(d, c) BY DEF Keeps
<1>1. Upwards(d, tip) = s BY <1>0, UpwardsIsChain
<1>2. IsChain(s, c, tip) BY <1>0, ChainExists
<1> HIDE DEF s
<1>3. s \in Seq(DOMAIN c) /\ Len(s) \in Nat /\ DOMAIN s = 1 .. Len(s)
  BY <1>2 DEF IsChain
<1>4. ASSUME NEW j \in DOMAIN s
      PROVE  (\A k \in 2 .. j : Cardinality(d.children[s[k]]) = 1)
               <=> Reaches(c, s, j)
  <2>1. \A k \in 2 .. j : s[k] \in DOMAIN c BY <1>3
  <2>2. \A v \in DOMAIN c : d.children[v] = Kids(c, v) BY <1>0 DEF Links
  <2>3. \A k \in 2 .. j : d.children[s[k]] = Kids(c, s[k]) BY <2>1, <2>2
  <2> QED BY <2>3 DEF Reaches
<1>5. Stem(d, tip) = {s[i] : i \in {j \in DOMAIN s :
                        \A k \in 2 .. j : Cardinality(d.children[s[k]]) = 1}}
  BY <1>1 DEF Stem
<1>6. Stem(d, tip) = {s[i] : i \in {j \in DOMAIN s : Reaches(c, s, j)}}
  BY <1>4, <1>5
<1>7. TopOf(d, tip) = s[Len(s)] BY <1>1 DEF TopOf
<1> QED BY <1>6, <1>7 DEF StemOf, s

\* What VersionForest says of it.
LEMMA StemIsTheForests ==
  ASSUME NEW c, Lineage(c), NEW tip \in DOMAIN c
  PROVE  TheForest!Stem(c, tip) = StemOf(c, tip)
<1> DEFINE s == Chain(c, tip)
<1>1. IsChain(s, c, tip) BY ChainExists
<1>2. TheForest!Above(c, tip) = Range(s) BY AboveIsChain
<1>3. StemOf(c, tip) = {s[i] : i \in {j \in DOMAIN s : Reaches(c, s, j)}}
  BY DEF StemOf
<1> HIDE DEF s
<1>4. s \in Seq(DOMAIN c) /\ Len(s) \in Nat \ {0} /\ DOMAIN s = 1 .. Len(s)
        /\ s[1] = tip
  BY <1>1 DEF IsChain
<1>5. \A v : v \in Range(s) <=> \E i \in 1 .. Len(s) : v = s[i]
  BY <1>4 DEF Range
<1>6. ASSUME NEW i \in 1 .. Len(s), NEW k \in 1 .. Len(s)
      PROVE  s[i] \in TheForest!Above(c, s[k]) <=> i >= k
  <2>0. TheForest!Above(c, s[k]) = Further(s, k) BY <1>1, ChainSuffix
  <2>1. s[i] \in TheForest!Above(c, s[k]) <=>
          \E j \in 1 .. Len(s) : j >= k /\ s[i] = s[j]
    BY <2>0 DEF Further
  <2>2. \A j \in 1 .. Len(s) : s[i] = s[j] => i = j BY <1>1, ChainVisitsOnce
  <2> QED BY <2>1, <2>2
<1>7. \A k \in 1 .. Len(s) : s[k] = tip <=> k = 1
  <2>1. 1 \in 1 .. Len(s) /\ s[1] = tip BY <1>4
  <2>2. \A k \in 1 .. Len(s) : s[k] = s[1] => k = 1
    BY <2>1, <1>1, ChainVisitsOnce
  <2> QED BY <2>1, <2>2
<1>8. ASSUME NEW i \in 1 .. Len(s)
      PROVE  (\A w \in Range(s) \ {tip} :
                s[i] \in TheForest!Above(c, w) => Cardinality(Kids(c, w)) = 1)
               <=> Reaches(c, s, i)
  <2>1. ASSUME NEW w \in Range(s) \ {tip}, s[i] \in TheForest!Above(c, w),
               Reaches(c, s, i)
        PROVE  Cardinality(Kids(c, w)) = 1
    <3>1. PICK k \in 1 .. Len(s) : w = s[k] BY <1>5
    <3>2. k \in 2 .. i BY <3>1, <2>1, <1>4, <1>6, <1>7
    <3> QED BY <3>1, <3>2, <2>1 DEF Reaches
  <2>2. ASSUME NEW k \in 2 .. i,
               \A w \in Range(s) \ {tip} :
                 s[i] \in TheForest!Above(c, w) => Cardinality(Kids(c, w)) = 1
        PROVE  Cardinality(Kids(c, s[k])) = 1
    <3>1. k \in 1 .. Len(s) /\ k # 1 /\ i >= k BY <1>4
    <3>2. s[k] \in Range(s) \ {tip} BY <3>1, <1>5, <1>7
    <3>3. s[i] \in TheForest!Above(c, s[k]) BY <3>1, <1>6
    <3> QED BY <3>2, <3>3, <2>2
  <2> QED BY <2>1, <2>2 DEF Reaches
<1>9. \A w : TheForest!Kids(c, w) = Kids(c, w) BY DEF TheForest!Kids, Kids
<1>10. TheForest!Stem(c, tip) =
         {v \in Range(s) : \A w \in Range(s) \ {tip} :
            v \in TheForest!Above(c, w) => Cardinality(Kids(c, w)) = 1}
  <2> DEFINE A == TheForest!Above(c, tip)
  <2>1. TheForest!Stem(c, tip) =
          {v \in A : \A w \in A \ {tip} :
             v \in TheForest!Above(c, w) => Cardinality(TheForest!Kids(c, w)) = 1}
    BY DEF TheForest!Stem, TheForest!Cardinality, Cardinality
  <2>2. A = Range(s) BY <1>2
  <2> HIDE DEF A
  <2> QED BY <2>1, <2>2, <1>9
<1>11. \A v : v \in TheForest!Stem(c, tip) <=> v \in StemOf(c, tip)
  <2>1. ASSUME NEW v \in TheForest!Stem(c, tip) PROVE v \in StemOf(c, tip)
    <3>1. PICK i \in 1 .. Len(s) : v = s[i] BY <1>5, <1>10
    <3>2. Reaches(c, s, i) BY <3>1, <1>8, <1>10
    <3> QED BY <3>1, <3>2, <1>3, <1>4
  <2>2. ASSUME NEW v \in StemOf(c, tip) PROVE v \in TheForest!Stem(c, tip)
    <3>1. PICK i \in 1 .. Len(s) : v = s[i] /\ Reaches(c, s, i)
      BY <1>3, <1>4
    <3>2. v \in Range(s) BY <3>1, <1>5
    <3> QED BY <3>1, <3>2, <1>8, <1>10
  <2> QED BY <2>1, <2>2
<1> QED BY <1>11

\* What is erased with a tip hangs together: S is closed under children, what it
\* is cut from keeps another child, and nothing else in it is a tip or a top.
IsStem(c, tip, S, front) ==
  /\ S \subseteq DOMAIN c /\ tip \in S
  /\ front \in DOMAIN c /\ c[front] \notin DOMAIN c
  /\ \A v \in S : Kids(c, v) \subseteq S
  /\ \A v \in S : Kids(c, v) = {} => v = tip
  /\ \A v \in S : c[v] \notin DOMAIN c => v = front
  /\ \A v \in DOMAIN c \ S : Kids(c, v) \cap S # {} => Kids(c, v) \ S # {}
  /\ front \in S <=> \A v \in DOMAIN c \ S : Kids(c, v) \cap S = {}

LEMMA StemIsStem ==
  ASSUME NEW c, Lineage(c), NEW tip \in DOMAIN c, Kids(c, tip) = {}
  PROVE  IsStem(c, tip, StemOf(c, tip), Chain(c, tip)[Len(Chain(c, tip))])
<1> DEFINE s == Chain(c, tip)
           S == StemOf(c, tip)
           last == Len(s)
<1>1. IsChain(s, c, tip) BY ChainExists
<1>2. S = {s[i] : i \in {j \in DOMAIN s : Reaches(c, s, j)}} BY DEF StemOf
<1> HIDE DEF s, S
<1>3. s \in Seq(DOMAIN c) /\ last \in Nat \ {0} /\ DOMAIN s = 1 .. last
        /\ s[1] = tip /\ c[s[last]] \notin DOMAIN c
        /\ \A i \in 1 .. last - 1 : s[i + 1] = c[s[i]]
  BY <1>1 DEF IsChain
<1>4. \A i \in 1 .. last : s[i] \in DOMAIN c BY <1>3
<1>5. \A i \in 1 .. last : i # last =>
         /\ i \in 1 .. last - 1 /\ i + 1 \in 1 .. last
         /\ (i + 1) - 1 = i /\ i + 1 # 1
  <2>1. last \in Nat BY <1>3
  <2> HIDE DEF last
  <2> QED BY <2>1
<1>6. \A i \in 1 .. last : \A j \in 1 .. last : s[i] = s[j] => i = j
  BY <1>1, ChainVisitsOnce
<1>7. \A v : v \in S <=> \E i \in 1 .. last : v = s[i] /\ Reaches(c, s, i)
  BY <1>2, <1>3
<1>8. \A i \in 1 .. last : s[i] \in S <=> Reaches(c, s, i) BY <1>6, <1>7
<1>9. S \subseteq DOMAIN c BY <1>4, <1>7
<1>10. tip \in S
  <2>1. 1 \in 1 .. last /\ Reaches(c, s, 1) BY <1>3 DEF Reaches
  <2> QED BY <2>1, <1>3, <1>7
\* Each version of the chain is a child of the next, and the only one that is
\* in the chain.
<1>11. ASSUME NEW i \in 1 .. last, i # 1
       PROVE  i - 1 \in 1 .. last /\ s[i - 1] \in Kids(c, s[i])
  <2>1. i - 1 \in 1 .. last - 1 /\ (i - 1) + 1 = i BY <1>3, <1>11
  <2>2. s[(i - 1) + 1] = c[s[i - 1]] BY <2>1, <1>3
  <2>3. c[s[i - 1]] = s[i] /\ s[i - 1] \in DOMAIN c BY <2>1, <2>2, <1>3, <1>4
  <2>4. s[i - 1] \in Kids(c, s[i]) BY <2>3 DEF Kids
  <2>5. i - 1 \in 1 .. last BY <2>1, <1>3
  <2> QED BY <2>4, <2>5
<1>12. ASSUME NEW i \in 1 .. last, NEW j \in 1 .. last, s[j] \in Kids(c, s[i])
       PROVE  i = j + 1
  <2>1. c[s[j]] = s[i] /\ s[i] \in DOMAIN c BY ONLY <1>4, <1>12, SMTT(30) DEF Kids
  <2>2. j # last BY <2>1, <1>3
  <2>3. j \in 1 .. last - 1 /\ j + 1 \in 1 .. last BY <2>2, <1>5
  <2>4. s[j + 1] = s[i] BY <2>1, <2>3, <1>3
  <2> QED BY <2>3, <2>4, <1>6
<1>13. \A i \in 1 .. last : i # 1 =>
         (Reaches(c, s, i) <=>
            Reaches(c, s, i - 1) /\ Cardinality(Kids(c, s[i])) = 1)
  <2> SUFFICES ASSUME NEW i \in 1 .. last, i # 1
               PROVE  Reaches(c, s, i) <=>
                        Reaches(c, s, i - 1) /\ Cardinality(Kids(c, s[i])) = 1
    OBVIOUS
  <2>1. \A k : k \in 2 .. i <=> k \in 2 .. (i - 1) \/ k = i BY <1>3
  <2> QED BY <2>1 DEF Reaches
<1>14. \A v \in DOMAIN c : IsFiniteSet(Kids(c, v))
  <2>1. \A v \in DOMAIN c : Kids(c, v) \in SUBSET DOMAIN c BY DEF Kids
  <2> QED BY <2>1, FS_Subset DEF Lineage
<1>15. ASSUME NEW v \in S PROVE Kids(c, v) \subseteq S
  <2>1. PICK i \in 1 .. last : v = s[i] /\ Reaches(c, s, i) BY <1>7
  <2>2. CASE i = 1 BY <2>1, <2>2, <1>3
  <2>3. CASE i # 1
    <3>1. Cardinality(Kids(c, v)) = 1 /\ Reaches(c, s, i - 1)
      BY <2>1, <2>3, <1>13
    <3>2. PICK x : Kids(c, v) = {x}
      BY <3>1, <1>9, <1>14, FS_Singleton
    <3>3. s[i - 1] \in Kids(c, v) /\ i - 1 \in 1 .. last BY <2>1, <2>3, <1>11
    <3>4. s[i - 1] \in S BY <3>1, <3>3, <1>8
    <3> QED BY <3>2, <3>3, <3>4
  <2> QED BY <2>2, <2>3
<1>16. ASSUME NEW v \in S, Kids(c, v) = {} PROVE v = tip
  <2>1. PICK i \in 1 .. last : v = s[i] BY <1>7
  <2> QED BY <2>1, <1>3, <1>11, <1>16
<1>17. ASSUME NEW v \in S, c[v] \notin DOMAIN c PROVE v = s[last]
  <2>1. PICK i \in 1 .. last : v = s[i] BY <1>7
  <2>2. CASE i = last BY <2>1, <2>2
  <2>3. CASE i # last
    <3>1. i \in 1 .. last - 1 /\ i + 1 \in 1 .. last BY <2>3, <1>5
    <3>2. s[i + 1] = c[v] /\ s[i + 1] \in DOMAIN c BY <2>1, <3>1, <1>3, <1>4
    <3> QED BY <3>2, <1>17
  <2> QED BY <2>2, <2>3
\* The version that the stem is cut from.
<1>18. ASSUME NEW v \in DOMAIN c \ S, Kids(c, v) \cap S # {}
       PROVE  \E i \in 1 .. last : i # 1 /\ v = s[i] /\ Reaches(c, s, i - 1)
                                     /\ Cardinality(Kids(c, v)) # 1
  <2>1. PICK w \in S : w \in Kids(c, v) BY <1>18
  <2>2. PICK j \in 1 .. last : w = s[j] /\ Reaches(c, s, j) BY <1>7
  <2>3. c[s[j]] = v BY ONLY <2>1, <2>2, SMTT(30) DEF Kids
  <2>4. j # last BY <2>3, <1>3
  <2>5. j \in 1 .. last - 1 /\ j + 1 \in 1 .. last /\ (j + 1) - 1 = j /\ j + 1 # 1
    BY <2>4, <1>5
  <2>6. v = s[j + 1] BY <2>3, <2>5, <1>3
  <2>7. ~Reaches(c, s, j + 1) BY <2>5, <2>6, <1>8
  <2>8. Cardinality(Kids(c, v)) # 1 BY <2>2, <2>5, <2>6, <2>7, <1>13
  <2> QED BY <2>2, <2>5, <2>6, <2>8
<1>19. ASSUME NEW v \in DOMAIN c \ S, Kids(c, v) \cap S # {}
       PROVE  Kids(c, v) \ S # {}
  <2>1. PICK i \in 1 .. last : i # 1 /\ v = s[i] /\ Cardinality(Kids(c, v)) # 1
    BY <1>18, <1>19
  <2>2. \A w \in Kids(c, v) \cap S : w = s[i - 1]
    <3> TAKE w \in Kids(c, v) \cap S
    <3>1. PICK j \in 1 .. last : w = s[j] BY <1>7
    <3>2. i = j + 1 BY <3>1, <2>1, <1>12
    <3>3. j = i - 1 BY <3>2
    <3> QED BY <3>1, <3>3
  <2>3. ASSUME NEW x, Kids(c, v) = {x} PROVE FALSE
    <3>1. Cardinality({x}) = 1 BY FS_Singleton
    <3> QED BY <2>1, <2>3, <3>1
  <2>4. ASSUME Kids(c, v) \ S = {} PROVE FALSE
    <3>1. Kids(c, v) = {s[i - 1]} BY <2>2, <2>4, <1>19
    <3> QED BY <2>3, <3>1
  <2> QED BY <2>4
<1>20. ASSUME s[last] \in S, NEW v \in DOMAIN c \ S PROVE Kids(c, v) \cap S = {}
  <2> SUFFICES ASSUME Kids(c, v) \cap S # {} PROVE FALSE OBVIOUS
  <2>1. PICK i \in 1 .. last : v = s[i] BY <1>18
  <2>2. last \in 1 .. last /\ Reaches(c, s, last) BY <1>3, <1>8, <1>20
  <2>3. Reaches(c, s, i) BY <2>2, <1>3 DEF Reaches
  <2> QED BY <2>1, <2>3, <1>8
<1>21. ASSUME s[last] \notin S PROVE \E v \in DOMAIN c \ S : Kids(c, v) \cap S # {}
  <2> DEFINE Out == {i \in 1 .. last : s[i] \notin S}
  <2>1. Out \in SUBSET Nat /\ Out # {} BY <1>3, <1>21
  <2>2. PICK i \in Out : \A j \in Out : i <= j
    <3> HIDE DEF Out
    <3> QED BY <2>1, LeastNumber
  <2>3. i \in 1 .. last /\ i # 1 /\ s[i] \notin S BY <1>3, <1>10, <2>2
  <2>4. i - 1 \in 1 .. last /\ s[i - 1] \in Kids(c, s[i]) BY <2>3, <1>11
  <2>5. i - 1 \notin Out BY <2>2, <2>3, <2>4
  <2>6. s[i - 1] \in S BY <2>4, <2>5
  <2>7. s[i] \in DOMAIN c \ S BY <2>3, <1>4
  <2> QED BY <2>4, <2>6, <2>7
<1>22. s[last] \in DOMAIN c /\ c[s[last]] \notin DOMAIN c BY <1>3, <1>4
<1>23. IsStem(c, tip, S, s[last])
  <2> HIDE DEF last
  <2> QED BY <1>9, <1>10, <1>15, <1>16, <1>17, <1>19, <1>20, <1>21, <1>22
          DEF IsStem
<1> QED BY <1>23 DEF s, S

-----------------------------------------------------------------------------
(* DeleteBranchUntilFork.                                                  *)

\* What is left of the forest without the stem.
LEMMA LeftByStem ==
  ASSUME NEW c, Lineage(c), NEW tip, NEW S, NEW front, IsStem(c, tip, S, front)
  PROVE  LET m == Minus(c, S)
         IN  /\ \A v \in DOMAIN m : c[v] \in DOMAIN m <=> c[v] \in DOMAIN c
             /\ TipsOf(m) = TipsOf(c) \ {tip}
<1> DEFINE m == Minus(c, S)
<1>1. /\ Lineage(m) /\ DOMAIN m = DOMAIN c \ S
      /\ \A v \in DOMAIN c \ S : m[v] = c[v]
      /\ \A v : Kids(m, v) = Kids(c, v) \ S
  <2>1. Lineage(c) OBVIOUS
  <2> QED BY ONLY <2>1, MinusLineage, Zenon
<1> HIDE DEF m
<1>2. ASSUME NEW v \in DOMAIN m, c[v] \in DOMAIN c PROVE c[v] \notin S
  <2>1. v \in Kids(c, c[v]) /\ v \notin S BY <1>1 DEF Kids
  <2> QED BY <2>1 DEF IsStem
<1>3. ASSUME NEW v \in TipsOf(m) PROVE v \in TipsOf(c) \ {tip}
  <2>1. v \in DOMAIN c \ S /\ Kids(c, v) \ S = {}
    BY <1>1 DEF TipsOf
  <2>2. Kids(c, v) = {} BY <2>1 DEF IsStem
  <2> QED BY <2>1, <2>2 DEF TipsOf, IsStem
<1>4. ASSUME NEW v \in TipsOf(c) \ {tip} PROVE v \in TipsOf(m)
  <2>1. v \in DOMAIN c /\ Kids(c, v) = {} BY DEF TipsOf
  <2>2. v \notin S BY <2>1 DEF IsStem
  <2>3. Kids(m, v) = Kids(c, v) \ S BY <1>1
  <2> QED BY <2>1, <2>2, <2>3, <1>1 DEF TipsOf
<1> QED BY <1>1, <1>2, <1>3, <1>4 DEF m

\* The children of what the stem is cut from, and the tip, mended.
Fork(d, S) == {v \in Present(d) \ S : d.children[v] \cap S # {}}
Pruned(d, tip, S) ==
  LET freed == Over([v \in Fork(d, S) |-> d.children[v] \ S], d.children)
  IN [d EXCEPT !.tips = @ \ {tip}, !.children = freed]

LEMMA ErasedFields ==
  ASSUME NEW d, IsObject(d), NEW S
  PROVE  LET e == Erased(d, S)
         IN  /\ IsObject(e)
             /\ e.maxVersions = d.maxVersions /\ e.maxBranches = d.maxBranches
             /\ e.parent = Without(d.parent, S)
             /\ e.children = Without(d.children, S)
             /\ e.tips = d.tips
             /\ e.rootParent = d.rootParent /\ e.root = d.root
             /\ e.orphans = d.orphans
BY DEF Erased, IsObject

LEMMA PrunedLinks ==
  ASSUME NEW d, NEW c, Keeps(d, c), NEW tip, NEW S, NEW front,
         IsStem(c, tip, S, front), NEW e,
         e.parent = Without(d.parent, S),
         e.children = Without(Pruned(d, tip, S).children, S),
         e.tips = d.tips \ {tip}
  PROVE  Links(e, Minus(c, S))
<1> DEFINE m == Minus(c, S)
           x == Pruned(d, tip, S)
<1>0. Lineage(c) /\ Links(d, c) /\ IsObject(d) BY DEF Keeps
<1>1. /\ Lineage(m) /\ DOMAIN m = DOMAIN c \ S
      /\ \A v \in DOMAIN c \ S : m[v] = c[v]
      /\ \A v : Kids(m, v) = Kids(c, v) \ S
  <2>1. Lineage(c) BY <1>0
  <2> QED BY ONLY <2>1, MinusLineage, Zenon
<1>2. /\ \A v \in DOMAIN m : c[v] \in DOMAIN m <=> c[v] \in DOMAIN c
      /\ TipsOf(m) = TipsOf(c) \ {tip}
  BY <1>0, LeftByStem
<1>3. x.children = Over([v \in Fork(d, S) |-> d.children[v] \ S], d.children)
  BY <1>0 DEF Pruned, IsObject
<1> HIDE DEF m, x
<1>4. DOMAIN d.parent = DOMAIN c /\ DOMAIN d.children = DOMAIN c
        /\ \A v \in DOMAIN c : d.children[v] = Kids(c, v)
  BY <1>0 DEF Links
<1>5. Fork(d, S) \subseteq DOMAIN c \ S BY <1>4 DEF Fork, Present
<1>6. e.parent = [v \in DOMAIN m |-> d.parent[v]]
  BY <1>1, <1>4, WithoutIsRestricted
<1>7. \A v \in DOMAIN m : IF m[v] \in DOMAIN m THEN e.parent[v] = m[v]
                                              ELSE e.parent[v] \in NoParents
  BY <1>0, <1>1, <1>2, <1>6 DEF Links
<1>8. DOMAIN x.children = DOMAIN c
        /\ \A v \in DOMAIN m : x.children[v] = Kids(m, v)
  <2>1. DOMAIN x.children = DOMAIN c BY <1>3, <1>4, <1>5 DEF Over
  <2>2. ASSUME NEW v \in DOMAIN m PROVE x.children[v] = Kids(m, v)
    <3>1. x.children[v] = IF v \in Fork(d, S) THEN d.children[v] \ S
                                             ELSE d.children[v]
      BY <2>2, <1>1, <1>3, <1>4 DEF Over
    <3>2. d.children[v] = Kids(c, v) /\ v \in Present(d) \ S
      BY <2>2, <1>1, <1>4 DEF Present
    <3>3. Kids(m, v) = Kids(c, v) \ S BY <1>1
    <3>4. v \notin Fork(d, S) => Kids(c, v) \cap S = {} BY <3>2 DEF Fork
    <3> QED BY <3>1, <3>2, <3>3, <3>4
  <2> QED BY <2>1, <2>2
<1>9. e.children = [v \in DOMAIN m |-> x.children[v]]
  BY <1>1, <1>8, WithoutIsRestricted DEF x
<1>10. e.children = [v \in DOMAIN m |-> Kids(m, v)] BY <1>8, <1>9
<1>11. e.tips = {v \in DOMAIN m : Kids(m, v) = {}}
  BY <1>0, <1>2 DEF Links, TipsOf
<1>12. e.parent = [v \in DOMAIN m |-> e.parent[v]] BY <1>6
<1>13. Links(e, m) BY <1>7, <1>10, <1>11, <1>12 DEF Links
<1> QED BY <1>13 DEF m

\* The root and the orphans of what is left.
LEMMA KeepsLeft ==
  ASSUME NEW d, NEW c, Keeps(d, c), NEW tip, NEW S, NEW front,
         IsStem(c, tip, S, front),
         NEW e, IsObject(e), Links(e, Minus(c, S)),
         e.root \in DOMAIN c \ S, c[e.root] \notin DOMAIN c,
         e.root = d.root \/ d.root \in S,
         e.rootParent = c[e.root],
         e.orphans = Grouped(c, Waiting(c, e.root) \ S)
  PROVE  Keeps(e, Minus(c, S))
<1> DEFINE m == Minus(c, S)
           root == e.root
<1>0. Lineage(c) /\ Rooted(c, d.root) BY DEF Keeps
<1>1. /\ Lineage(m) /\ DOMAIN m = DOMAIN c \ S
      /\ \A v \in DOMAIN c \ S : m[v] = c[v]
      /\ \A v : Kids(m, v) = Kids(c, v) \ S
  <2>1. Lineage(c) BY <1>0
  <2> QED BY ONLY <2>1, MinusLineage, Zenon
<1>2. \A v \in DOMAIN m : c[v] \in DOMAIN m <=> c[v] \in DOMAIN c
  BY <1>0, LeftByStem
<1> HIDE DEF m
<1>3. Waiting(m, root) = Waiting(c, root) \ S BY <1>1, <1>2 DEF Waiting
<1>4. e.orphans = Grouped(m, Waiting(m, root))
  <2>1. \A v \in Waiting(m, root) : c[v] = m[v] BY <1>1 DEF Waiting
  <2>2. Grouped(c, Waiting(m, root)) = Grouped(m, Waiting(m, root))
    BY <2>1, GroupedAlike
  <2> QED BY <2>2, <1>3
<1>5. Rooted(m, root)
  <2>1. root \in DOMAIN m /\ m[root] \notin DOMAIN m /\ root # NoVersion
    BY <1>0, <1>1, <1>2 DEF Lineage
  <2>2. ASSUME NEW v \in DOMAIN m, m[v] = NoVersion PROVE v = root
    <3>1. v \in DOMAIN c \ S /\ c[v] = NoVersion BY <2>2, <1>1
    <3>2. v = d.root BY <3>1, <1>0 DEF Rooted
    <3> QED BY <3>1, <3>2
  <2> QED BY <2>1, <2>2 DEF Rooted
<1>6. root \in DOMAIN m /\ e.rootParent = m[root] BY <1>1
<1>7. Links(e, m) BY DEF m
<1>8. Keeps(e, m) BY <1>1, <1>4, <1>5, <1>6, <1>7, KeepsAnew
<1> QED BY <1>8 DEF m

\* A version is left at the fork: nothing but the branch goes.
LEMMA DeleteToFork ==
  ASSUME NEW d, NEW c, Keeps(d, c), NEW tip, NEW S, NEW front,
         IsStem(c, tip, S, front), front \notin S
  PROVE  LET e == Erased(Pruned(d, tip, S), S)
         IN  /\ Keeps(e, Minus(c, S)) /\ SameLimits(e, d)
             /\ e.root = d.root /\ d.root \notin S
<1> DEFINE x == Pruned(d, tip, S)
           e == Erased(x, S)
           root == d.root
<1>0. Lineage(c) /\ Rooted(c, root) /\ IsObject(d)
        /\ root \in DOMAIN c /\ c[root] \notin DOMAIN c
        /\ d.rootParent = c[root] /\ d.orphans = Grouped(c, Waiting(c, root))
  BY DEF Keeps, Rooted, IsStem
<1>1. /\ IsObject(x) /\ x.maxVersions = d.maxVersions
      /\ x.maxBranches = d.maxBranches /\ x.parent = d.parent
      /\ x.tips = d.tips \ {tip} /\ x.rootParent = d.rootParent
      /\ x.root = root /\ x.orphans = d.orphans
  BY <1>0 DEF Pruned, IsObject
<1>2. /\ IsObject(e) /\ e.maxVersions = d.maxVersions
      /\ e.maxBranches = d.maxBranches /\ e.parent = Without(d.parent, S)
      /\ e.children = Without(x.children, S)
      /\ e.tips = d.tips \ {tip} /\ e.rootParent = d.rootParent
      /\ e.root = root /\ e.orphans = d.orphans
  <2> HIDE DEF x
  <2>1. /\ IsObject(e)
        /\ e.maxVersions = x.maxVersions /\ e.maxBranches = x.maxBranches
        /\ e.parent = Without(x.parent, S)
        /\ e.children = Without(x.children, S)
        /\ e.tips = x.tips
        /\ e.rootParent = x.rootParent /\ e.root = x.root
        /\ e.orphans = x.orphans
    BY <1>1, ErasedFields
  <2> QED BY <1>1, <2>1
<1> HIDE DEF e
<1>3. Links(e, Minus(c, S)) BY <1>2, PrunedLinks
<1>4. root \notin S /\ Waiting(c, root) \ S = Waiting(c, root)
  BY <1>0 DEF IsStem, Waiting
<1>5. Keeps(e, Minus(c, S)) BY <1>0, <1>2, <1>3, <1>4, KeepsLeft
<1> QED BY <1>2, <1>4, <1>5 DEF e, SameLimits

\* An orphan's tree goes.
LEMMA DeleteOrphan ==
  ASSUME NEW d, NEW c, Keeps(d, c), NEW tip, NEW S, NEW front,
         IsStem(c, tip, S, front), front \in S, front # d.root
  PROVE  LET e == Erased(EraseFrontOfBranch(Pruned(d, tip, S), front), S)
         IN  /\ Keeps(e, Minus(c, S)) /\ SameLimits(e, d)
             /\ e.root = d.root /\ d.root \notin S
<1> DEFINE x == Pruned(d, tip, S)
           f == EraseFrontOfBranch(x, front)
           e == Erased(f, S)
           root == d.root
           W == Waiting(c, root)
<1>0. Lineage(c) /\ Rooted(c, root) /\ IsObject(d)
        /\ root \in DOMAIN c /\ c[root] \notin DOMAIN c
        /\ d.rootParent = c[root] /\ d.orphans = Grouped(c, W)
  BY DEF Keeps, Rooted, IsStem
<1>1. /\ IsObject(x) /\ x.maxVersions = d.maxVersions
      /\ x.maxBranches = d.maxBranches /\ x.parent = d.parent
      /\ x.tips = d.tips \ {tip} /\ x.rootParent = d.rootParent
      /\ x.root = root /\ x.orphans = d.orphans
  BY <1>0 DEF Pruned, IsObject
<1>2. front \in W BY DEF IsStem, Waiting
<1>3. OrphanKey(x, front) = c[front]
  <2> HIDE DEF x, W
  <2>1. x.orphans = Grouped(c, W) BY <1>0, <1>1
  <2> QED BY <2>1, <1>2, OrphanKeyIsClaim
<1>4. WithoutOrphan(x.orphans, OrphanKey(x, front), front)
        = Grouped(c, W \ {front})
  <2> HIDE DEF x, W
  <2>1. x.orphans = Grouped(c, W) BY <1>0, <1>1
  <2>2. WithoutOrphan(Grouped(c, W), c[front], front) = Grouped(c, W \ {front})
    BY <1>2, GroupedWithoutOrphan
  <2> QED BY <2>1, <2>2, <1>3
<1>5. f = [x EXCEPT !.orphans = WithoutOrphan(@, OrphanKey(x, front), front)]
  <2> HIDE DEF x
  <2> QED BY <1>1 DEF EraseFrontOfBranch
<1>6. /\ IsObject(f) /\ f.maxVersions = x.maxVersions
      /\ f.maxBranches = x.maxBranches /\ f.parent = x.parent
      /\ f.children = x.children
      /\ f.tips = x.tips /\ f.rootParent = x.rootParent
      /\ f.root = x.root
      /\ f.orphans = WithoutOrphan(x.orphans, OrphanKey(x, front), front)
  <2> HIDE DEF x, f
  <2> QED BY <1>1, <1>5 DEF IsObject
<1>7. /\ IsObject(e) /\ e.maxVersions = d.maxVersions
      /\ e.maxBranches = d.maxBranches /\ e.parent = Without(d.parent, S)
      /\ e.children = Without(x.children, S)
      /\ e.tips = d.tips \ {tip} /\ e.rootParent = d.rootParent
      /\ e.root = root /\ e.orphans = Grouped(c, W \ {front})
  <2> HIDE DEF x, f, W
  <2>1. /\ IsObject(e)
        /\ e.maxVersions = f.maxVersions /\ e.maxBranches = f.maxBranches
        /\ e.parent = Without(f.parent, S)
        /\ e.children = Without(f.children, S)
        /\ e.tips = f.tips
        /\ e.rootParent = f.rootParent /\ e.root = f.root
        /\ e.orphans = f.orphans
    BY <1>6, ErasedFields
  <2> HIDE DEF e
  <2> QED BY <1>1, <1>4, <1>6, <2>1
<1> HIDE DEF e
<1>8. Links(e, Minus(c, S)) BY <1>7, PrunedLinks
<1>9. root \notin S /\ W \ S = W \ {front}
  BY <1>0 DEF IsStem, Waiting
<1>10. e.orphans = Grouped(c, Waiting(c, e.root) \ S) BY <1>7, <1>9
<1>11. Keeps(e, Minus(c, S)) BY <1>0, <1>7, <1>8, <1>9, <1>10, KeepsLeft
<1> QED BY <1>7, <1>9, <1>11 DEF e, SameLimits

\* The root's tree goes: the first orphan takes its place.
LEMMA DeleteRootForOrphan ==
  ASSUME NEW d, NEW c, Keeps(d, c), NEW tip, NEW S, NEW front,
         IsStem(c, tip, S, front), front \in S, front = d.root,
         Waiting(c, d.root) # {}
  PROVE  LET e == Erased(EraseFrontOfBranch(Pruned(d, tip, S), front), S)
         IN  /\ Keeps(e, Minus(c, S)) /\ SameLimits(e, d)
             /\ e.root \in DOMAIN c \ S /\ c[e.root] \notin DOMAIN c
<1> DEFINE x == Pruned(d, tip, S)
           f == EraseFrontOfBranch(x, front)
           e == Erased(f, S)
           root == d.root
           W == Waiting(c, root)
           key == Least(DOMAIN x.orphans)
           orphan == Least(x.orphans[key])
<1>0. Lineage(c) /\ Rooted(c, root) /\ IsObject(d)
        /\ root \in DOMAIN c /\ c[root] \notin DOMAIN c
        /\ d.rootParent = c[root] /\ d.orphans = Grouped(c, W)
  BY DEF Keeps, Rooted, IsStem
<1>1. /\ IsObject(x) /\ x.maxVersions = d.maxVersions
      /\ x.maxBranches = d.maxBranches /\ x.parent = d.parent
      /\ x.tips = d.tips \ {tip} /\ x.rootParent = d.rootParent
      /\ x.root = root /\ x.orphans = d.orphans
  BY <1>0 DEF Pruned, IsObject
<1>2. W \in SUBSET DOMAIN c /\ W \in SUBSET Names /\ W # {}
        /\ \A v \in W : c[v] \in Names
  BY <1>0 DEF Waiting, Lineage, Rooted
<1> HIDE DEF x
<1>3. x.orphans = Grouped(c, W) BY <1>0, <1>1
<1>4. orphan \in W /\ c[orphan] = key
  <2> HIDE DEF W
  <2> QED BY <1>2, <1>3, GroupedLeast
<1>5. f = ReplaceRootFromOrphans(x)
  <2>1. x.orphans # EmptyFunction
    <3> HIDE DEF W
    <3> QED BY <1>2, <1>3, GroupedEmpty
  <2> QED BY <1>1, <2>1 DEF EraseFrontOfBranch
<1> HIDE DEF key, orphan
<1>6. /\ IsObject(f)
      /\ f.maxVersions = x.maxVersions /\ f.maxBranches = x.maxBranches
      /\ f.parent = Without(x.parent, {x.root})
      /\ f.children = Without(x.children, {x.root})
      /\ f.tips = x.tips
      /\ f.rootParent = key /\ f.root = orphan
      /\ f.orphans = WithoutOrphan(x.orphans, key, orphan)
  <2> DEFINE g == ReplaceRootFromOrphans(x)
  <2>0. IsObject(x) /\ key = Least(DOMAIN x.orphans) /\ orphan = Least(x.orphans[key])
    BY <1>1 DEF key, orphan
  <2> HIDE DEF f, W
  <2>1. /\ IsObject(g)
        /\ g.maxVersions = x.maxVersions /\ g.maxBranches = x.maxBranches
        /\ g.parent = Without(x.parent, {x.root})
        /\ g.children = Without(x.children, {x.root})
        /\ g.tips = x.tips
        /\ g.rootParent = key /\ g.root = orphan
        /\ g.orphans = WithoutOrphan(x.orphans, key, orphan)
    BY <2>0, FromOrphansFields
  <2> HIDE DEF g, f
  <2> QED BY <2>1, <1>5 DEF g
<1>7. f.orphans = Grouped(c, W \ {orphan})
  <2> HIDE DEF W, f
  <2>1. WithoutOrphan(Grouped(c, W), c[orphan], orphan) = Grouped(c, W \ {orphan})
    BY <1>4, GroupedWithoutOrphan
  <2> QED BY <2>1, <1>3, <1>4, <1>6
<1> HIDE DEF f
<1>8. \A h : Without(Without(h, {root}), S) = Without(h, S)
  <2> TAKE h
  <2>0. root \in S OBVIOUS
  <2>1. Without(h, {root}) = [v \in DOMAIN h \ {root} |-> h[v]]
    BY WithoutIsRestricted
  <2> DEFINE k == Without(h, {root})
  <2>2. Without(k, S) = [v \in DOMAIN k \ S |-> k[v]] BY WithoutIsRestricted
  <2>3. Without(h, S) = [v \in DOMAIN h \ S |-> h[v]] BY WithoutIsRestricted
  <2>4. DOMAIN k \ S = DOMAIN h \ S /\ \A v \in DOMAIN h \ S : k[v] = h[v]
    BY <2>0, <2>1
  <2> HIDE DEF k, root
  <2>5. Without(k, S) = Without(h, S) BY <2>2, <2>3, <2>4
  <2> QED BY <2>5 DEF k
<1>9. /\ IsObject(e) /\ e.maxVersions = d.maxVersions
      /\ e.maxBranches = d.maxBranches /\ e.parent = Without(d.parent, S)
      /\ e.children = Without(x.children, S)
      /\ e.tips = d.tips \ {tip} /\ e.rootParent = key
      /\ e.root = orphan /\ e.orphans = Grouped(c, W \ {orphan})
  <2> HIDE DEF W
  <2>1. /\ IsObject(e)
        /\ e.maxVersions = f.maxVersions /\ e.maxBranches = f.maxBranches
        /\ e.parent = Without(f.parent, S)
        /\ e.children = Without(f.children, S)
        /\ e.tips = f.tips
        /\ e.rootParent = f.rootParent /\ e.root = f.root
        /\ e.orphans = f.orphans
    BY <1>6, ErasedFields
  <2>2. Without(f.parent, S) = Without(x.parent, S)
          /\ Without(f.children, S) = Without(x.children, S)
    BY <1>1, <1>6, <1>8
  <2> HIDE DEF e
  <2> QED BY <1>1, <1>6, <1>7, <2>1, <2>2
<1> HIDE DEF e
<1>10. Links(e, Minus(c, S))
  <2>1. e.children = Without(Pruned(d, tip, S).children, S) BY <1>9 DEF x
  <2> QED BY <1>9, <2>1, PrunedLinks
<1>11. orphan \in DOMAIN c \ S /\ c[orphan] \notin DOMAIN c
         /\ Waiting(c, orphan) \ S = W \ {orphan}
  BY <1>0, <1>4 DEF IsStem, Waiting
<1>12. root \in S /\ e.root \in DOMAIN c \ S /\ c[e.root] \notin DOMAIN c
         /\ e.rootParent = c[e.root]
         /\ e.orphans = Grouped(c, Waiting(c, e.root) \ S)
  BY <1>4, <1>9, <1>11
<1>13. Keeps(e, Minus(c, S)) BY <1>9, <1>10, <1>12, KeepsLeft
<1> QED BY <1>9, <1>12, <1>13 DEF e, f, x, SameLimits

\* Nothing is left.
LEMMA DeleteLast ==
  ASSUME NEW d, NEW c, Keeps(d, c), NEW tip, NEW S, NEW front,
         IsStem(c, tip, S, front), front \in S, front = d.root,
         Waiting(c, d.root) = {}
  PROVE  LET e == Erased(EraseFrontOfBranch(Pruned(d, tip, S), front), S)
         IN  /\ Keeps(e, Minus(c, S)) /\ SameLimits(e, d)
             /\ e.root = NoVersion /\ DOMAIN Minus(c, S) = {}
<1> DEFINE x == Pruned(d, tip, S)
           f == EraseFrontOfBranch(x, front)
           e == Erased(f, S)
           root == d.root
           m == Minus(c, S)
<1>0. Lineage(c) /\ Rooted(c, root) /\ IsObject(d)
        /\ root \in DOMAIN c /\ c[root] \notin DOMAIN c
        /\ d.orphans = Grouped(c, Waiting(c, root))
  BY DEF Keeps, Rooted, IsStem
<1>1. /\ IsObject(x) /\ x.maxVersions = d.maxVersions
      /\ x.maxBranches = d.maxBranches /\ x.parent = d.parent
      /\ x.tips = d.tips \ {tip} /\ x.rootParent = d.rootParent
      /\ x.root = root /\ x.orphans = d.orphans
  BY <1>0 DEF Pruned, IsObject
<1> HIDE DEF x
<1>2. x.orphans = EmptyFunction BY <1>0, <1>1, GroupedEmpty
<1>3. f = [x EXCEPT !.rootParent = NoVersion, !.root = NoVersion]
  BY <1>1, <1>2 DEF EraseFrontOfBranch
<1>4. /\ IsObject(f) /\ f.maxVersions = x.maxVersions
      /\ f.maxBranches = x.maxBranches /\ f.parent = x.parent
      /\ f.children = x.children
      /\ f.tips = x.tips /\ f.rootParent = NoVersion
      /\ f.root = NoVersion /\ f.orphans = EmptyFunction
  <2> HIDE DEF f
  <2> QED BY <1>1, <1>2, <1>3 DEF IsObject
<1> HIDE DEF f
<1>5. /\ IsObject(e) /\ e.maxVersions = d.maxVersions
      /\ e.maxBranches = d.maxBranches /\ e.parent = Without(d.parent, S)
      /\ e.children = Without(x.children, S)
      /\ e.tips = d.tips \ {tip} /\ e.rootParent = NoVersion
      /\ e.root = NoVersion /\ e.orphans = EmptyFunction
  <2>1. /\ IsObject(e)
        /\ e.maxVersions = f.maxVersions /\ e.maxBranches = f.maxBranches
        /\ e.parent = Without(f.parent, S)
        /\ e.children = Without(f.children, S)
        /\ e.tips = f.tips
        /\ e.rootParent = f.rootParent /\ e.root = f.root
        /\ e.orphans = f.orphans
    BY <1>4, ErasedFields
  <2> HIDE DEF e
  <2> QED BY <1>1, <1>4, <2>1
<1> HIDE DEF e
<1>6. Links(e, m)
  <2>1. e.children = Without(Pruned(d, tip, S).children, S) BY <1>5 DEF x
  <2> QED BY <1>5, <2>1, PrunedLinks
<1>7. Lineage(m) /\ DOMAIN m = DOMAIN c \ S
  BY <1>0, MinusLineage
<1>8. \A v \in DOMAIN m : c[v] \in DOMAIN m <=> c[v] \in DOMAIN c
  BY <1>0, LeftByStem
<1> HIDE DEF m
<1>9. DOMAIN m = {}
  <2> SUFFICES ASSUME DOMAIN m # {} PROVE FALSE OBVIOUS
  <2>1. DOMAIN m \in SUBSET Names BY <1>7 DEF Lineage
  <2>2. PICK v \in DOMAIN m : \A w \in DOMAIN m : v.index <= w.index
    <3> DEFINE D == DOMAIN m
    <3>1. D \in SUBSET Names /\ D # {} BY <2>1
    <3> HIDE DEF D
    <3>2. \E v \in D : \A w \in D : v.index <= w.index BY <3>1, LowestVersion
    <3> QED BY <3>2 DEF D
  <2>3. v \in DOMAIN c \ S /\ v # root BY <1>7
  <2>4. c[v] \in DOMAIN c BY <2>3 DEF Waiting
  <2>5. c[v] \in DOMAIN m BY <2>4, <1>8
  <2>6. v.index <= c[v].index BY <2>2, <2>5
  <2>7. c[v].index < v.index /\ c[v] \in Names /\ v \in Names
    BY <2>3, <2>4, <1>0 DEF Lineage
  <2>8. v.index \in Nat /\ c[v].index \in Nat BY <2>7
  <2> QED BY <2>6, <2>7, <2>8
<1>10. e.orphans = Grouped(m, Waiting(m, NoVersion))
  <2>1. Waiting(m, NoVersion) = {} BY <1>9 DEF Waiting
  <2> QED BY <2>1, <1>5, GroupedEmpty
<1>11. Rooted(m, NoVersion) BY <1>9 DEF Rooted
<1>12. Keeps(e, m) BY <1>5, <1>6, <1>7, <1>10, <1>11 DEF Keeps
<1> QED BY <1>5, <1>9, <1>12 DEF e, f, x, m, SameLimits

\* VersionForest's DeleteBranch, from the forest c and its root to c2 and root2.
DeletedInForest(c, root, tip, c2, root2) ==
  LET gone == TheForest!Stem(c, tip)
  IN /\ tip \in TipsOf(c)
     /\ c2 = Minus(c, gone)
     /\ root \notin gone => root2 = root
     /\ root \in gone /\ DOMAIN c2 = {} => root2 = NoVersion
     /\ root \in gone /\ DOMAIN c2 # {} => root2 \in TheForest!Tops(c2)

LEMMA StemLeavesSmall ==
  ASSUME NEW d, NEW c, Keeps(d, c), HasLimits(d), Small(c, LimitsOf(d)), NEW S,
         NEW tip, NEW front, IsStem(c, tip, S, front)
  PROVE  Small(Minus(c, S), LimitsOf(d))
<1> DEFINE m == Minus(c, S)
<1>0. Lineage(c) /\ d.maxVersions \in Nat /\ d.maxBranches \in Nat
  BY DEF Keeps, HasLimits
<1>1. DOMAIN m \subseteq DOMAIN c BY DEF Minus
<1>2. TipsOf(m) \subseteq TipsOf(c) BY <1>0, LeftByStem
<1>3. IsFiniteSet(DOMAIN c) /\ IsFiniteSet(TipsOf(c))
  <2>1. IsFiniteSet(DOMAIN c) /\ TipsOf(c) \in SUBSET DOMAIN c
    BY <1>0 DEF Lineage, TipsOf
  <2> QED BY <2>1, FS_Subset
<1>4. Cardinality(DOMAIN c) <= d.maxVersions
        /\ Cardinality(TipsOf(c)) <= d.maxBranches
  BY LimitsRead DEF Small
<1> HIDE DEF m
<1>5. Cardinality(DOMAIN m) <= d.maxVersions BY <1>0, <1>1, <1>3, <1>4, NoLarger
<1>6. Cardinality(TipsOf(m)) <= d.maxBranches BY <1>0, <1>2, <1>3, <1>4, NoLarger
<1> QED BY <1>5, <1>6, LimitsRead DEF Small, m

LEMMA DeleteKeeps ==
  ASSUME NEW d, NEW c, Keeps(d, c), HasLimits(d), Small(c, LimitsOf(d)),
         NEW tip \in d.tips
  PROVE  LET e == BranchDeleted(d, tip)
         IN  \E c2 : /\ Keeps(e, c2) /\ SameLimits(e, d)
                     /\ Small(c2, LimitsOf(d))
                     /\ DeletedInForest(c, d.root, tip, c2, e.root)
<1> DEFINE e == BranchDeleted(d, tip)
           S == StemOf(c, tip)
           s == Chain(c, tip)
           front == s[Len(s)]
           m == Minus(c, S)
           x == Pruned(d, tip, S)
<1>0. Lineage(c) /\ IsObject(d) /\ tip \in TipsOf(c) /\ tip \in DOMAIN c
        /\ Kids(c, tip) = {} /\ DOMAIN d.parent = DOMAIN c
        /\ \A v \in DOMAIN c : d.children[v] = Kids(c, v)
  BY DEF Keeps, Links, TipsOf
<1>1. IsStem(c, tip, S, front) BY <1>0, StemIsStem
<1>2. Stem(d, tip) = S /\ TopOf(d, tip) = front BY <1>0, StemIsRead
<1>3. TheForest!Stem(c, tip) = S BY <1>0, StemIsTheForests
<1>4. Small(m, LimitsOf(d)) BY <1>1, StemLeavesSmall
<1> HIDE DEF S, front
<1>5. e = Erased(IF Fork(d, S) = {} THEN EraseFrontOfBranch(x, front) ELSE x, S)
  BY <1>2 DEF BranchDeleted, Pruned, Fork
<1>6. Fork(d, S) = {} <=> front \in S
  <2>1. Fork(d, S) = {v \in DOMAIN c \ S : Kids(c, v) \cap S # {}}
    BY <1>0 DEF Fork, Present
  <2> QED BY <2>1, <1>1 DEF IsStem
<1>7. \A v \in DOMAIN m : c[v] \in DOMAIN m <=> c[v] \in DOMAIN c
  BY <1>0, <1>1, LeftByStem
<1>8. DOMAIN m = DOMAIN c \ S /\ \A v \in DOMAIN m : m[v] = c[v] BY DEF Minus
<1> HIDE DEF e, m, x
<1>9. /\ Keeps(e, m) /\ SameLimits(e, d)
      /\ d.root \notin S => e.root = d.root
      /\ d.root \in S /\ DOMAIN m = {} => e.root = NoVersion
      /\ d.root \in S /\ DOMAIN m # {} => e.root \in TheForest!Tops(m)
  <2>1. CASE front \notin S
    <3>1. e = Erased(x, S) BY <1>5, <1>6, <2>1
    <3> QED BY <2>1, <3>1, <1>1, DeleteToFork DEF m, x
  <2>2. CASE front \in S /\ front # d.root
    <3>1. e = Erased(EraseFrontOfBranch(x, front), S) BY <1>5, <1>6, <2>2
    <3> QED BY <2>2, <3>1, <1>1, DeleteOrphan DEF m, x
  <2>3. CASE front \in S /\ front = d.root /\ Waiting(c, d.root) # {}
    <3>1. e = Erased(EraseFrontOfBranch(x, front), S) BY <1>5, <1>6, <2>3
    <3>2. /\ Keeps(e, m) /\ SameLimits(e, d)
          /\ e.root \in DOMAIN c \ S /\ c[e.root] \notin DOMAIN c
      BY <2>3, <3>1, <1>1, DeleteRootForOrphan DEF m, x
    <3>3. e.root \in TheForest!Tops(m)
      BY <3>2, <1>7, <1>8 DEF TheForest!Tops
    <3>4. DOMAIN m # {} BY <3>2, <1>8
    <3> QED BY <2>3, <3>2, <3>3, <3>4
  <2>4. CASE front \in S /\ front = d.root /\ Waiting(c, d.root) = {}
    <3>1. e = Erased(EraseFrontOfBranch(x, front), S) BY <1>5, <1>6, <2>4
    <3>2. /\ Keeps(e, m) /\ SameLimits(e, d)
          /\ e.root = NoVersion /\ DOMAIN m = {}
      BY <2>4, <3>1, <1>1, DeleteLast DEF m, x
    <3> QED BY <2>4, <3>2
  <2> QED BY <2>1, <2>2, <2>3, <2>4
<1>10. DeletedInForest(c, d.root, tip, m, e.root)
  BY <1>0, <1>3, <1>9 DEF DeletedInForest, m
<1> QED BY <1>4, <1>9, <1>10 DEF e, m

-----------------------------------------------------------------------------
(* Clear.                                                                  *)

LEMMA ClearKeeps ==
  ASSUME NEW d, NEW c, Keeps(d, c), HasLimits(d)
  PROVE  LET e == Cleared(d)
         IN  /\ Keeps(e, EmptyFunction) /\ SameLimits(e, d)
             /\ Small(EmptyFunction, LimitsOf(d)) /\ e.root = NoVersion
<1> DEFINE l == LimitsOf(d)
           e == Cleared(d)
           f == New(l)
<1>1. l.versions = d.maxVersions /\ l.branches = d.maxBranches
  BY DEF LimitsOf
<1>2. IsObject(d) BY DEF Keeps
<1>3. /\ IsObject(e) /\ e.maxVersions = d.maxVersions
      /\ e.maxBranches = d.maxBranches
      /\ e.parent = EmptyFunction /\ e.children = EmptyFunction
      /\ e.rootParent = NoVersion /\ e.root = NoVersion /\ e.tips = {}
      /\ e.orphans = EmptyFunction
  BY <1>2 DEF Cleared, IsObject
<1>4. /\ IsObject(f) /\ f.maxVersions = l.versions
      /\ f.maxBranches = l.branches
      /\ f.parent = EmptyFunction /\ f.children = EmptyFunction
      /\ f.rootParent = NoVersion /\ f.root = NoVersion /\ f.tips = {}
      /\ f.orphans = EmptyFunction
  BY DEF New, IsObject
<1>5. Keeps(f, EmptyFunction) /\ Small(EmptyFunction, LimitsOf(f))
  BY <1>1, NewKeeps DEF HasLimits
<1>6. LimitsOf(f) = LimitsOf(d) BY <1>1, <1>4 DEF LimitsOf
<1> HIDE DEF e, f, l
<1>7. Keeps(e, EmptyFunction) BY <1>3, <1>4, <1>5 DEF Keeps, Links
<1> QED BY <1>3, <1>5, <1>6, <1>7 DEF SameLimits, e

LEMMA EmptyIsEmpty == EmptyFunction = << >>
BY DEF EmptyFunction

-----------------------------------------------------------------------------
(* What a sound object looks like to its callers.                          *)

LEMMA SoundIsTyped ==
  ASSUME Sound(sdv), defined \in BOOLEAN
  PROVE  TypeOK
<1> PICK c : Keeps(sdv, c) BY DEF Sound
<1>1. Lineage(c) /\ Rooted(c, sdv.root) /\ Links(sdv, c) BY DEF Keeps
<1>2. Present(sdv) = DOMAIN c /\ Present(sdv) \subseteq Names
        /\ DOMAIN sdv.children = DOMAIN c
  BY <1>1 DEF Present, Links, Lineage
<1>3. \A v \in DOMAIN c : /\ sdv.parent[v] \in NamesAndNone \cup {Dangling}
                          /\ sdv.children[v] \subseteq Names
  <2> TAKE v \in DOMAIN c
  <2>1. sdv.parent[v] = c[v] \/ sdv.parent[v] \in NoParents BY <1>1 DEF Links
  <2>2. c[v] \in NamesAndNone /\ Kids(c, v) \subseteq Names
    BY <1>1 DEF Lineage, Kids, NamesAndNone
  <2>3. sdv.children[v] = Kids(c, v) BY <1>1 DEF Links
  <2> QED BY <2>1, <2>2, <2>3 DEF NoParents, NamesAndNone
<1>4. sdv.root \in NamesAndNone /\ sdv.rootParent \in NamesAndNone
  <2>1. sdv.root # NoVersion => sdv.root \in DOMAIN c BY <1>1 DEF Rooted
  <2>2. sdv.rootParent = IF sdv.root = NoVersion THEN NoVersion ELSE c[sdv.root]
    BY DEF Keeps
  <2> QED BY <1>1, <2>1, <2>2 DEF Lineage, NamesAndNone
<1>5. sdv.tips \subseteq Names BY <1>1 DEF Links, Lineage
<1>6. DOMAIN sdv.orphans \subseteq Names
        /\ \A p \in DOMAIN sdv.orphans : sdv.orphans[p] \subseteq Names
  <2> DEFINE W == Waiting(c, sdv.root)
  <2>1. W \subseteq Names /\ \A v \in W : c[v] \in Names
    BY <1>1 DEF Waiting, Lineage, Rooted
  <2>2. sdv.orphans = Grouped(c, W) BY DEF Keeps
  <2> HIDE DEF W
  <2> QED BY <2>1, <2>2 DEF Grouped
<1>7. sdv.maxVersions \in Nat \ {0} /\ sdv.maxBranches \in Nat \ {0}
  BY DEF Sound, HasLimits
<1> QED BY <1>2, <1>3, <1>4, <1>5, <1>6, <1>7 DEF TypeOK

LEMMA SoundAgrees ==
  ASSUME Sound(sdv)
  PROVE  RelationsAgree
<1> PICK c : Keeps(sdv, c) BY DEF Sound
<1>1. Lineage(c) /\ Rooted(c, sdv.root) /\ Links(sdv, c) BY DEF Keeps
<1>2. Present(sdv) = DOMAIN c /\ DOMAIN c \subseteq Names
  BY <1>1 DEF Present, Links, Lineage
<1>3. ASSUME NEW v \in DOMAIN c, NEW w \in DOMAIN c
      PROVE  sdv.parent[w] = v <=> c[w] = v
  <2>1. v \notin NoParents BY <1>2 DEF NoParents
  <2> QED BY <2>1, <1>1 DEF Links
<1>4. ASSUME NEW v \in DOMAIN c
      PROVE  sdv.parent[v] \in DOMAIN c <=> c[v] \in DOMAIN c
  <2>1. NoParents \cap DOMAIN c = {} BY <1>2 DEF NoParents
  <2> QED BY <2>1, <1>1 DEF Links
<1>5. ParentsAndChildrenAgree
  <2>1. ASSUME NEW v \in DOMAIN c
        PROVE  sdv.children[v] = {w \in DOMAIN c : sdv.parent[w] = v}
    <3>1. sdv.children[v] = {w \in DOMAIN c : c[w] = v}
      BY <1>1 DEF Links, Kids
    <3> QED BY <3>1, <1>3
  <2>2. \A v \in DOMAIN c : sdv.parent[v] \in DOMAIN c \cup {NoVersion, Dangling}
    BY <1>1 DEF Links, NoParents
  <2> QED BY <2>1, <2>2, <1>2 DEF ParentsAndChildrenAgree
<1>6. TipsAreChildless
  BY <1>1, <1>2 DEF TipsAreChildless, Links
<1> DEFINE W == Waiting(c, sdv.root)
<1>7. sdv.orphans = Grouped(c, W) BY DEF Keeps
<1>8. UNION Range(sdv.orphans) = W
  <2> HIDE DEF W
  <2>1. \A v \in W : c[v] \in DOMAIN sdv.orphans /\ v \in sdv.orphans[c[v]]
    BY <1>7 DEF Grouped
  <2>2. \A p \in DOMAIN sdv.orphans : sdv.orphans[p] \subseteq W
    BY <1>7 DEF Grouped
  <2> QED BY <2>1, <2>2 DEF Range
<1>9. OrphansHaveNoParent
  <2>1. {v \in Present(sdv) : sdv.parent[v] \notin Present(sdv)}
          = ({sdv.root} \ {NoVersion}) \cup W
    <3>1. {v \in Present(sdv) : sdv.parent[v] \notin Present(sdv)}
            = {v \in DOMAIN c : c[v] \notin DOMAIN c}
      BY <1>2, <1>4
    <3>2. NoVersion \notin DOMAIN c BY <1>2
    <3> QED BY <3>1, <3>2, <1>1 DEF Waiting, Rooted
  <2>2. \A p \in DOMAIN sdv.orphans :
          sdv.orphans[p] = {v \in W : c[v] = p} /\ \E v \in W : c[v] = p
    BY <1>7 DEF Grouped
  <2>3. sdv.root \notin W BY DEF Waiting
  <2> HIDE DEF W
  <2>4. \A p \in DOMAIN sdv.orphans :
          /\ sdv.orphans[p] # {} /\ sdv.root \notin sdv.orphans[p]
          /\ \A q \in DOMAIN sdv.orphans \ {p} :
               sdv.orphans[p] \cap sdv.orphans[q] = {}
    BY <2>2, <2>3
  <2> QED BY <2>1, <2>4, <1>8 DEF OrphansHaveNoParent
<1>10. NobodyAwaitsTheHeld
  <2>1. DOMAIN sdv.orphans \cap DOMAIN c = {}
    BY <1>7 DEF Grouped, Waiting
  <2>2. sdv.rootParent \notin DOMAIN c
    BY <1>1, <1>2 DEF Keeps, Rooted
  <2> QED BY <2>1, <2>2, <1>2 DEF NobodyAwaitsTheHeld
<1> QED BY <1>5, <1>6, <1>9, <1>10 DEF RelationsAgree

LEMMA SoundIsOpen ==
  ASSUME Sound(sdv)
  PROVE  NoChainCloses /\ OneRoot /\ WithinLimits
<1> PICK c : Keeps(sdv, c) /\ Small(c, LimitsOf(sdv)) BY DEF Sound
<1>1. Lineage(c) /\ Rooted(c, sdv.root) /\ Links(sdv, c) BY DEF Keeps
<1>2. Present(sdv) = DOMAIN c /\ DOMAIN c \subseteq Names
  BY <1>1 DEF Present, Links, Lineage
<1>3. NoChainCloses
  <2> SUFFICES ASSUME NEW S \in (SUBSET DOMAIN c) \ {{}}
               PROVE  \E v \in S : sdv.parent[v] \notin S
    BY <1>2 DEF NoChainCloses
  <2>1. S \in SUBSET Names /\ S # {} BY <1>2
  <2>2. PICK v \in S : \A w \in S : v.index <= w.index BY <2>1, LowestVersion
  <2>3. v \in DOMAIN c /\ v \in Names BY <1>2
  <2>4. sdv.parent[v] \notin S
    <3> SUFFICES ASSUME sdv.parent[v] \in S PROVE FALSE OBVIOUS
    <3>1. sdv.parent[v] \notin NoParents BY <2>1 DEF NoParents
    <3>2. c[v] = sdv.parent[v] BY <2>3, <3>1, <1>1 DEF Links
    <3>3. c[v] \in Names /\ c[v].index < v.index
      BY <2>3, <3>2, <2>1, <1>1 DEF Lineage
    <3>4. v.index <= c[v].index BY <2>2, <3>2
    <3>5. v.index \in Nat /\ c[v].index \in Nat BY <3>3, <2>3
    <3> QED BY <3>3, <3>4, <3>5
  <2> QED BY <2>4
<1>4. OneRoot
  <2>1. c = Claims(sdv) BY KeptIsClaimed
  <2>2. \A v \in DOMAIN c : Claimed(sdv, v) = c[v] BY <2>1, <1>2 DEF Claims
  <2> QED BY <2>2, <1>1, <1>2 DEF OneRoot, Rooted
<1>5. WithinLimits
  <2>1. sdv.tips = TipsOf(c) BY <1>1 DEF Links, TipsOf
  <2> QED BY <2>1, <1>2, LimitsRead DEF WithinLimits, Small
<1> QED BY <1>3, <1>4, <1>5

LEMMA SoundIsWellFormed ==
  ASSUME Sound(sdv), defined \in BOOLEAN
  PROVE  WellFormed
BY SoundIsTyped, SoundAgrees, SoundIsOpen DEF WellFormed

-----------------------------------------------------------------------------
(* The steps.                                                              *)

\* What one step of the object does, seen as a step of the forest it keeps.
ForestStep(c, root, l, c2, root2) ==
  \/ \E v \in Names, p \in Names \cup {NoVersion} :
       PutInForest(c, root, l, v, p, c2, root2)
  \/ \E tip \in Names : DeletedInForest(c, root, tip, c2, root2)
  \/ c2 = EmptyFunction /\ root2 = NoVersion

LEMMA StepKeeps ==
  ASSUME Numbered, Others = {}, HasLimits(sdv),
         NEW c, Keeps(sdv, c), Small(c, LimitsOf(sdv)), Next
  PROVE  \/ sdv' = sdv
         \/ \E c2 : /\ Keeps(sdv', c2) /\ SameLimits(sdv', sdv)
                    /\ Small(c2, LimitsOf(sdv))
                    /\ ForestStep(c, sdv.root, LimitsOf(sdv), c2, sdv'.root)
<1>1. ASSUME NEW r \in Requests, Put(r)
      PROVE  \/ sdv' = sdv
             \/ \E c2 : /\ Keeps(sdv', c2) /\ SameLimits(sdv', sdv)
                        /\ Small(c2, LimitsOf(sdv))
                        /\ ForestStep(c, sdv.root, LimitsOf(sdv), c2, sdv'.root)
  <2> DEFINE e == PutOutcome(sdv, r).sdv
  <2>1. sdv' = e BY <1>1 DEF Put
  <2>2. \/ e = sdv
        \/ \E c2 : /\ Keeps(e, c2) /\ SameLimits(e, sdv)
                   /\ Small(c2, LimitsOf(sdv))
                   /\ PutInForest(c, sdv.root, LimitsOf(sdv), r.new, r.old, c2, e.root)
    BY PutKeeps
  <2>3. r.new \in Names /\ r.old \in Names \cup {NoVersion} OBVIOUS
  <2> HIDE DEF e
  <2> QED BY <2>1, <2>2, <2>3 DEF ForestStep
<1>2. ASSUME NEW tip \in Names, DeleteBranchUntilFork(tip)
      PROVE  \/ sdv' = sdv
             \/ \E c2 : /\ Keeps(sdv', c2) /\ SameLimits(sdv', sdv)
                        /\ Small(c2, LimitsOf(sdv))
                        /\ ForestStep(c, sdv.root, LimitsOf(sdv), c2, sdv'.root)
  <2> DEFINE e == BranchDeleted(sdv, tip)
  <2>1. tip \in sdv.tips /\ (sdv' = sdv \/ sdv' = e)
    BY <1>2 DEF DeleteBranchUntilFork
  <2>2. \E c2 : /\ Keeps(e, c2) /\ SameLimits(e, sdv)
                /\ Small(c2, LimitsOf(sdv))
                /\ DeletedInForest(c, sdv.root, tip, c2, e.root)
    BY <2>1, DeleteKeeps
  <2> HIDE DEF e
  <2> QED BY <2>1, <2>2 DEF ForestStep
<1>3. ASSUME Clear
      PROVE  \E c2 : /\ Keeps(sdv', c2) /\ SameLimits(sdv', sdv)
                     /\ Small(c2, LimitsOf(sdv))
                     /\ ForestStep(c, sdv.root, LimitsOf(sdv), c2, sdv'.root)
  <2> DEFINE e == Cleared(sdv)
  <2>1. sdv' = e BY <1>3 DEF Clear
  <2>2. /\ Keeps(e, EmptyFunction) /\ SameLimits(e, sdv)
        /\ Small(EmptyFunction, LimitsOf(sdv)) /\ e.root = NoVersion
    BY ClearKeeps
  <2> HIDE DEF e
  <2> QED BY <2>1, <2>2 DEF ForestStep
<1> QED BY <1>1, <1>2, <1>3 DEF Next

LEMMA InitIsSound ==
  ASSUME Init
  PROVE  Sound(sdv) /\ defined \in BOOLEAN
<1>1. PICK l \in Limits : sdv = New(l) BY DEF Init
<1>2. l.versions \in Nat \ {0} /\ l.branches \in Nat \ {0} OBVIOUS
<1>3. Sound(sdv) BY <1>1, <1>2, NewKeeps DEF Sound
<1> QED BY <1>3 DEF Init

LEMMA StepIsSound ==
  ASSUME Numbered, Others = {}, Sound(sdv), defined \in BOOLEAN, [Next]_vars
  PROVE  Sound(sdv)' /\ defined' \in BOOLEAN
<1>1. CASE UNCHANGED vars BY <1>1 DEF vars, Sound
<1>2. CASE Next
  <2>1. PICK c : Keeps(sdv, c) /\ Small(c, LimitsOf(sdv)) BY DEF Sound
  <2>2. HasLimits(sdv) BY DEF Sound
  <2>3. \/ sdv' = sdv
        \/ \E c2 : /\ Keeps(sdv', c2) /\ SameLimits(sdv', sdv)
                   /\ Small(c2, LimitsOf(sdv))
                   /\ ForestStep(c, sdv.root, LimitsOf(sdv), c2, sdv'.root)
    BY <1>2, <2>1, <2>2, StepKeeps
  <2>4. Sound(sdv')
    <3>1. CASE sdv' = sdv BY <3>1
    <3>2. CASE \E c2 : /\ Keeps(sdv', c2) /\ SameLimits(sdv', sdv)
                       /\ Small(c2, LimitsOf(sdv))
      <4>1. HasLimits(sdv') BY <2>2, <3>2 DEF HasLimits, SameLimits
      <4>2. LimitsOf(sdv') = LimitsOf(sdv) BY <3>2 DEF LimitsOf, SameLimits
      <4> QED BY <3>2, <4>1, <4>2 DEF Sound
    <3> QED BY <2>3, <3>1, <3>2
  <2>5. defined' \in BOOLEAN
    BY <1>2 DEF Next, Put, DeleteBranchUntilFork, Clear, ApplySerialised
  <2> QED BY <2>4, <2>5
<1> QED BY <1>1, <1>2

-----------------------------------------------------------------------------
(* The steps in VersionForest's own words.                                 *)

LEMMA SameWords ==
  ASSUME NEW c, NEW l, NEW S
  PROVE  /\ TheForest!Fits(c, l) <=> Small(c, l)
         /\ TheForest!Minus(c, S) = Minus(c, S)
         /\ TheForest!Tips(c) = TipsOf(c)
<1>1. \A v : TheForest!Kids(c, v) = Kids(c, v) BY DEF TheForest!Kids, Kids
<1>2. TheForest!Tips(c) = TipsOf(c) BY <1>1 DEF TheForest!Tips, TipsOf
<1>3. \A T : TheForest!Cardinality(T) = Cardinality(T)
  BY DEF TheForest!Cardinality, Cardinality
<1>4. TheForest!Fits(c, l) <=> Small(c, l)
  BY <1>2, <1>3 DEF TheForest!Fits, Small
<1>5. TheForest!Minus(c, S) = Minus(c, S) BY DEF TheForest!Minus, Minus
<1> QED BY <1>2, <1>4, <1>5

LEMMA PutIsTheForests ==
  ASSUME NEW v, NEW p, LimitsOf(sdv)' = LimitsOf(sdv),
         PutInForest(Claims(sdv), sdv.root, LimitsOf(sdv), v, p, Claims(sdv)', sdv.root')
  PROVE  TheForest!Put(v, p)
<1> DEFINE c == Claims(sdv)
           c2 == Claims(sdv)'
           l == LimitsOf(sdv)
           g == Grown(c, v, p)
<1>1. \/ /\ Small(g, l) /\ c2 = g
         /\ DOMAIN c = {} => sdv.root' = v
         /\ DOMAIN c # {} /\ c[sdv.root] = v =>
              sdv.root' \in TheForest!Above(g, v) \cap TheForest!Tops(g)
         /\ DOMAIN c # {} /\ c[sdv.root] # v =>
              sdv.root' = IF p = NoVersion \/ v.index = 0 THEN v ELSE sdv.root
      \/ /\ ~Small(g, l) /\ c2 = Minus(g, {sdv.root}) /\ Small(c2, l)
         /\ TheForest!Succeeds(sdv.root', g, sdv.root)
  BY DEF PutInForest
<1>2. v \notin DOMAIN c BY DEF PutInForest
<1>3. g = [w \in DOMAIN c \cup {v} |-> IF w = v THEN p ELSE c[w]] BY DEF Grown
<1>4. /\ TheForest!Fits(g, l) <=> Small(g, l)
      /\ TheForest!Fits(c2, l) <=> Small(c2, l)
      /\ TheForest!Minus(g, {sdv.root}) = Minus(g, {sdv.root})
  BY SameWords
<1> HIDE DEF c, c2, g, l
<1>5. CASE Small(g, l)
  <2>1. CASE DOMAIN c = {}
    BY <1>1, <1>2, <1>3, <1>4, <1>5, <2>1
       DEF TheForest!Put, TheForest!Present, c, c2, l
  <2>2. CASE DOMAIN c # {} /\ c[sdv.root] = v
    BY <1>1, <1>2, <1>3, <1>4, <1>5, <2>2
       DEF TheForest!Put, TheForest!Present, c, c2, l
  <2>3. CASE DOMAIN c # {} /\ c[sdv.root] # v
    BY <1>1, <1>2, <1>3, <1>4, <1>5, <2>3
       DEF TheForest!Put, TheForest!Present, c, c2, l
  <2> QED BY <2>1, <2>2, <2>3
<1>6. CASE ~Small(g, l)
  BY <1>1, <1>2, <1>3, <1>4, <1>6
     DEF TheForest!Put, TheForest!Present, c, c2, l
<1> QED BY <1>5, <1>6

LEMMA DeleteIsTheForests ==
  ASSUME NEW tip, LimitsOf(sdv)' = LimitsOf(sdv),
         DeletedInForest(Claims(sdv), sdv.root, tip, Claims(sdv)', sdv.root')
  PROVE  TheForest!DeleteBranch(tip)
<1> DEFINE c == Claims(sdv)
           c2 == Claims(sdv)'
           gone == TheForest!Stem(c, tip)
<1>1. /\ tip \in TipsOf(c) /\ c2 = Minus(c, gone)
      /\ sdv.root \notin gone => sdv.root' = sdv.root
      /\ sdv.root \in gone /\ DOMAIN c2 = {} => sdv.root' = NoVersion
      /\ sdv.root \in gone /\ DOMAIN c2 # {} => sdv.root' \in TheForest!Tops(c2)
  BY DEF DeletedInForest
<1>2. TheForest!Minus(c, gone) = Minus(c, gone) /\ TheForest!Tips(c) = TipsOf(c)
  BY SameWords
<1>3. c2 = << >> <=> DOMAIN c2 = {}
  <2>1. c2 = [w \in DOMAIN c2 |-> c2[w]] BY <1>1 DEF Minus
  <2> HIDE DEF c2
  <2>2. DOMAIN c2 = {} => c2 = EmptyFunction BY <2>1 DEF EmptyFunction
  <2>3. DOMAIN EmptyFunction = {} BY DEF EmptyFunction
  <2> QED BY <2>2, <2>3, EmptyIsEmpty
<1> HIDE DEF c, c2, gone
<1>4. CASE sdv.root \notin gone
  BY <1>1, <1>2, <1>4 DEF TheForest!DeleteBranch, c, c2, gone
<1>5. CASE sdv.root \in gone /\ c2 = << >>
  BY <1>1, <1>2, <1>3, <1>5 DEF TheForest!DeleteBranch, c, c2, gone
<1>6. CASE sdv.root \in gone /\ c2 # << >>
  BY <1>1, <1>2, <1>3, <1>6 DEF TheForest!DeleteBranch, c, c2, gone
<1> QED BY <1>4, <1>5, <1>6

LEMMA StepIsTheForests ==
  ASSUME Numbered, Others = {}, Sound(sdv), defined \in BOOLEAN, [Next]_vars
  PROVE  [TheForest!Next]_TheForest!vars
<1>1. CASE UNCHANGED vars BY <1>1 DEF vars, TheForest!vars
<1>2. CASE Next
  <2>1. PICK c : Keeps(sdv, c) /\ Small(c, LimitsOf(sdv)) BY DEF Sound
  <2>2. HasLimits(sdv) /\ c = Claims(sdv) BY <2>1, KeptIsClaimed DEF Sound
  <2>3. CASE sdv' = sdv BY <2>3 DEF TheForest!vars
  <2>4. CASE \E c2 : /\ Keeps(sdv', c2) /\ SameLimits(sdv', sdv)
                     /\ Small(c2, LimitsOf(sdv))
                     /\ ForestStep(c, sdv.root, LimitsOf(sdv), c2, sdv'.root)
    <3>1. PICK c2 : /\ Keeps(sdv', c2) /\ SameLimits(sdv', sdv)
                    /\ ForestStep(c, sdv.root, LimitsOf(sdv), c2, sdv'.root)
      BY <2>4
    <3>2. c2 = Claims(sdv') BY <3>1, KeptIsClaimed
    <3>3. LimitsOf(sdv') = LimitsOf(sdv) BY <3>1 DEF LimitsOf, SameLimits
    <3>4. ForestStep(Claims(sdv), sdv.root, LimitsOf(sdv), Claims(sdv)', sdv.root')
      BY <2>2, <3>1, <3>2
    <3>5. CASE \E v \in Names, p \in Names \cup {NoVersion} :
                 PutInForest(Claims(sdv), sdv.root, LimitsOf(sdv), v, p,
                             Claims(sdv)', sdv.root')
      BY <3>3, <3>5, PutIsTheForests DEF TheForest!Next
    <3>6. CASE \E tip \in Names :
                 DeletedInForest(Claims(sdv), sdv.root, tip, Claims(sdv)', sdv.root')
      BY <3>3, <3>6, DeleteIsTheForests DEF TheForest!Next
    <3>7. CASE Claims(sdv)' = EmptyFunction /\ sdv.root' = NoVersion
      <4>1. TheForest!Clear BY <3>3, <3>7, EmptyIsEmpty DEF TheForest!Clear
      <4> QED BY <4>1 DEF TheForest!Next
    <3> QED BY <3>4, <3>5, <3>6, <3>7 DEF ForestStep
  <2> QED BY <1>2, <2>1, <2>2, <2>3, <2>4, StepKeeps
<1> QED BY <1>1, <1>2

LEMMA InitIsTheForests ==
  ASSUME Init
  PROVE  TheForest!Init
<1>1. PICK l \in Limits : sdv = New(l) BY DEF Init
<1>2. l.versions \in Nat \ {0} /\ l.branches \in Nat \ {0} OBVIOUS
<1>3. Claims(sdv) = EmptyFunction
  <2>1. Keeps(sdv, EmptyFunction) BY <1>1, <1>2, NewKeeps
  <2> QED BY <2>1, KeptIsClaimed
<1>4. sdv.root = NoVersion /\ LimitsOf(sdv).versions = l.versions
        /\ LimitsOf(sdv).branches = l.branches
  BY <1>1 DEF New, LimitsOf
<1> QED BY <1>2, <1>3, <1>4, EmptyIsEmpty DEF TheForest!Init

\* In whatever order versions come and branches go, the relations that the
\* class keeps twice agree, the versions hang in trees from the one root and the
\* orphans, and the limits hold: structured_data_versions.cc mends parents,
\* children, tips_of_trees_, orphans_ and root_ completely in every call.
THEOREM StaysWellFormed ==
  ASSUME Numbered, Others = {}
  PROVE  Spec => []WellFormed
<1> DEFINE IInv == Sound(sdv) /\ defined \in BOOLEAN
<1>1. Init => IInv BY InitIsSound
<1>2. IInv /\ [Next]_vars => IInv'
  <2> SUFFICES ASSUME IInv, [Next]_vars PROVE IInv' OBVIOUS
  <2>1. Sound(sdv)' /\ defined' \in BOOLEAN BY StepIsSound
  <2> QED BY <2>1
<1>3. IInv => WellFormed BY SoundIsWellFormed
<1> QED BY <1>1, <1>2, <1>3, PTL DEF Spec

\* Put, DeleteBranchUntilFork and Clear do what VersionForest says: a version
\* is added under the parent it names and only the root goes for it, and a
\* branch goes from its tip up to the first version with another child.
THEOREM ImplementsTheForest ==
  ASSUME Numbered, Others = {}
  PROVE  Spec => Forest
<1> DEFINE IInv == Sound(sdv) /\ defined \in BOOLEAN
<1>1. Init => IInv BY InitIsSound
<1>2. IInv /\ [Next]_vars => IInv'
  <2> SUFFICES ASSUME IInv, [Next]_vars PROVE IInv' OBVIOUS
  <2>1. Sound(sdv)' /\ defined' \in BOOLEAN BY StepIsSound
  <2> QED BY <2>1
<1>3. Init => TheForest!Init BY InitIsTheForests
<1>4. IInv /\ [Next]_vars => [TheForest!Next]_TheForest!vars
  BY StepIsTheForests
<1> QED BY <1>1, <1>2, <1>3, <1>4, PTL DEF Spec, Forest, TheForest!Spec

-----------------------------------------------------------------------------
(* The order of arrival.                                                   *)

\* Beyond what its forest says, an object is the record of its fields, and without a merge
\* no parent iterator points into a map that is gone.
Clean(d) ==
  /\ d = [f \in DOMAIN d |-> d[f]]
  /\ \A v \in Present(d) : d.parent[v] # Dangling

\* A forest after a Put that has returned: as it was, grown, or grown without
\* one of the others.
Took(c, r, c2) ==
  \/ c2 = c /\ (r.new \in DOMAIN c => c[r.new] = r.old)
  \/ r.new \notin DOMAIN c /\ c2 = Grown(c, r.new, r.old)
  \/ /\ r.new \notin DOMAIN c
     /\ \E x \in DOMAIN c : c2 = Minus(Grown(c, r.new, r.old), {x})

LEMMA TookReads ==
  ASSUME NEW c, NEW r, NEW c2, Took(c, r, c2)
  PROVE  /\ DOMAIN c2 \subseteq DOMAIN c \cup {r.new}
         /\ r.new \in DOMAIN c2 => c2[r.new] = r.old
         /\ \A v \in DOMAIN c2 \ {r.new} : c2[v] = c[v]
         /\ r.new \in DOMAIN c \/ r.new \notin DOMAIN c2 => c2 = c
<1> DEFINE g == Grown(c, r.new, r.old)
<1>1. /\ DOMAIN g = DOMAIN c \cup {r.new} /\ g[r.new] = r.old
      /\ \A v \in DOMAIN c \ {r.new} : g[v] = c[v]
  BY DEF Grown
<1>2. ASSUME NEW x
      PROVE  /\ DOMAIN Minus(g, {x}) = DOMAIN g \ {x}
             /\ \A v \in DOMAIN g \ {x} : Minus(g, {x})[v] = g[v]
  BY DEF Minus
<1> HIDE DEF g
<1>3. CASE c2 = c /\ (r.new \in DOMAIN c => c[r.new] = r.old) BY <1>3
<1>4. CASE r.new \notin DOMAIN c /\ c2 = g BY <1>1, <1>4
<1>5. CASE r.new \notin DOMAIN c /\ \E x \in DOMAIN c : c2 = Minus(g, {x})
  <2>1. PICK x \in DOMAIN c : c2 = Minus(g, {x}) BY <1>5
  <2>2. DOMAIN c2 = DOMAIN g \ {x} /\ \A v \in DOMAIN g \ {x} : c2[v] = g[v]
    BY <1>2, <2>1
  <2> QED BY <1>1, <1>5, <2>2
<1> QED BY <1>3, <1>4, <1>5 DEF Took, g

\* Half of the argument: what the two versions and the others are put under in the end.
BothWays(c, r, s, c1, c2, k1, k2) ==
  /\ Took(c, r, c1) /\ Took(c1, s, c2) /\ Took(c, s, k1) /\ Took(k1, r, k2)
  /\ c1 = c => k1 = c2
  /\ DOMAIN c2 = DOMAIN c \cup {r.new, s.new}
LEMMA BothTook ==
  ASSUME NEW c, NEW r, NEW s, NEW c1, NEW c2, NEW k1, NEW k2,
         BothWays(c, r, s, c1, c2, k1, k2)
  PROVE  /\ c2[r.new] = r.old /\ c2[s.new] = s.old
         /\ \A v \in DOMAIN c \ {r.new, s.new} : c2[v] = c[v]
<1> USE DEF BothWays
<1>1. /\ DOMAIN c2 \subseteq DOMAIN c1 \cup {s.new}
      /\ c2[s.new] = s.old
      /\ \A v \in DOMAIN c2 \ {s.new} : c2[v] = c1[v]
      /\ s.new \in DOMAIN c1 => c2 = c1
  BY TookReads
<1>2. /\ r.new \in DOMAIN c1 => c1[r.new] = r.old
      /\ \A v \in DOMAIN c1 \ {r.new} : c1[v] = c[v]
      /\ r.new \notin DOMAIN c1 => c1 = c
  BY TookReads
<1>3. /\ r.new \in DOMAIN k2 => k2[r.new] = r.old
      /\ r.new \in DOMAIN k1 => k2 = k1
  BY TookReads
<1>4. c2[r.new] = r.old
  <2>1. CASE r.new \in DOMAIN c1 BY <1>1, <1>2, <2>1
  <2>2. CASE r.new \notin DOMAIN c1 BY <1>2, <1>3, <2>2
  <2> QED BY <2>1, <2>2
<1> QED BY <1>1, <1>2, <1>4

LEMMA TookInAnyOrder ==
  ASSUME NEW c, NEW r, NEW s, NEW c1, NEW c2, NEW k1, NEW k2,
         BothWays(c, r, s, c1, c2, k1, k2), BothWays(c, s, r, k1, k2, c1, c2),
         Lineage(c2), Lineage(k2)
  PROVE  c2 = k2
<1>1. /\ c2[r.new] = r.old /\ c2[s.new] = s.old
      /\ \A v \in DOMAIN c \ {r.new, s.new} : c2[v] = c[v]
  BY BothTook
<1>2. /\ k2[s.new] = s.old /\ k2[r.new] = r.old
      /\ \A v \in DOMAIN c \ {s.new, r.new} : k2[v] = c[v]
  BY BothTook
<1>3. /\ DOMAIN c2 = DOMAIN c \cup {r.new, s.new}
      /\ DOMAIN k2 = DOMAIN c \cup {s.new, r.new}
  BY DEF BothWays
<1>4. DOMAIN k2 = DOMAIN c2 /\ \A v \in DOMAIN c2 : c2[v] = k2[v]
  BY <1>1, <1>2, <1>3
<1>5. c2 = [v \in DOMAIN c2 |-> c2[v]] /\ k2 = [v \in DOMAIN k2 |-> k2[v]]
  BY DEF Lineage
<1>6. [v \in DOMAIN c2 |-> c2[v]] = [v \in DOMAIN k2 |-> k2[v]] BY ONLY <1>4
<1> QED BY ONLY <1>5, <1>6

\* A clean object is determined by its forest, its root and its limits.
LEMMA SameForestSameObject ==
  ASSUME NEW d, NEW e, NEW c, Keeps(d, c), Keeps(e, c), Clean(d), Clean(e),
         SameLimits(d, e), d.root = e.root
  PROVE  d = e
<1>1. d.parent = e.parent
  <2>1. DOMAIN c = Present(d) /\ DOMAIN c = Present(e)
    BY DEF Keeps, Links, Present
  <2>2. ASSUME NEW v \in DOMAIN c PROVE d.parent[v] = e.parent[v]
    BY <2>1, <2>2 DEF Keeps, Links, Clean, NoParents
  <2>3. d.parent = [v \in DOMAIN c |-> d.parent[v]] /\ e.parent = [v \in DOMAIN c |-> e.parent[v]]
    BY DEF Keeps, Links
  <2> QED BY <2>2, <2>3
<1>2. d.children = e.children /\ d.tips = e.tips BY DEF Keeps, Links
<1>3. d.rootParent = e.rootParent /\ d.orphans = e.orphans BY DEF Keeps
<1>4. d.maxVersions = e.maxVersions /\ d.maxBranches = e.maxBranches BY DEF SameLimits
<1>5. DOMAIN d = DOMAIN e BY DEF Keeps, IsObject
<1>6. \A f \in DOMAIN d : d[f] = e[f]
  BY <1>1, <1>2, <1>3, <1>4 DEF Keeps, IsObject
<1> QED BY <1>5, <1>6 DEF Clean
-----------------------------------------------------------------------------
(* Clean objects stay clean.                                               *)

LEMMA NewIsClean ==
  ASSUME NEW l
  PROVE  Clean(New(l))
BY DEF Clean, New, Present, EmptyFunction

\* Clean, and with the fields of an object.
Tidy(d) == IsObject(d) /\ Clean(d)

LEMMA ErasedIsClean ==
  ASSUME NEW d, NEW S, Tidy(d)
  PROVE  Tidy(Erased(d, S))
<1> USE DEF Tidy
<1>1. Erased(d, S).parent = [v \in DOMAIN d.parent \ S |-> d.parent[v]]
  BY WithoutIsRestricted DEF Erased, IsObject
<1>2. Erased(d, S) = [f \in DOMAIN Erased(d, S) |-> Erased(d, S)[f]]
  BY DEF Erased
<1>3. IsObject(Erased(d, S)) BY DEF Erased, IsObject
<1> QED BY <1>1, <1>2, <1>3 DEF Clean, Present
LEMMA ReplacedIsClean ==
  ASSUME NEW d, Tidy(d)
  PROVE  Tidy(ReplaceRootFromOrphans(d)) /\ Tidy(ReplaceRoot(d))
<1>1. ASSUME NEW e, Tidy(e) PROVE Tidy(ReplaceRootFromOrphans(e))
  <2> DEFINE a == Erased(e, {e.root})
             key == Least(DOMAIN e.orphans)
             orphan == Least(e.orphans[key])
  <2>1. Tidy(a) BY <1>1, ErasedIsClean
  <2>2. ReplaceRootFromOrphans(e) =
          [a EXCEPT !.rootParent = key, !.root = orphan,
             !.orphans = WithoutOrphan(@, key, orphan)]
    BY DEF ReplaceRootFromOrphans
  <2> HIDE DEF a, key, orphan
  <2> QED BY <2>1, <2>2 DEF Tidy, Clean, IsObject, Present
<1>2. ASSUME NEW e, Tidy(e) PROVE Tidy(ReplaceRootFromChildren(e))
  <2> DEFINE kids == e.children[e.root]
             free == [e EXCEPT !.parent = Over([v \in kids |-> NoVersion], @)]
             a == Erased(free, {e.root})
  <2>1. Tidy(free)
    <3>1. IsObject(free) /\ free = [f \in DOMAIN free |-> free[f]]
            /\ free.parent = Over([v \in kids |-> NoVersion], e.parent)
      BY <1>2 DEF Tidy, IsObject
    <3>2. \A v \in DOMAIN free.parent : free.parent[v] # Dangling
      <4>1. \A v \in DOMAIN e.parent : e.parent[v] # Dangling
        BY <1>2 DEF Tidy, Clean, Present
      <4> HIDE DEF free, kids
      <4> QED BY <3>1, <4>1 DEF Over
    <3> HIDE DEF free
    <3> QED BY <3>1, <3>2 DEF Tidy, Clean, Present
  <2>2. Tidy(a) BY <2>1, ErasedIsClean
  <2>3. ReplaceRootFromChildren(e) =
          [a EXCEPT !.rootParent = e.root, !.root = Least(kids),
             !.orphans = WithOrphans(@, e.root, kids \ {Least(kids)})]
    BY <1>2 DEF ReplaceRootFromChildren, Tidy, IsObject
  <2> HIDE DEF a, kids
  <2> QED BY <2>2, <2>3 DEF Tidy, Clean, IsObject, Present
<1>3. Tidy(Dethroned(d)) BY DEF Dethroned, Tidy, IsObject, Clean, Present
<1>4. ReplaceRoot(d) = IF d.children[d.root] = {}
                       THEN ReplaceRootFromOrphans(Dethroned(d))
                       ELSE ReplaceRootFromChildren(Dethroned(d))
  BY DethronedFields DEF Tidy
<1> QED BY <1>1, <1>2, <1>3, <1>4

LEMMA InsertedIsClean ==
  ASSUME NEW d, Tidy(d), NEW r \in Requests
  PROVE  Tidy(Inserted(d, r))
<1> DEFINE a == Linked(d, r)
           b == [a EXCEPT !.orphans = WithOrphans(@, r.old, {r.new})]
           parent == Parent(d, r)
           links == [v \in Adopted(d, r) \cup {r.new} |->
                       IF v = r.new THEN parent ELSE r.new]
<1>1. Tidy(a)
  <2>1. IsObject(a) /\ a = [f \in DOMAIN a |-> a[f]] /\ a.parent = Over(links, d.parent)
    BY DEF Linked, Tidy, IsObject
  <2>2. parent # Dangling /\ r.new # Dangling
    <3>1. r.new \in Names /\ r.old \in Names \cup {NoVersion} OBVIOUS
    <3>2. parent \in {r.old, NoVersion} BY DEF Parent
    <3> QED BY <3>1, <3>2
  <2>3. \A v \in DOMAIN a.parent : a.parent[v] # Dangling
    <3> HIDE DEF a, parent
    <3> QED BY <2>1, <2>2 DEF Over, Tidy, Clean, Present
  <2> HIDE DEF a
  <2> QED BY <2>1, <2>3 DEF Tidy, Clean, Present
<1> HIDE DEF a
<1>2. Tidy(b) BY <1>1 DEF Tidy, Clean, IsObject, Present
<1>3. Tidy(UnorphanRoot(a, r))
  BY <1>1 DEF UnorphanRoot, Tidy, Clean, IsObject, Present
<1>4. Tidy(NewRoot(a, r))
  BY <1>1 DEF NewRoot, Tidy, Clean, IsObject, Present
<1>5. Inserted(d, r) =
        LET added == IF IsOrphan(d, r) THEN b ELSE a
        IN IF UnorphansRoot(d, r) THEN UnorphanRoot(a, r)
           ELSE IF IsRoot(d, r) THEN NewRoot(a, r)
           ELSE IF ErasesRoot(d, r) THEN ReplaceRoot(added)
           ELSE added
  BY DEF Inserted, a
<1> HIDE DEF b
<1>6. Tidy(ReplaceRoot(a)) /\ Tidy(ReplaceRoot(b)) BY <1>1, <1>2, ReplacedIsClean
<1> QED BY <1>1, <1>2, <1>3, <1>4, <1>5, <1>6

LEMMA PutIsClean ==
  ASSUME NEW d, Tidy(d), NEW r \in Requests
  PROVE  Tidy(PutOutcome(d, r).sdv)
<1>1. PutOutcome(d, r).sdv = d \/ PutOutcome(d, r).sdv = Inserted(d, r)
  BY DEF PutOutcome, Outcome
<1> QED BY <1>1, InsertedIsClean

LEMMA DeletedIsClean ==
  ASSUME NEW d, Tidy(d), NEW tip
  PROVE  Tidy(BranchDeleted(d, tip))
<1> DEFINE stem == Stem(d, tip)
           front == TopOf(d, tip)
           fork == {v \in Present(d) \ stem : d.children[v] \cap stem # {}}
           freed == Over([v \in fork |-> d.children[v] \ stem], d.children)
           e == [d EXCEPT !.tips = @ \ {tip}, !.children = freed]
           f == EraseFrontOfBranch(e, front)
<1>1. Tidy(e) BY DEF Tidy, Clean, IsObject, Present
<1>2. BranchDeleted(d, tip) = Erased(IF fork = {} THEN f ELSE e, stem)
  BY DEF BranchDeleted
<1> HIDE DEF e
<1>3. Tidy(f)
  <2>1. Tidy(ReplaceRootFromOrphans(e)) BY <1>1, ReplacedIsClean
  <2>2. Tidy([e EXCEPT !.rootParent = NoVersion, !.root = NoVersion])
    BY <1>1 DEF Tidy, Clean, IsObject, Present
  <2>3. Tidy([e EXCEPT !.orphans = WithoutOrphan(@, OrphanKey(e, front), front)])
    BY <1>1 DEF Tidy, Clean, IsObject, Present
  <2> HIDE DEF front
  <2> QED BY <2>1, <2>2, <2>3 DEF EraseFrontOfBranch
<1> HIDE DEF f, fork, stem
<1> QED BY <1>1, <1>2, <1>3, ErasedIsClean
LEMMA StepIsClean ==
  ASSUME Others = {}, Tidy(sdv), [Next]_vars
  PROVE  Tidy(sdv)'
<1>1. CASE UNCHANGED vars BY <1>1 DEF vars, Tidy, Clean, IsObject, Present
<1>2. ASSUME NEW r \in Requests, Put(r) PROVE Tidy(sdv')
  BY <1>2, PutIsClean DEF Put
<1>3. ASSUME NEW tip \in Names, DeleteBranchUntilFork(tip) PROVE Tidy(sdv')
  <2>1. sdv' = sdv \/ sdv' = BranchDeleted(sdv, tip)
    BY <1>3 DEF DeleteBranchUntilFork
  <2> QED BY <2>1, DeletedIsClean
<1>4. ASSUME Clear PROVE Tidy(sdv')
  <2>1. sdv' = Cleared(sdv) BY <1>4 DEF Clear
  <2>2. Tidy(Cleared(sdv))
    BY DEF Cleared, Tidy, Clean, IsObject, Present, EmptyFunction
  <2> QED BY <2>1, <2>2
<1>5. Tidy(sdv)' <=> Tidy(sdv') BY DEF Tidy, Clean, IsObject, Present
<1> QED BY <1>1, <1>2, <1>3, <1>4, <1>5 DEF Next

-----------------------------------------------------------------------------
(* Two Puts, one after the other.                                          *)

\* What is said of a Put that has returned.
LEMMA PutTook ==
  ASSUME NEW d, NEW c, Keeps(d, c), HasLimits(d), Small(c, LimitsOf(d)),
         Numbered, NEW r \in Requests, PutOutcome(d, r).end = "returned"
  PROVE  LET e == PutOutcome(d, r).sdv
         IN  \E c2 : /\ Keeps(e, c2) /\ SameLimits(e, d) /\ Small(c2, LimitsOf(d))
                     /\ Took(c, r, c2) /\ (c2 = c => e = d)
<1> DEFINE e == PutOutcome(d, r).sdv
           g == Grown(c, r.new, r.old)
           Done(c2) == /\ Keeps(e, c2) /\ SameLimits(e, d) /\ Small(c2, LimitsOf(d))
                       /\ Took(c, r, c2) /\ (c2 = c => e = d)
<1>0. Present(d) = DOMAIN c BY DEF Keeps, Links, Present
<1>1. ~PutIsUndefined(d, r) /\ ~PutThrows(d, r) BY DEF PutOutcome, Outcome
<1>2. e = d \/ (e = Inserted(d, r) /\ Inserts(d, r))
  BY <1>1 DEF PutOutcome, Outcome, Inserts
<1>3. ASSUME e = d PROVE Done(c)
  <2>1. r.new \in DOMAIN c => c[r.new] = r.old
    <3> SUFFICES ASSUME r.new \in DOMAIN c PROVE c[r.new] = r.old OBVIOUS
    <3>1. r.old = Claimed(d, r.new) BY <1>0, <1>1 DEF PutThrows
    <3>2. c = Claims(d) BY KeptIsClaimed
    <3> QED BY <3>1, <3>2, <1>0 DEF Claims
  <2>2. Took(c, r, c) BY <2>1 DEF Took
  <2> QED BY <1>3, <2>2 DEF SameLimits
<1>4. ASSUME e = Inserted(d, r), Inserts(d, r) PROVE \E c2 : Done(c2)
  <2>1. r.new \notin DOMAIN c BY <1>0, <1>4 DEF Inserts
  <2>2. Fresh(c, r) BY <2>1 DEF Fresh, Numbered
  <2>3. r.new \in DOMAIN g BY DEF Grown
  <2> HIDE DEF e
  <2>4. CASE UnorphansRoot(d, r) \/ IsRoot(d, r) \/ ~ErasesRoot(d, r)
    <3>1. Keeps(e, g) /\ SameLimits(e, d) /\ Small(g, LimitsOf(d))
      <4>1. CASE UnorphansRoot(d, r) BY <1>4, <2>2, <4>1, InsertUnorphansRoot
      <4>2. CASE ~UnorphansRoot(d, r) /\ IsRoot(d, r)
        BY <1>4, <2>2, <4>2, InsertMakesRoot
      <4>3. CASE ~UnorphansRoot(d, r) /\ ~IsRoot(d, r)
        BY <1>4, <2>2, <2>4, <4>3, InsertAdds
      <4> QED BY <4>1, <4>2, <4>3
    <3>2. Took(c, r, g) BY <2>1 DEF Took
    <3>3. g # c BY <2>1, <2>3
    <3> QED BY <3>1, <3>2, <3>3
  <2>5. CASE ~UnorphansRoot(d, r) /\ ~IsRoot(d, r) /\ ErasesRoot(d, r)
    <3> DEFINE m == Minus(g, {d.root})
    <3>1. Keeps(e, m) /\ SameLimits(e, d) /\ Small(m, LimitsOf(d))
      BY <1>4, <2>2, <2>5, InsertReplacesRoot
    <3>2. d.root \in DOMAIN c
      <4>1. DOMAIN c # {} BY <2>2, <2>5, PutReads
      <4> QED BY <4>1 DEF Keeps, Rooted
    <3>3. Took(c, r, m) BY <2>1, <3>2 DEF Took
    <3>4. m # c
      <4>1. d.root \notin DOMAIN m BY DEF Minus
      <4> QED BY <3>2, <4>1
    <3> HIDE DEF m
    <3> QED BY <3>1, <3>3, <3>4
  <2> QED BY <2>4, <2>5
<1> HIDE DEF e, Done
<1>5. \E c2 : Done(c2) BY <1>2, <1>3, <1>4
<1> QED BY <1>5 DEF Done, e
\* A sequence of two is put one after the other, as long as the first returns.
LEMMA TwoPuts ==
  ASSUME NEW d, NEW r, NEW s
  PROVE  LET o == PutOutcome(d, r)
         IN  AllPut(d, <<r, s>>) =
               IF o.end = "returned" THEN PutOutcome(o.sdv, s) ELSE o
<1> DEFINE step(o, q) == IF o.end = "returned" THEN PutOutcome(o.sdv, q) ELSE o
           seq == <<r, s>>
           base == Outcome(d, "returned", NoVersion)
           Latest(S) == CHOOSE i \in S : \A j \in S : i >= j
           Is(iter) == iter = [S \in SUBSET {1, 2} |->
              IF S = {} THEN base
              ELSE LET x == Latest(S) IN step(iter[S \ {x}], seq[x])]
           it == CHOOSE iter : Is(iter)
           made == [S \in SUBSET {1, 2} |->
              IF S = {} THEN base
              ELSE IF S = {1} THEN step(base, seq[1])
              ELSE IF S = {2} THEN step(base, seq[2])
              ELSE step(step(base, seq[1]), seq[2])]
<1>1. DOMAIN seq = {1, 2} /\ seq[1] = r /\ seq[2] = s OBVIOUS
<1>2. Latest({1}) = 1 /\ Latest({2}) = 2 /\ Latest({1, 2}) = 2 OBVIOUS
<1>3. AllPut(d, <<r, s>>) = it[{1, 2}]
  BY <1>1 DEF AllPut, FoldLeft, MapThenFoldSet, Max
<1> HIDE DEF base, step, Latest, seq
<1>4. Is(made)
  <2> DEFINE rule(S) == IF S = {} THEN base
                        ELSE LET x == Latest(S) IN step(made[S \ {x}], seq[x])
  <2>1. ASSUME NEW S \in SUBSET {1, 2} PROVE made[S] = rule(S)
    <3>1. S \in {{}, {1}, {2}, {1, 2}} OBVIOUS
    <3>2. made[{}] = base OBVIOUS
    <3>3. made[{1}] = step(base, seq[1]) OBVIOUS
    <3>4. made[{2}] = step(base, seq[2]) OBVIOUS
    <3>5. made[{1, 2}] = step(step(base, seq[1]), seq[2]) OBVIOUS
    <3>6. {1} \ {1} = {} /\ {2} \ {2} = {} /\ {1, 2} \ {2} = {1} OBVIOUS
    <3> HIDE DEF made
    <3>7. CASE S = {} BY <3>2, <3>7
    <3>8. CASE S = {1} BY <1>2, <3>2, <3>3, <3>6, <3>8
    <3>9. CASE S = {2} BY <1>2, <3>2, <3>4, <3>6, <3>9
    <3>10. CASE S = {1, 2} BY <1>2, <3>3, <3>5, <3>6, <3>10
    <3> QED BY <3>1, <3>7, <3>8, <3>9, <3>10
  <2>2. made = [S \in SUBSET {1, 2} |-> made[S]] OBVIOUS
  <2> HIDE DEF made, rule
  <2>3. [S \in SUBSET {1, 2} |-> made[S]] = [S \in SUBSET {1, 2} |-> rule(S)]
    BY <2>1
  <2>4. made = [S \in SUBSET {1, 2} |-> rule(S)] BY <2>2, <2>3
  <2> QED BY <2>4 DEF rule
<1>5. Is(it) BY <1>4
<1>6. it[{1, 2}] = step(step(base, seq[1]), seq[2])
  <2> HIDE DEF it
  <2>1. {1} \ {1} = {} /\ {1, 2} \ {2} = {1} OBVIOUS
  <2>2. it[{}] = base BY <1>5
  <2>3. it[{1}] = step(it[{1} \ {1}], seq[1]) BY <1>2, <1>5
  <2>4. it[{1, 2}] = step(it[{1, 2} \ {2}], seq[2]) BY <1>2, <1>5
  <2> QED BY <2>1, <2>2, <2>3, <2>4
<1>7. step(base, r) = PutOutcome(d, r) BY DEF step, base, Outcome
<1> HIDE DEF it
<1> QED BY <1>1, <1>3, <1>6, <1>7 DEF step, seq
\* What two Puts, one after the other, do when both versions are held in the end.
LEMMA TwoPutsTook ==
  ASSUME NEW d, NEW c, Keeps(d, c), HasLimits(d), Small(c, LimitsOf(d)), Tidy(d),
         Numbered, NEW r \in Requests, NEW s \in Requests,
         AllPut(d, <<r, s>>).end = "returned"
  PROVE  LET e == PutOutcome(d, r).sdv
             b == AllPut(d, <<r, s>>).sdv
         IN  /\ PutOutcome(d, r).end = "returned"
             /\ b = PutOutcome(e, s).sdv
             /\ Tidy(b) /\ SameLimits(b, d)
             /\ Took(c, r, Claims(e)) /\ Took(Claims(e), s, Claims(b))
             /\ Claims(e) = c => e = d
             /\ Keeps(b, Claims(b))
<1> DEFINE e == PutOutcome(d, r).sdv
           b == AllPut(d, <<r, s>>).sdv
<1>1. /\ PutOutcome(d, r).end = "returned" /\ PutOutcome(e, s).end = "returned"
      /\ b = PutOutcome(e, s).sdv
  BY TwoPuts
<1>2. PICK c1 : /\ Keeps(e, c1) /\ SameLimits(e, d) /\ Small(c1, LimitsOf(d))
                /\ Took(c, r, c1) /\ (c1 = c => e = d)
  BY <1>1, PutTook
<1>3. HasLimits(e) /\ LimitsOf(e) = LimitsOf(d)
  BY <1>2 DEF HasLimits, LimitsOf, SameLimits
<1>4. Tidy(e) BY PutIsClean
<1>5. Tidy(b) BY <1>1, <1>4, PutIsClean
<1> HIDE DEF e, b
<1>6. PICK c2 : /\ Keeps(PutOutcome(e, s).sdv, c2)
                /\ SameLimits(PutOutcome(e, s).sdv, e) /\ Took(c1, s, c2)
  BY <1>1, <1>2, <1>3, PutTook
<1>7. c1 = Claims(e) /\ c2 = Claims(b) BY <1>1, <1>2, <1>6, KeptIsClaimed
<1>8. SameLimits(b, d) BY <1>1, <1>2, <1>6 DEF SameLimits
<1> QED BY <1>1, <1>2, <1>5, <1>6, <1>7, <1>8 DEF e, b

\* A root that was put without a parent is found in the forest.
LEMMA SameRoot ==
  ASSUME NEW d, NEW e, NEW c, Keeps(d, c), Keeps(e, c), d.rootParent = NoVersion
  PROVE  d.root = e.root
BY DEF Keeps, Rooted

LEMMA SoundOrder ==
  ASSUME Numbered, Sound(sdv), Tidy(sdv)
  PROVE  ArrivalOrderIsIrrelevant
<1> DEFINE d == sdv
<1>1. PICK c : Keeps(d, c) /\ Small(c, LimitsOf(d)) BY DEF Sound
<1>2. HasLimits(d) BY DEF Sound
<1> SUFFICES ASSUME NEW r \in Requests, NEW s \in Requests,
                    AllPut(d, <<r, s>>).end = "returned",
                    AllPut(d, <<s, r>>).end = "returned",
                    Present(AllPut(d, <<r, s>>).sdv) = Present(d) \cup {r.new, s.new},
                    Present(AllPut(d, <<s, r>>).sdv)
                      = Present(AllPut(d, <<r, s>>).sdv),
                    AllPut(d, <<r, s>>).sdv.rootParent = NoVersion
             PROVE  AllPut(d, <<s, r>>).sdv = AllPut(d, <<r, s>>).sdv
  BY DEF ArrivalOrderIsIrrelevant
<1> DEFINE e == PutOutcome(d, r).sdv
           b == AllPut(d, <<r, s>>).sdv
           h == PutOutcome(d, s).sdv
           k == AllPut(d, <<s, r>>).sdv
<1>3. /\ PutOutcome(d, r).end = "returned" /\ b = PutOutcome(e, s).sdv
      /\ Tidy(b) /\ SameLimits(b, d)
      /\ Took(c, r, Claims(e)) /\ Took(Claims(e), s, Claims(b))
      /\ Claims(e) = c => e = d
      /\ Keeps(b, Claims(b))
  BY <1>1, <1>2, TwoPutsTook
<1>4. /\ PutOutcome(d, s).end = "returned" /\ k = PutOutcome(h, r).sdv
      /\ Tidy(k) /\ SameLimits(k, d)
      /\ Took(c, s, Claims(h)) /\ Took(Claims(h), r, Claims(k))
      /\ Claims(h) = c => h = d
      /\ Keeps(k, Claims(k))
  BY <1>1, <1>2, TwoPutsTook
<1>5. Claims(e) = c => h = b BY <1>3
<1>6. Claims(h) = c => e = k BY <1>4
<1>7. Present(b) = Present(d) \cup {r.new, s.new} /\ Present(k) = Present(b)
        /\ b.rootParent = NoVersion
  OBVIOUS
<1>8. DOMAIN c = Present(d) BY <1>1 DEF Keeps, Links, Present
<1>9. DOMAIN Claims(b) = Present(b) /\ DOMAIN Claims(k) = Present(k) BY DEF Claims
<1> HIDE DEF d, e, b, h, k
<1>10. BothWays(c, r, s, Claims(e), Claims(b), Claims(h), Claims(k))
  BY <1>3, <1>4, <1>5, <1>7, <1>8, <1>9 DEF BothWays
<1>11. BothWays(c, s, r, Claims(h), Claims(k), Claims(e), Claims(b))
  BY <1>3, <1>4, <1>6, <1>7, <1>8, <1>9 DEF BothWays
<1>12. Lineage(Claims(b)) /\ Lineage(Claims(k)) BY <1>3, <1>4 DEF Keeps
<1>13. Claims(b) = Claims(k) BY <1>10, <1>11, <1>12, TookInAnyOrder
<1>14. Keeps(k, Claims(b)) BY <1>4, <1>13
<1>15. b.root = k.root BY <1>3, <1>7, <1>14, SameRoot
<1>16. SameLimits(b, k) BY <1>3, <1>4 DEF SameLimits
<1>17. b = k BY <1>3, <1>4, <1>14, <1>15, <1>16, SameForestSameObject DEF Tidy
<1> QED BY <1>17 DEF b, k

\* Two versions that structured_data_versions.cc takes in either order, with the root put
\* without a parent and nobody removed for them, leave the same object: every field of it,
\* orphans_ and tips_of_trees_ included.
THEOREM OrderIsIrrelevant ==
  ASSUME Numbered, Others = {}
  PROVE  Spec => []ArrivalOrderIsIrrelevant
<1> DEFINE IInv == Sound(sdv) /\ defined \in BOOLEAN /\ Tidy(sdv)
<1>1. Init => IInv
  <2> SUFFICES ASSUME Init PROVE IInv OBVIOUS
  <2>1. PICK l \in Limits : sdv = New(l) BY DEF Init
  <2>2. l.versions \in Nat \ {0} /\ l.branches \in Nat \ {0} OBVIOUS
  <2>3. IsObject(sdv) BY <2>1, <2>2, NewKeeps DEF Keeps
  <2>4. Clean(sdv) BY <2>1, NewIsClean
  <2> QED BY <2>3, <2>4, InitIsSound DEF Tidy
<1>2. IInv /\ [Next]_vars => IInv'
  <2> SUFFICES ASSUME IInv, [Next]_vars PROVE IInv' OBVIOUS
  <2>1. Sound(sdv)' /\ defined' \in BOOLEAN BY StepIsSound
  <2>2. Tidy(sdv)' BY StepIsClean
  <2> QED BY <2>1, <2>2
<1>3. IInv => ArrivalOrderIsIrrelevant BY SoundOrder
<1> QED BY <1>1, <1>2, <1>3, PTL DEF Spec
=============================================================================

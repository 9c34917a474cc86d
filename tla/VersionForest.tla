--------------------------- MODULE VersionForest ----------------------------
(***************************************************************************)
(* What a client of StructuredDataVersions may rely on: a set of versions, *)
(* each with the parent it was put under, one of which is the root.  The   *)
(* children, tips and orphans of the code are all read off that.           *)
(***************************************************************************)
EXTENDS Integers, SequencesExt

CONSTANTS
  Names,
  NoVersion,
  Incoming \* the objects held elsewhere: [claimed, limits]

VARIABLES
  claimed, \* claimed[v]: the parent v was put under, held or not
  root,
  limits   \* [versions, branches]

vars == <<claimed, root, limits>>

Present == DOMAIN claimed
Kids(c, v) == {w \in DOMAIN c : c[w] = v}
Tops(c) == {v \in DOMAIN c : c[v] \notin DOMAIN c}
Tips(c) == {v \in DOMAIN c : Kids(c, v) = {}}
Above(c, v) ==
  LET up[w \in DOMAIN c] ==
        {w} \cup IF c[w] \in DOMAIN c THEN up[c[w]] ELSE {}
  IN up[v]
Fits(c, l) ==
  /\ Cardinality(DOMAIN c) <= l.versions
  /\ Cardinality(Tips(c)) <= l.branches
Minus(c, S) == [v \in DOMAIN c \ S |-> c[v]]
Lower(a, b) == a.index < b.index \/ (a.index = b.index /\ a.id < b.id)

\* Once the root is erased, its lowest child takes its place, or else an orphan.
Succeeds(new, c, old) ==
  IF Kids(c, old) = {} THEN new \in Tops(c) \ {old}
  ELSE new \in Kids(c, old) /\ \A w \in Kids(c, old) \ {new} : Lower(new, w)

Init ==
  /\ claimed = <<>> /\ root = NoVersion
  /\ limits.versions >= 1 /\ limits.branches >= 1

\* A version is added; to make room, and for nothing else, the root goes.
Put(v, p) ==
  LET grown == [w \in Present \cup {v} |-> IF w = v THEN p ELSE claimed[w]]
  IN /\ v \notin Present
     /\ UNCHANGED limits
     /\ \/ /\ Fits(grown, limits)
           /\ claimed' = grown
           /\ CASE Present = {} -> root' = v
                [] Present # {} /\ claimed[root] = v ->
                     root' \in Above(grown, v) \cap Tops(grown)
                [] OTHER -> root' = IF p = NoVersion \/ v.index = 0 THEN v ELSE root
        \/ /\ ~Fits(grown, limits)
           /\ claimed' = Minus(grown, {root})
           /\ Fits(claimed', limits)
           /\ Succeeds(root', grown, root)

\* A branch goes, from its tip up to the first version with another child.
Stem(c, tip) ==
  {v \in Above(c, tip) :
     \A w \in Above(c, tip) \ {tip} :
       v \in Above(c, w) => Cardinality(Kids(c, w)) = 1}
DeleteBranch(tip) ==
  /\ tip \in Tips(claimed)
  /\ UNCHANGED limits
  /\ LET gone == Stem(claimed, tip)
     IN /\ claimed' = Minus(claimed, gone)
        /\ CASE root \notin gone -> root' = root
             [] root \in gone /\ claimed' = <<>> -> root' = NoVersion
             [] OTHER -> root' \in Tops(claimed')

Clear == claimed' = <<>> /\ root' = NoVersion /\ UNCHANGED limits

\* Another object is merged in, with its limits: a version has the parent that
\* one of the two gave it, and none is lost but to keep within the limits.
Merge(theirs) ==
  LET both == Present \cup DOMAIN theirs.claimed
  IN /\ Present # {}
     /\ limits' = theirs.limits
     /\ Fits(claimed', limits')
     /\ root' \in Tops(claimed')
     /\ \A v \in DOMAIN claimed' :
          \/ v \in Present /\ claimed'[v] = claimed[v]
          \/ v \in DOMAIN theirs.claimed /\ claimed'[v] = theirs.claimed[v]
     /\ \/ DOMAIN claimed' = both
        \/ Cardinality(DOMAIN claimed') = limits'.versions
        \/ Cardinality(Tips(claimed')) = limits'.branches

Next ==
  \/ \E v \in Names, p \in Names \cup {NoVersion} : Put(v, p)
  \/ \E tip \in Names : DeleteBranch(tip)
  \/ Clear
  \/ \E theirs \in Incoming : Merge(theirs)

Spec == Init /\ [][Next]_vars
=============================================================================

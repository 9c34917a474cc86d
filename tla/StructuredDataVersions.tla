----------------------- MODULE StructuredDataVersions -----------------------
(***************************************************************************)
(* maidsafe::StructuredDataVersions                                        *)
(* (src/maidsafe/common/data_types/structured_data_versions.cc): the       *)
(* history of a mutable object as a bounded forest of version names.       *)
(* Versions arrive in any order, so a version whose parent is not held is  *)
(* kept as an orphan until the parent comes; the node of the forest that   *)
(* counts as its root is erased to keep within the limits.                 *)
(*                                                                         *)
(* An object is a record whose fields are those of the class: every        *)
(* relation of the forest is stored twice or more (parent and children,    *)
(* tips_of_trees_, orphans_, root_) and each operation mends them one by   *)
(* one.  The class is not thread safe and each public function runs alone: *)
(* it is one action.  Assertions are compiled out.                         *)
(***************************************************************************)
EXTENDS Integers, SequencesExt

CONSTANTS
  Names,     \* the initialised VersionNames: records [index, id]
  NoVersion, \* a default-constructed VersionName, and std::end(versions_)
  Dangling,  \* an iterator into a map that is gone
  Limits,    \* possible arguments of the constructor: [versions, branches]
  Requests,  \* arguments of Put: [old, new]
  Others     \* objects held elsewhere: the Puts and limits that made them

ASSUME NamesAssumption ==
  /\ \A n \in Names : n \in [index : Nat, id : Nat]
  /\ {NoVersion, Dangling} \cap Names = {} /\ NoVersion # Dangling
ASSUME RequestsAssumption ==
  \A r \in Requests : r.old \in Names \cup {NoVersion} /\ r.new \in Names
ASSUME LimitsAssumption ==
  \A l \in Limits \cup {o.limits : o \in Others} :
    l.versions \in Nat \ {0} /\ l.branches \in Nat \ {0}

VARIABLES
  sdv,      \* the object
  defined   \* FALSE once a call has met undefined behaviour

vars == <<sdv, defined>>

-----------------------------------------------------------------------------
(* The object.                                                             *)

Less(a, b) ==
  a.index < b.index \/ (a.index = b.index /\ a.id < b.id)
Least(S) == CHOOSE a \in S : \A b \in S \ {a} : Less(a, b)
Sorted(S) == SetToSortSeq(S, Less)

EmptyFunction == [n \in {} |-> NoVersion]
Cleared(d) ==
  [d EXCEPT !.parent = EmptyFunction, !.children = EmptyFunction,
            !.rootParent = NoVersion, !.root = NoVersion, !.tips = {},
            !.orphans = EmptyFunction]
New(limits) ==
  [maxVersions |-> limits.versions, maxBranches |-> limits.branches,
   parent |-> EmptyFunction, children |-> EmptyFunction,
   rootParent |-> NoVersion, root |-> NoVersion, tips |-> {},
   orphans |-> EmptyFunction]

Present(d) == DOMAIN d.parent
\* The absent version that an orphan was put under.
OrphanKey(d, v) == CHOOSE p \in DOMAIN d.orphans : v \in d.orphans[p]

\* The old_version that v was put with, as the object remembers it.
Claimed(d, v) ==
  CASE v = d.root -> d.rootParent
    [] v # d.root /\ d.parent[v] \in Present(d) -> d.parent[v]
    [] OTHER -> OrphanKey(d, v)

\* From v to the version at the front of its branch: itself without a parent,
\* or with a parent that can no longer be read.
Upwards(d, v) ==
  LET up[w \in Present(d)] ==
        IF d.parent[w] \in Present(d) THEN <<w>> \o up[d.parent[w]] ELSE <<w>>
  IN up[v]
TopOf(d, v) == LET up == Upwards(d, v) IN up[Len(up)]

\* v and everything below it, each version before its children.
Preorder(d, v) ==
  LET below[w \in Present(d)] ==
        LET kids == Sorted(d.children[w])
        IN <<w>> \o FlattenSeq([i \in DOMAIN kids |-> below[kids[i]]])
  IN below[v]

\* f, and g where f has no value (@@ of TLC, spelled out to be reasoned about).
Over(f, g) ==
  [v \in DOMAIN f \cup DOMAIN g |-> IF v \in DOMAIN f THEN f[v] ELSE g[v]]
WithOrphans(orphans, key, S) ==
  IF S = {} THEN orphans
  ELSE Over([k \in {key} |->
               S \cup IF k \in DOMAIN orphans THEN orphans[k] ELSE {}],
            orphans)
WithoutOrphan(orphans, key, v) ==
  IF orphans[key] = {v}
  THEN RestrictDomain(orphans, LAMBDA k : k # key)
  ELSE [orphans EXCEPT ![key] = @ \ {v}]

Without(f, S) == RestrictDomain(f, LAMBDA v : v \notin S)
Erased(d, S) ==
  [d EXCEPT !.parent = Without(@, S), !.children = Without(@, S)]

-----------------------------------------------------------------------------
(* Replacing the root.                                                     *)

ReplaceRootFromOrphans(d) ==
  LET key == Least(DOMAIN d.orphans)
      orphan == Least(d.orphans[key])
  IN [Erased(d, {d.root}) EXCEPT !.rootParent = key, !.root = orphan,
        !.orphans = WithoutOrphan(@, key, orphan)]

ReplaceRootFromChildren(d) ==
  LET kids == d.children[d.root]
      others == kids \ {Least(kids)}
      unparented == Over([v \in kids |-> NoVersion], d.parent)
  IN [Erased([d EXCEPT !.parent = unparented], {d.root}) EXCEPT
        !.rootParent = d.root, !.root = Least(kids),
        !.orphans = WithOrphans(@, d.root, others)]

ReplaceRoot(d) ==
  LET e == [d EXCEPT !.tips = @ \ {d.root}]
  IN IF d.children[d.root] = {}
     THEN ReplaceRootFromOrphans(e)
     ELSE ReplaceRootFromChildren(e)

-----------------------------------------------------------------------------
(* Put.                                                                    *)

IsRoot(d, r) == r.old = NoVersion \/ Present(d) = {} \/ r.new.index = 0
Parent(d, r) ==
  IF ~IsRoot(d, r) /\ r.old \in Present(d) THEN r.old ELSE NoVersion
IsOrphan(d, r) == ~IsRoot(d, r) /\ r.old \notin Present(d)
\* Faulty: forgets that the root may be waiting for its parent.
NeverUnorphansRoot(d, r) == FALSE
UnorphansRoot(d, r) == d.rootParent = r.new
Unorphaned(d, r) == IF r.new \in DOMAIN d.orphans THEN d.orphans[r.new] ELSE {}
Adopted(d, r) ==
  Unorphaned(d, r) \cup IF UnorphansRoot(d, r) THEN {d.root} ELSE {}

TwoRoots(d, r) == IsRoot(d, r) /\ d.root # NoVersion /\ d.rootParent = NoVersion
ConflictingRoots(d, r) ==
  /\ IsOrphan(d, r)
  /\ d.root.index = 0 /\ r.old.index = 0 /\ d.root.id # r.old.id

\* Does the new parent lie below a version that would be adopted?  Only the
\* first child of each version is compared with it.
CheckVersionNotInBranch(d, top, name) ==
  \A w \in Range(Preorder(d, top)) :
    d.children[w] = {} \/ Least(d.children[w]) # name
CircularChain(d, r) ==
  /\ Parent(d, r) # NoVersion
  /\ \E a \in Adopted(d, r) : ~CheckVersionNotInBranch(d, a, r.old)

AtVersionsLimit(d) == Cardinality(Present(d)) = d.maxVersions
AtBranchesLimit(d) == Cardinality(d.tips) = d.maxBranches
\* The new version would become root, to be erased at once.
ErasedAtOnce(d, r) ==
  AtVersionsLimit(d) /\ (UnorphansRoot(d, r) \/ IsRoot(d, r))

ChecksBranchCount(d, r) == AtBranchesLimit(d) /\ Unorphaned(d, r) = {}
AddsBranch(d, r) ==
  /\ ChecksBranchCount(d, r)
  /\ \/ IsOrphan(d, r)
     \/ Parent(d, r) # NoVersion /\ d.children[Parent(d, r)] # {}
RootIsTipOfTree(d) == d.root # NoVersion /\ d.children[d.root] = {}


PutThrows(d, r) ==
  \/ r.new \in Present(d) /\ r.old # Claimed(d, r.new)
  \/ /\ r.new \notin Present(d)
     /\ \/ TwoRoots(d, r) \/ CircularChain(d, r) \/ ConflictingRoots(d, r)
        \/ ~ErasedAtOnce(d, r) /\ AddsBranch(d, r) /\ ~RootIsTipOfTree(d)

\* The search for the front of the branch that adopts the root goes round a
\* chain that the check has missed.
NeverReturns(d, r) ==
  /\ Parent(d, r) # NoVersion /\ UnorphansRoot(d, r)
  /\ \E a \in Adopted(d, r) : r.old \in Range(Preorder(d, a))

\* Reads a parent that is gone, or the children of end(), or never returns.
PutIsUndefined(d, r) ==
  \/ r.new \in Present(d) /\ d.parent[r.new] = Dangling
  \/ /\ r.new \notin Present(d) /\ ~TwoRoots(d, r) /\ ~ErasedAtOnce(d, r)
     /\ \/ IsRoot(d, r) /\ ChecksBranchCount(d, r)
        \/ ~PutThrows(d, r) /\ NeverReturns(d, r)
        \/ ~PutThrows(d, r) /\ UnorphansRoot(d, r) /\ Parent(d, r) # NoVersion
             /\ d.parent[TopOf(d, r.old)] = Dangling

\* The version linked with its parent and with the orphans that waited for it.
Linked(d, r) ==
  LET parent == Parent(d, r)
      kids == Adopted(d, r)
      siblings == [v \in {parent} \ {NoVersion} |-> d.children[v] \cup {r.new}]
      loseTip == parent # NoVersion /\ d.children[parent] = {}
  IN [d EXCEPT
        !.parent = Over([v \in kids \cup {r.new} |->
                           IF v = r.new THEN parent ELSE r.new], @),
        !.children = Over([v \in {r.new} |-> kids], Over(siblings, @)),
        !.tips = (IF loseTip THEN @ \ {parent} ELSE @)
                   \cup IF kids = {} THEN {r.new} ELSE {},
        !.orphans = Without(@, {r.new})]

\* The root found its parent: the front of the branch it joins takes its place.
UnorphanRoot(d, r) ==
  LET front == TopOf(d, r.new)
      key == OrphanKey(d, front)
  IN IF Parent(d, r) = NoVersion
     THEN [d EXCEPT !.root = r.new, !.rootParent = r.old]
     ELSE [d EXCEPT !.root = front, !.rootParent = key,
             !.orphans = WithoutOrphan(@, key, front)]

\* A real root turns the version that stood for it into an orphan.
NewRoot(d, r) ==
  [d EXCEPT !.root = r.new, !.rootParent = r.old,
     !.orphans = IF d.rootParent = NoVersion THEN @
                 ELSE WithOrphans(@, d.rootParent, {d.root})]

\* Faulty: makes room for a branch only.
ErasesRootForBranchOnly(d, r) == AddsBranch(d, r)
ErasesRoot(d, r) == AtVersionsLimit(d) \/ AddsBranch(d, r)

Inserted(d, r) ==
  LET linked == Linked(d, r)
      added == IF IsOrphan(d, r)
               THEN [linked EXCEPT !.orphans = WithOrphans(@, r.old, {r.new})]
               ELSE linked
  IN IF UnorphansRoot(d, r) THEN UnorphanRoot(linked, r)
     ELSE IF IsRoot(d, r) THEN NewRoot(linked, r)
     ELSE IF ErasesRoot(d, r) THEN ReplaceRoot(added)
     ELSE added

\* What a Put does: the object, how the call ends, and the version it returns.
Outcome(d, end, removed) == [sdv |-> d, end |-> end, removed |-> removed]
PutOutcome(d, r) ==
  IF PutIsUndefined(d, r) THEN Outcome(d, "undefined", NoVersion)
  ELSE IF PutThrows(d, r) THEN Outcome(d, "threw", NoVersion)
  ELSE IF r.new \in Present(d) THEN Outcome(d, "returned", NoVersion)
  ELSE IF ErasedAtOnce(d, r) THEN Outcome(d, "returned", r.new)
  ELSE Outcome(Inserted(d, r), "returned",
               IF UnorphansRoot(d, r) \/ IsRoot(d, r) \/ ~ErasesRoot(d, r)
               THEN NoVersion ELSE d.root)

Put(r) ==
  LET o == PutOutcome(sdv, r)
  IN /\ defined
     /\ sdv' = o.sdv
     /\ defined' = (o.end # "undefined")

-----------------------------------------------------------------------------
(* DeleteBranchUntilFork.                                                  *)

\* What is erased: the tip, and the versions above it with no other child.
Stem(d, tip) ==
  LET up == Upwards(d, tip)
  IN {up[i] : i \in {j \in DOMAIN up :
        \A k \in 2..j : Cardinality(d.children[up[k]]) = 1}}

\* Faulty: never looks for another root.
EraseFrontLeavingNoRoot(d, front) ==
  IF front = d.root THEN [d EXCEPT !.rootParent = NoVersion, !.root = NoVersion]
  ELSE [d EXCEPT !.orphans = WithoutOrphan(@, OrphanKey(d, front), front)]
EraseFrontOfBranch(d, front) ==
  CASE front = d.root /\ d.orphans = EmptyFunction ->
         [d EXCEPT !.rootParent = NoVersion, !.root = NoVersion]
    [] front = d.root /\ d.orphans # EmptyFunction -> ReplaceRootFromOrphans(d)
    [] OTHER ->
         [d EXCEPT !.orphans = WithoutOrphan(@, OrphanKey(d, front), front)]

BranchDeleted(d, tip) ==
  LET stem == Stem(d, tip)
      front == TopOf(d, tip)
      fork == {v \in Present(d) \ stem : d.children[v] \cap stem # {}}
      freed == Over([v \in fork |-> d.children[v] \ stem], d.children)
      e == [d EXCEPT !.tips = @ \ {tip}, !.children = freed]
  IN Erased(IF fork = {} THEN EraseFrontOfBranch(e, front) ELSE e, stem)

\* Throws, and changes nothing, for a version that is not a tip.
DeleteBranchUntilFork(tip) ==
  /\ defined /\ tip \in sdv.tips
  /\ LET front == TopOf(sdv, tip)
     IN IF sdv.parent[front] = Dangling /\ front \in Stem(sdv, tip)
        THEN defined' = FALSE /\ UNCHANGED sdv
        ELSE sdv' = BranchDeleted(sdv, tip) /\ UNCHANGED defined

Clear == defined /\ sdv' = Cleared(sdv) /\ UNCHANGED defined

-----------------------------------------------------------------------------
(* Serialise and the parsing constructor.  A branch lists the versions     *)
(* down to the first with no child or several; in that case that many      *)
(* branches, which it has to adopt, come next.                             *)

\* The root's tree, then the orphans' by absent parent.
Tops(d) ==
  LET keys == Sorted(DOMAIN d.orphans)
  IN (IF d.root = NoVersion THEN <<>> ELSE <<d.root>>)
       \o FlattenSeq([i \in DOMAIN keys |-> Sorted(d.orphans[keys[i]])])

Branches(d, top) ==
  LET branches[v \in Present(d)] ==
        LET kids == Sorted(d.children[v])
            rest == [i \in DOMAIN kids |-> branches[kids[i]]]
        IN IF Len(kids) = 1
           THEN <<[Head(rest[1]) EXCEPT !.names = <<v>> \o @]>> \o Tail(rest[1])
           ELSE <<[absentParent |-> NoVersion, names |-> <<v>>,
                   forkingChildCount |-> Len(kids)]>> \o FlattenSeq(rest)
  IN branches[top]

\* Faulty: forgets the absent parent of a tree.
BranchesWithoutParent(d, top) == Branches(d, top)
BranchesToCereal(d, top) ==
  LET first == [Head(Branches(d, top)) EXCEPT !.absentParent = Claimed(d, top)]
  IN <<first>> \o Tail(Branches(d, top))

Serialise(d) ==
  LET tops == Tops(d)
  IN [maxVersions |-> d.maxVersions, maxBranches |-> d.maxBranches,
      branches |-> FlattenSeq([i \in DOMAIN tops |->
                                 BranchesToCereal(d, tops[i])])]

\* One branch, put under parent, or at the front of a tree without one.
BranchFromCereal(d, b, parent) ==
  LET names == Range(b.names)
      last == b.names[Len(b.names)]
      above == [i \in DOMAIN b.names |-> IF i = 1 THEN parent ELSE b.names[i - 1]]
      kids(v) == {b.names[i] : i \in {j \in DOMAIN b.names : above[j] = v}}
      becomesRoot == parent = NoVersion /\ d.root = NoVersion
  IN [d EXCEPT
        !.parent = Over([v \in names |->
                           above[IndexFirstSubSeq(<<v>>, b.names)]], @),
        !.children = Over([v \in names \cup ({parent} \ {NoVersion}) |->
                             IF v = parent THEN @[v] \cup kids(v) ELSE kids(v)], @),
        !.root = IF becomesRoot THEN b.names[1] ELSE @,
        !.rootParent = IF becomesRoot THEN b.absentParent ELSE @,
        !.orphans = IF parent = NoVersion /\ ~becomesRoot
                    THEN WithOrphans(@, b.absentParent, {b.names[1]}) ELSE @,
        !.tips = IF b.forkingChildCount = 0 THEN @ \cup {last} ELSE @]

\* Forks waiting for their branches are nested: the latest comes first.
Parsed(s) ==
  LET step(acc, b) ==
        LET parent == IF acc.forks = <<>> THEN NoVersion ELSE Head(acc.forks)
            due == [i \in 1..b.forkingChildCount |-> b.names[Len(b.names)]]
            rest == IF acc.forks = <<>> THEN <<>> ELSE Tail(acc.forks)
        IN [sdv |-> BranchFromCereal(acc.sdv, b, parent), forks |-> due \o rest]
      empty == New([versions |-> s.maxVersions, branches |-> s.maxBranches])
  IN FoldLeft(step, [sdv |-> empty, forks |-> <<>>], s.branches).sdv

-----------------------------------------------------------------------------
(* ApplySerialised.                                                        *)

\* Puts, one after another until one does not return.
AllPut(d, puts) ==
  LET step(o, r) == IF o.end = "returned" THEN PutOutcome(o.sdv, r) ELSE o
  IN FoldLeft(step, Outcome(d, "returned", NoVersion), puts)

\* The object another node holds.
Built(other) == AllPut(New(other.limits), other.puts).sdv

\* Every version held, tree by tree, as arguments of Put.
OwnPuts(d) ==
  LET tops == Tops(d)
      own == FlattenSeq([i \in DOMAIN tops |-> Preorder(d, tops[i])])
  IN [i \in DOMAIN own |-> [old |-> Claimed(d, own[i]), new |-> own[i]]]

\* Of the parents that are end() in the map that was swapped in, only the
\* root's is set to this map's end().
Swapped(d) ==
  LET orphans == UNION Range(d.orphans)
  IN [d EXCEPT !.parent =
        Over([v \in orphans \cup ({d.root} \cap Present(d)) |->
                IF v = d.root THEN NoVersion ELSE Dangling], @)]

\* Reads the root of an object that has none, if it is empty.
ApplySerialised(other) ==
  LET merged == AllPut(Parsed(Serialise(Built(other))), OwnPuts(sdv))
      undefined == Present(sdv) = {} \/ merged.end = "undefined"
  IN /\ defined
     /\ defined' = ~undefined
     /\ sdv' = IF ~undefined /\ merged.end = "returned"
               THEN Swapped(merged.sdv)
               ELSE sdv

-----------------------------------------------------------------------------
Init == sdv \in {New(l) : l \in Limits} /\ defined = TRUE

Next ==
  \/ \E r \in Requests : Put(r)
  \/ \E tip \in Names : DeleteBranchUntilFork(tip)
  \/ Clear
  \/ \E o \in Others : ApplySerialised(o)

Spec == Init /\ [][Next]_vars
=============================================================================

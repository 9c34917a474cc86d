------------------------- MODULE VersionsProperties -------------------------
(***************************************************************************)
(* What StructuredDataVersions is meant to guarantee, and what its         *)
(* comments say that it does not.                                          *)
(***************************************************************************)
EXTENDS StructuredDataVersions

NamesAndNone == Names \cup {NoVersion}

\* The fields of the object have the types the class declares.
TypeOK ==
  /\ defined \in BOOLEAN
  /\ sdv.maxVersions \in Nat \ {0} /\ sdv.maxBranches \in Nat \ {0}
  /\ Present(sdv) \subseteq Names /\ DOMAIN sdv.children = Present(sdv)
  /\ \A v \in Present(sdv) :
       /\ sdv.parent[v] \in NamesAndNone \cup {Dangling}
       /\ sdv.children[v] \subseteq Names
  /\ sdv.root \in NamesAndNone /\ sdv.rootParent \in NamesAndNone
  /\ sdv.tips \subseteq Names
  /\ DOMAIN sdv.orphans \subseteq Names
  /\ \A p \in DOMAIN sdv.orphans : sdv.orphans[p] \subseteq Names

-----------------------------------------------------------------------------
(* The relations the class keeps twice agree after every call.             *)

ParentsAndChildrenAgree ==
  /\ \A v \in Present(sdv) :
       sdv.children[v] = {w \in Present(sdv) : sdv.parent[w] = v}
  /\ \A v \in Present(sdv) :
       sdv.parent[v] \in Present(sdv) \cup {NoVersion, Dangling}
TipsAreChildless ==
  sdv.tips = {v \in Present(sdv) : sdv.children[v] = {}}
\* Only the root and the orphans have no parent, and no orphan is the root's
\* or is kept under two absent versions.
OrphansHaveNoParent ==
  /\ {v \in Present(sdv) : sdv.parent[v] \notin Present(sdv)}
       = ({sdv.root} \ {NoVersion}) \cup UNION Range(sdv.orphans)
  /\ \A p \in DOMAIN sdv.orphans :
       /\ sdv.orphans[p] # {} /\ sdv.root \notin sdv.orphans[p]
       /\ \A q \in DOMAIN sdv.orphans \ {p} :
            sdv.orphans[p] \cap sdv.orphans[q] = {}
\* A version that is held is waited for by no orphan, nor by the root.
NobodyAwaitsTheHeld ==
  Present(sdv) \cap (DOMAIN sdv.orphans \cup {sdv.rootParent}) = {}

\* Put, DeleteBranchUntilFork, the replacement of the root, the parser and
\* ApplySerialised all mend parents, children, tips_of_trees_, orphans_ and
\* root_ in steps of their own; whatever the order of the calls they agree.
RelationsAgree ==
  /\ ParentsAndChildrenAgree
  /\ TipsAreChildless
  /\ OrphansHaveNoParent
  /\ NobodyAwaitsTheHeld

\* No chain of parents closes on itself, which would make GetBranch and the
\* search for the front of a branch go round it for ever: among any versions
\* held there is one whose parent is not among them.
NoChainCloses ==
  \A S \in (SUBSET Present(sdv)) \ {{}} : \E v \in S : sdv.parent[v] \notin S

\* Whatever order versions come and go in, no more of them and of their
\* branches are kept than the constructor, or the object merged in, allows.
WithinLimits ==
  /\ Cardinality(Present(sdv)) <= sdv.maxVersions
  /\ Cardinality(sdv.tips) <= sdv.maxBranches

\* There is always one root, and a version put without a parent is the root
\* for as long as it is held, whatever stood for it before it came.
OneRoot ==
  /\ sdv.root # NoVersion <=> Present(sdv) # {}
  /\ \A v \in Present(sdv) : Claimed(sdv, v) = NoVersion => v = sdv.root

\* The object is what its class describes: typed, with the relations it keeps twice in
\* agreement, in trees that hang from its one root or from an orphan, and no
\* larger than its limits.
WellFormed ==
  TypeOK /\ RelationsAgree /\ NoChainCloses /\ OneRoot /\ WithinLimits

\* Every version lies below the root or an orphan, so that Serialise writes it
\* and GetBranch can show it.
EveryVersionIsServed ==
  Present(sdv) = UNION {Range(Preorder(sdv, Tops(sdv)[i])) : i \in DOMAIN Tops(sdv)}

\* Serialise writes every version, and the parsing constructor turns what it
\* writes into the same object, with the orphans' parents at the end of their
\* own map.
RoundTrip ==
  /\ EveryVersionIsServed
  /\ Parsed(Serialise(sdv)) =
       [sdv EXCEPT !.parent =
          [v \in DOMAIN @ |-> IF @[v] = Dangling THEN NoVersion ELSE @[v]]]

\* Versions may arrive in any order: two that are both taken, with nothing
\* removed and the root in place, leave the same object either way.
ArrivalOrderIsIrrelevant ==
  \A r, s \in Requests :
    LET both == AllPut(sdv, <<r, s>>)
        reversed == AllPut(sdv, <<s, r>>)
    IN ( /\ both.end = "returned" /\ reversed.end = "returned"
         /\ Present(both.sdv) = Present(sdv) \cup {r.new, s.new}
         /\ Present(reversed.sdv) = Present(both.sdv)
         /\ both.sdv.rootParent = NoVersion )
       => reversed.sdv = both.sdv

-----------------------------------------------------------------------------
(* Refinement.                                                             *)

Claims(d) == [v \in Present(d) |-> Claimed(d, v)]
LimitsOf(d) == [versions |-> d.maxVersions, branches |-> d.maxBranches]
TheForest == INSTANCE VersionForest WITH
  claimed <- Claims(sdv),
  root <- sdv.root,
  limits <- LimitsOf(sdv),
  Incoming <- {[claimed |-> Claims(Built(o)), limits |-> o.limits] : o \in Others}

\* Seen as a map from each version to its parent, the object does what the
\* forest does: what is lost is the root, to keep within the limits, or the
\* branch that was deleted.
Forest == TheForest!Spec

-----------------------------------------------------------------------------
(* What the comments say and the code does not do.                         *)

\* structured_data_versions.cc:738-739 says that the orphans' parents need to
\* be reset to the end of the map they were swapped into.
OrphansEndHere ==
  \A p \in DOMAIN sdv.orphans : \A v \in sdv.orphans[p] :
    sdv.parent[v] = NoVersion

\* structured_data_versions.h:100 gives every public function the strong
\* exception guarantee: a call succeeds, or throws and changes nothing.
EveryCallIsDefined == defined
=============================================================================

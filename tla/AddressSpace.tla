---------------------------- MODULE AddressSpace -----------------------------
(***************************************************************************)
(* maidsafe::tools::Test (tools/address_space_tool.h, .cc): nodes join a   *)
(* network one after another, each refused while its address is too close  *)
(* to the group it would join, until bad nodes hold the majority of enough *)
(* separate close groups; then random chains of addresses are examined.    *)
(***************************************************************************)
EXTENDS Identity, FiniteSets, Sequences, Functions

CONSTANTS
  Ids, Targets,       \* addresses MakeIdentity may draw; the evenly spread ones, in order
  Hash,               \* the address after each, in a chain of linked ones
  Algorithms,         \* values of config_.algorithm
  InitialGood, GroupSize, MajoritySize, BadGroupCount, RandomAttempts, Leeway, GoodPerBad,
  RankSteps, MaxRank, \* what a rank may grow by, and its limit (10..29 and 100)
  Proximity,          \* the groups whose nodes make up a proximity (4)
  MaxNodes            \* bound: size of the network

\* nodes: from the address to [good, rank]; left: good nodes to add before the next bad
\* one; groups: the bad groups found last; attempts, compromised: chains examined.
VARIABLE space

Init ==
  \E algorithm \in Algorithms, id \in Ids :
    space = [algorithm |-> algorithm, stage |-> "adding", left |-> InitialGood - 1 + GoodPerBad,
             nodes |-> [n \in {id} |-> [good |-> TRUE, rank |-> 0]],
             groups |-> <<>>, attempts |-> 0, compromised |-> 0]

Nodes == DOMAIN space.nodes

CloseGroup(nodes, target, size) ==
  {n \in nodes : Cardinality({m \in nodes : CloserToTarget(m, n, target)}) < size}

\* One number for some common leading bits; Bits is the highest there can be.
Highest(set) == CHOOSE b \in set : \A c \in set : b >= c
Lowest(set) == CHOOSE b \in set : \A c \in set : b <= c
OneNumber(algorithm, bits) ==
  CASE algorithm = "kHighest" -> Highest(Range(bits) \cup {0})
    [] algorithm = "kLowest" -> Lowest(Range(bits) \cup {Bits})
    [] algorithm = "kMean" -> SumFunction(bits) \div Cardinality(DOMAIN bits)

Closest(group, id) == CHOOSE n \in group : \A m \in group \ {n} : CloserToTarget(n, m, id)

GroupCommonLeadingBits(group, id) ==
  LET pairs == {pair \in SUBSET group : Cardinality(pair) = 2}
      first == Closest(group, id)
  IN IF Cardinality(Nodes) = 1 THEN 0
     ELSE IF space.algorithm = "kClosest" THEN CommonLeadingBits(first, Closest(group \ {first}, id))
     ELSE OneNumber(space.algorithm,
            [pair \in pairs |-> LET a == CHOOSE n \in pair : TRUE
                                IN CommonLeadingBits(a, CHOOSE n \in pair \ {a} : TRUE)])

CandidateCommonLeadingBits(group, id) ==
  IF space.algorithm = "kClosest" THEN CommonLeadingBits(Closest(group, id), id)
  ELSE OneNumber(space.algorithm, [n \in group |-> CommonLeadingBits(n, id)])

\* The order of the nodes behind the group is not specified (std::partial_sort), so
\* any of them make up the proximity.
RankAllowed(nodes, group) ==
  LET Mean(set) == SumFunctionOnSet([n \in set |-> nodes[n].rank], set) \div Cardinality(set)
  IN {Mean(group) > Mean(group \cup rest) :
        rest \in {r \in SUBSET (DOMAIN nodes \ group) : Cardinality(r) = (Proximity - 1) * GroupSize}}

\* kClosest in a network of one node compares it with memory behind it: any result.
BitsAllow(group, id) ==
  CASE space.algorithm = "kNone" -> {TRUE}
    [] space.algorithm = "kClosest" /\ Cardinality(Nodes) = 1 -> BOOLEAN
    [] OTHER -> {CandidateCommonLeadingBits(group, id) < GroupCommonLeadingBits(group, id) + Leeway}

\* Faulty: the last group compared with decides.
DisjointFromLast(groups, new) == groups = <<>> \/ groups[Len(groups)][2] \cap new = {}
Disjoint(groups, new) == \A i \in 1..Len(groups) : groups[i][2] \cap new = {}

GetBadGroup(nodes, target) ==
  LET group == CloseGroup(DOMAIN nodes, target, GroupSize)
  IN IF Cardinality({n \in group : ~nodes[n].good}) >= MajoritySize THEN group ELSE {}

BadGroups(nodes) ==
  LET found[i \in 0..Len(Targets)] ==
        IF i = 0 THEN <<>>
        ELSE LET new == GetBadGroup(nodes, Targets[i])
             IN IF new # {} /\ Disjoint(found[i - 1], new)
                THEN Append(found[i - 1], <<Targets[i], new>>) ELSE found[i - 1]
  IN found[Len(Targets)]

\* UpdateRank of each node of the close group, by what is drawn for it.
Ranked(grow) ==
  [n \in Nodes |-> IF n \notin DOMAIN grow THEN space.nodes[n]
                   ELSE [space.nodes[n] EXCEPT !.rank = Lowest({@ + grow[n], MaxRank})]]

\* One attempt: the ranks of the close group grow whether or not the node is added.
AddNode(id) ==
  /\ space.stage = "adding" /\ id \notin Nodes /\ Cardinality(Nodes) < MaxNodes
  /\ LET group == CloseGroup(Nodes, id, GroupSize)
         good == space.left > 0
     IN \E grow \in [group -> RankSteps] :
          LET ranked == Ranked(grow)
              added == [n \in Nodes \cup {id} |->
                          IF n = id THEN [good |-> good, rank |-> 0] ELSE ranked[n]]
              bad == BadGroups(added)
          IN \E allowed \in BitsAllow(group, id), ranks \in
               IF Cardinality(Nodes) > Proximity * GroupSize THEN RankAllowed(ranked, group) ELSE {TRUE} :
               space' = IF ~(allowed /\ ranks) THEN [space EXCEPT !.nodes = ranked]
                        ELSE IF good THEN [space EXCEPT !.nodes = added, !.left = @ - 1]
                        ELSE IF Len(bad) < BadGroupCount
                        THEN [space EXCEPT !.nodes = added, !.left = GoodPerBad, !.groups = bad]
                        ELSE [space EXCEPT !.nodes = added, !.groups = bad, !.stage = "checking"]

\* CheckLinkedAddresses: one chain from an address drawn at random.
CheckLinked(id) ==
  /\ space.stage = "checking" /\ space.attempts < RandomAttempts
  /\ LET chain[i \in 1..BadGroupCount] == IF i = 1 THEN id ELSE Hash[chain[i - 1]]
         all == \A i \in 1..BadGroupCount : GetBadGroup(space.nodes, chain[i]) # {}
     IN space' = [space EXCEPT !.attempts = @ + 1, !.compromised = @ + IF all THEN 1 ELSE 0]

Next == \E id \in Ids : AddNode(id) \/ CheckLinked(id)

Spec == Init /\ [][Next]_space

-----------------------------------------------------------------------------
\* The bad groups that end the search are entirely separate close groups, the majority
\* of each bad (InjectBadGroups, GetBadGroup; address_space_tool.h:227).
BadGroupsAreSeparate ==
  space.stage = "checking" =>
  \A i \in 1..Len(space.groups) :
    LET group == space.groups[i][2]
    IN /\ group = CloseGroup(Nodes, space.groups[i][1], GroupSize)
       /\ Cardinality({n \in group : ~space.nodes[n].good}) >= MajoritySize
       /\ \A j \in 1..(i - 1) : group \cap space.groups[j][2] = {}
=============================================================================

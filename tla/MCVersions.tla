----------------------------- MODULE MCVersions -----------------------------
(***************************************************************************)
(* Small instances of StructuredDataVersions: two versions that could each *)
(* be the first, five that follow and fork, and what another node may hold.*)
(***************************************************************************)
EXTENDS VersionsProperties

Version(i, n) == [index |-> i, id |-> n]
a == Version(0, 1)
a2 == Version(0, 2)
b == Version(1, 1)
c == Version(2, 1)
d == Version(2, 2)
e == Version(3, 1)
f == Version(3, 2)
MCNames == {a, a2, b, c, d, e, f}

PutUnder(old, new) == [old |-> old, new |-> new]
InOrder == {PutUnder(NoVersion, a), PutUnder(a, b), PutUnder(b, c),
  PutUnder(b, d), PutUnder(c, e), PutUnder(d, f)}
\* As above, with another first version, other parents for most of them, and
\* one for b that closes a chain of three.
MCRequests == InOrder \cup
  {PutUnder(NoVersion, a2), PutUnder(NoVersion, b), PutUnder(a2, b),
   PutUnder(a, c), PutUnder(a2, d), PutUnder(e, b), PutUnder(c, f)}

\* Every version may be put under any other.
AnyParent ==
  {PutUnder(x, y) : x \in {NoVersion, a, b, c}, y \in {a, b, c}}
    \ {PutUnder(x, x) : x \in {a, b, c}}

Limit(v, n) == [versions |-> v, branches |-> n]
MCLimits == {Limit(4, 2), Limit(3, 3), Limit(2, 1), Limit(6, 3), Limit(1, 1)}
OneLimit == {Limit(6, 1)}
WideLimit == {Limit(6, 6)}

NoOthers == {}
MCOthers ==
  {[limits |-> Limit(5, 2),
    puts |-> <<PutUnder(c, e), PutUnder(NoVersion, a), PutUnder(a, b)>>],
   [limits |-> Limit(6, 3),
    puts |-> <<PutUnder(b, d), PutUnder(b, c)>>]}
=============================================================================

------------------------------ MODULE LruCache ------------------------------
(***************************************************************************)
(* maidsafe::LruCache (containers/lru_cache.h): a list of keys in order of *)
(* use and a map from key to the time of addition and the value, limited   *)
(* by number and by age.  The filter (ValueType void) has Add alone.       *)
(***************************************************************************)
EXTENDS Integers, SequencesExt

CONSTANTS
  CacheKeys, CacheValues,
  CacheLimits, \* the pairs [capacity, ttl] it is made with; ttl 0 is no limit
  MaxTime,     \* bound: the clock
  MaxUses      \* bound: additions and successful Gets

\* With a capacity of 0 the first Add would take from an empty list.
ASSUME CacheLimitsAssumption ==
  \A l \in CacheLimits : l.capacity \in Nat \ {0} /\ l.ttl \in Nat

\* order: key_order_; storage: storage_, by key; now: the steady clock;
\* uses: history of the keys added or found, the last use last.
VARIABLE cache

CacheInit ==
  \E l \in CacheLimits :
    cache = [capacity |-> l.capacity, ttl |-> l.ttl, order |-> <<>>,
             storage |-> <<>>, now |-> 0, uses |-> <<>>]

Stored(c) == DOMAIN c.storage

RemoveOldestElement(c) ==
  [c EXCEPT !.order = Tail(@), !.storage = Restrict(@, Stored(c) \ {Head(c.order)})]

Expired(c, k) == c.ttl # 0 /\ c.storage[k].time + c.ttl < c.now

Full(c) == Cardinality(Stored(c)) = c.capacity
WithRoom(c) == IF Full(c) THEN RemoveOldestElement(c) ELSE c

\* Entries go from the front while the front one has expired.
Pruned(c) ==
  LET fresh == {i \in DOMAIN c.order : ~Expired(c, c.order[i])}
      first == IF fresh = {} THEN Len(c.order) + 1 ELSE Min(fresh)
      order == SubSeq(c.order, first, Len(c.order))
  IN [c EXCEPT !.order = order, !.storage = Restrict(@, ToSet(order))]

With(storage, k, entry) ==
  [x \in DOMAIN storage \cup {k} |-> IF x = k THEN entry ELSE storage[x]]
Add(k, v) ==
  /\ Len(cache.uses) < MaxUses
  /\ k \notin Stored(cache)
  /\ LET c == Pruned(WithRoom(cache))
         entry == [time |-> c.now, value |-> v]
     IN cache' = [c EXCEPT !.order = Append(@, k), !.storage = With(@, k, entry),
                           !.uses = Append(@, k)]

\* Faulty: leaves the entry where it is in the list.
NotSpliced(order, k) == order
\* Where the iterator kept with k points.
PositionOf(order, k) == CHOOSE i \in DOMAIN order : order[i] = k
Unlinked(order, k) == RemoveAt(order, PositionOf(order, k))
Spliced(order, k) == Append(Unlinked(order, k), k)
Get(k) ==
  /\ Len(cache.uses) < MaxUses
  /\ k \in Stored(cache)
  /\ cache' = [cache EXCEPT !.order = Spliced(@, k), !.uses = Append(@, k)]

Delete(k) ==
  /\ k \in Stored(cache)
  /\ cache' = RemoveOldestElement([cache EXCEPT !.order = <<k>> \o Unlinked(@, k)])

Tick == cache.now < MaxTime /\ cache' = [cache EXCEPT !.now = @ + 1]

CacheNext ==
  \/ \E k \in CacheKeys, v \in CacheValues : Add(k, v)
  \/ \E k \in CacheKeys : Get(k)
  \/ \E k \in CacheKeys : Delete(k)
  \/ Tick

CacheSpec == CacheInit /\ [][CacheNext]_cache

-----------------------------------------------------------------------------
LastUse(c, k) == Max({i \in DOMAIN c.uses : c.uses[i] = k})

\* The list and the map hold the same keys, each once and no more than the limit,
\* and the list is in the order of last use (PrepareToAdd, Get, Delete).
ListAndMapAgree ==
  /\ ToSet(cache.order) = Stored(cache)
  /\ Len(cache.order) = Cardinality(Stored(cache))
  /\ Cardinality(Stored(cache)) <= cache.capacity
  /\ \A i, j \in DOMAIN cache.order :
       i < j => LastUse(cache, cache.order[i]) < LastUse(cache, cache.order[j])

\* What Add throws out is used longer ago than all it keeps, and is either too old
\* or the one entry that has to make room (RemoveOldestElement, CheckTimeExpired).
ThrowsOutTheOldest ==
  LET gone == Stored(cache) \ Stored(cache')
      added == Len(cache'.uses) > Len(cache.uses)
  IN added =>
       /\ \A k \in gone, kept \in Stored(cache) \ gone : LastUse(cache, k) < LastUse(cache, kept)
       /\ \A k \in gone :
            \/ cache.ttl # 0 /\ cache.now - cache.storage[k].time > cache.ttl
            \/ Cardinality(Stored(cache)) = cache.capacity /\ k = Head(cache.order)

\* lru_cache.h: whatever is called, the order of use decides what goes to make room or for
\* its age and what stays, and the list and the map go on agreeing.
EvictsByUse == [][ThrowsOutTheOldest /\ ListAndMapAgree']_cache
=============================================================================

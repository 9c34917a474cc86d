----------------------------- MODULE LockedPages ------------------------------
(***************************************************************************)
(* LockedPageManagerBase and safe_allocator (authentication/detail/        *)
(* safe_allocators.h): pages with secrets in them are locked into memory.  *)
(* The system's locks do not stack, so a page has a count of the           *)
(* allocations on it.  Threads allocate and free at the same time.         *)
(***************************************************************************)
EXTENDS Integers, FiniteSets

CONSTANTS Threads, PageSize, MemorySize, MaxSize

ASSUME ThreadsAssumption == IsFiniteSet(Threads)
ASSUME SizesAssumption == PageSize \in Nat \ {0} /\ MemorySize \in Nat /\ MaxSize \in Nat

\* histogram: page numbers with their counts; locked: by the system; failed: pages whose
\* lock failed, which nobody looks at; memory: by thread [stage, at, size].
VARIABLE pages

Free == [stage |-> "free", at |-> 0, size |-> 0]

PagesInit == pages = [histogram |-> [p \in {} |-> 0], locked |-> {}, failed |-> {},
                 memory |-> [t \in Threads |-> Free]]

IsAt(t, stage) == pages.memory[t].stage = stage
BytesOf(m) == m.at..(m.at + m.size - 1)
PagesOf(m) == IF m.size = 0 THEN {} ELSE (m.at \div PageSize)..((m.at + m.size - 1) \div PageSize)

Allocate(t, at, size) ==
  /\ IsAt(t, "free") /\ at + size <= MemorySize
  /\ LET m == [stage |-> "allocated", at |-> at, size |-> size]
     IN /\ \A u \in Threads : pages.memory[u].stage # "free" => BytesOf(m) \cap BytesOf(pages.memory[u]) = {}
        /\ pages' = [pages EXCEPT !.memory[t] = m]

\* Under the mutex; then the owner writes its secret.
LockRange(t) ==
  /\ IsAt(t, "allocated")
  /\ LET range == PagesOf(pages.memory[t])
         new == range \ DOMAIN pages.histogram
     IN \E failed \in SUBSET new :
          pages' = [pages EXCEPT
            !.memory[t].stage = "secret", !.locked = @ \cup (new \ failed), !.failed = @ \cup failed,
            !.histogram = [p \in DOMAIN @ \cup range |->
                             IF p \in new THEN 1 ELSE IF p \in range THEN @[p] + 1 ELSE @[p]]]

Wipe(t) == IsAt(t, "secret") /\ pages' = [pages EXCEPT !.memory[t].stage = "wiped"]

\* Faulty: the first to leave a page unlocks it.
AnyOn(range) == range
LastOn(range) == {p \in range : pages.histogram[p] = 1}
UnlockRange(t) ==
  /\ IsAt(t, "wiped")
  /\ LET range == PagesOf(pages.memory[t])
         last == LastOn(range)
     IN pages' = [pages EXCEPT
          !.memory[t].stage = "unlocked", !.locked = @ \ last, !.failed = @ \ last,
          !.histogram = [p \in DOMAIN @ \ last |-> IF p \in range THEN @[p] - 1 ELSE @[p]]]

Deallocate(t) == IsAt(t, "unlocked") /\ pages' = [pages EXCEPT !.memory[t] = Free]

PagesNext ==
  \E t \in Threads :
    \/ \E at \in 0..(MemorySize - 1), size \in 0..MaxSize : Allocate(t, at, size)
    \/ LockRange(t) \/ Wipe(t) \/ UnlockRange(t) \/ Deallocate(t)

PagesSpec == PagesInit /\ [][PagesNext]_pages

-----------------------------------------------------------------------------
\* While a secret is in memory each byte of it is on a locked page, unless the system
\* refused the lock, whoever frees memory next to it; and nothing else stays locked
\* (LockRange, UnlockRange).
SecretsAreLocked ==
  LET Held(stages) == UNION {{b \div PageSize : b \in BytesOf(pages.memory[t])} :
                               t \in {u \in Threads : pages.memory[u].stage \in stages}}
  IN /\ Held({"secret", "wiped"}) = pages.locked \cup pages.failed
     /\ pages.locked \cup pages.failed = DOMAIN pages.histogram
=============================================================================

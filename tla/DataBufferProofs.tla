-------------------------- MODULE DataBufferProofs --------------------------
(***************************************************************************)
(* Proofs about DataBuffer, for every choice of its constants.             *)
(*                                                                         *)
(* TypeCorrect: TypeOK is inductive because it says, beside the type of    *)
(* every variable, which operation a thread at each label is performing    *)
(* (OpsAt): without that, a call would not be known to have the field that *)
(* the next step reads.  MutexesExclude: MutualExclusion is inductive      *)
(* relative to TypeOK; the Owned lemmas reduce a step to the label the     *)
(* thread goes to and the owners before and after.                         *)
(*                                                                         *)
(* EvictionLosesNothing: a value that is not on disk is never evicted, for *)
(* keys that are stored once.  A key that was neither popped nor deleted   *)
(* goes one way only: through the call of its Store, the memory index, the *)
(* hands of the worker, the disk index and the directory (OneWay).  Each   *)
(* action moves one key one step on; KeptWay covers all the other keys.    *)
(*                                                                         *)
(* DeadWorkerIsNoticed: whatever ends the worker of a buffer without a pop *)
(* functor clears running_ (DeadIsStopped), which the next call reads.     *)
(*                                                                         *)
(* ImplementsContract: DataBuffer implements BufferContract.  Deletes,     *)
(* pops, failures and stops may come at any point, so the invariant of     *)
(* EvictionLosesNothing is not enough: AllCoherent says what is left of it *)
(* whatever becomes of a key.  Served says what each step makes a Get find *)
(* of each key, in the terms of the contract; the ...Serves lemmas show it *)
(* action by action, most of them through Thins (a step that takes away)   *)
(* and Unmoved (one that a Get does not notice).                           *)
(*                                                                         *)
(* HeldIsFound and DeletedIsGone: a key that was held when a Get or a      *)
(* Delete of it was called is Past from then on (nobody will put it into   *)
(* memory again), so once the call has left the memory index behind, where *)
(* it did not find the key or removed it, the key is on disk or nowhere    *)
(* (DueOK).                                                                *)
(***************************************************************************)
EXTENDS DataBufferProperties, SequenceTheorems, WellFoundedInduction, TLAPS

\* A nonempty set of naturals has a least element, which Min chooses.
LEMMA LeastOf ==
  ASSUME NEW N \in SUBSET Nat, N # {}
  PROVE  \E m \in N : \A n \in N : m <= n
PROOF
  <1> DEFINE R == OpToRel(<, Nat)
  <1>1. IsWellFoundedOn(R, Nat)
    BY NatLessThanWellFounded
  <1>2. \A x, y \in Nat : y < x => <<y, x>> \in R
    BY DEF OpToRel
  <1> HIDE DEF R
  <1>3. PICK m \in N : \A n \in N : ~(<<n, m>> \in R)
    BY <1>1, WFMin
  <1>4. ASSUME NEW n \in N PROVE m <= n
    <2>1. m \in Nat /\ n \in Nat
      OBVIOUS
    <2>2. ~(n < m)
      BY <1>2, <1>3, <2>1
    <2> QED BY <2>1, <2>2
  <1> QED BY <1>4

LEMMA LeastExists ==
  ASSUME NEW I \in SUBSET Nat, I # {}
  PROVE  Min(I) \in I
BY LeastOf DEF Min

\* What SelectInSeq returns: 0, or a position of the index.
LEMMA LeastOrZero ==
  ASSUME NEW n \in Nat, NEW I \in SUBSET (1 .. n)
  PROVE  LET r == IF I # {} THEN Min(I) ELSE 0
         IN  r \in 0 .. n /\ (r # 0 => r \in I)
PROOF
  <1>1. CASE I = {}
    BY <1>1
  <1>2. CASE I # {}
    <2>1. Min(I) \in I
      BY <1>2, LeastExists
    <2> DEFINE m == Min(I)
    <2> HIDE DEF m
    <2>2. m \in 0 .. n
      <3>1. m \in I
        BY <2>1 DEF m
      <3> QED BY <3>1
    <2> QED BY <2>1, <2>2, <1>2 DEF m
  <1> QED BY <1>1, <1>2

\* Find returns 0 or the position of an element with the key.
LEMMA FindResult ==
  ASSUME NEW E, NEW index \in Seq(E), NEW k
  PROVE  /\ Find(index, k) \in 0 .. Len(index)
         /\ Find(index, k) # 0 => index[Find(index, k)].key = k
PROOF
  <1> DEFINE I == {i \in 1 .. Len(index) : index[i].key = k}
  <1>1. Find(index, k) = IF I # {} THEN Min(I) ELSE 0
    BY DEF Find, SelectInSeq
  <1>2. Len(index) \in Nat /\ I \in SUBSET (1 .. Len(index))
    OBVIOUS
  <1> QED BY <1>1, <1>2, LeastOrZero

\* The other searches return 0 or a position, too.
LEMMA SearchResults ==
  ASSUME StoresOK
  PROVE  /\ FindOldestInMemoryOnly \in 0 .. Len(mem.index)
         /\ FindMemoryRemovalCandidate \in 0 .. Len(mem.index)
         /\ \A k : FindStartedToStoreOnDisk(k) \in 0 .. Len(disk.index)
PROOF
  <1>1. Len(mem.index) \in Nat /\ Len(disk.index) \in Nat
    BY DEF StoresOK, Storage
  <1>2. FindOldestInMemoryOnly \in 0 .. Len(mem.index)
    <2> DEFINE I == {i \in 1 .. Len(mem.index) : mem.index[i].state = "notStarted"}
    <2>1. FindOldestInMemoryOnly = IF I # {} THEN Min(I) ELSE 0
      BY DEF FindOldestInMemoryOnly, SelectInSeq
    <2>2. I \in SUBSET (1 .. Len(mem.index))
      OBVIOUS
    <2> HIDE DEF I
    <2> QED BY <1>1, <2>1, <2>2, LeastOrZero
  <1>3. FindMemoryRemovalCandidate \in 0 .. Len(mem.index)
    <2> DEFINE I == {i \in 1 .. Len(mem.index) : mem.index[i].state = "completed"}
    <2>1. FindMemoryRemovalCandidate = IF I # {} THEN Min(I) ELSE 0
      BY DEF FindMemoryRemovalCandidate, SelectInSeq
    <2>2. I \in SUBSET (1 .. Len(mem.index))
      OBVIOUS
    <2> HIDE DEF I
    <2> QED BY <1>1, <2>1, <2>2, LeastOrZero
  <1>4. ASSUME NEW k PROVE FindStartedToStoreOnDisk(k) \in 0 .. Len(disk.index)
    <2> DEFINE I == {i \in 1 .. Len(disk.index) :
                       disk.index[i].state = "started" /\ disk.index[i].key = k}
    <2>1. FindStartedToStoreOnDisk(k) = IF I # {} THEN Min(I) ELSE 0
      BY DEF FindStartedToStoreOnDisk, SelectInSeq
    <2>2. I \in SUBSET (1 .. Len(disk.index))
      OBVIOUS
    <2> HIDE DEF I
    <2> QED BY <1>1, <2>1, <2>2, LeastOrZero
  <1> QED BY <1>2, <1>3, <1>4

\* The search of Delete(predicate) returns 0 or a position.
LEMMA FindAnyOfResult ==
  ASSUME NEW E, NEW index \in Seq(E), NEW keys
  PROVE  FindAnyOf(index, keys) \in 0 .. Len(index)
PROOF
  <1> DEFINE I == {i \in 1 .. Len(index) : index[i].key \in keys}
  <1>1. FindAnyOf(index, keys) = IF I # {} THEN Min(I) ELSE 0
    BY DEF FindAnyOf, SelectInSeq
  <1>2. Len(index) \in Nat /\ I \in SUBSET (1 .. Len(index))
    OBVIOUS
  <1> HIDE DEF I
  <1> QED BY <1>1, <1>2, LeastOrZero

\* Removing an element of an index leaves an index.
LEMMA RemoveAtType ==
  ASSUME NEW E, NEW s \in Seq(E), NEW i \in 1 .. Len(s)
  PROVE  RemoveAt(s, i) \in Seq(E)
BY DEF RemoveAt

-----------------------------------------------------------------------------
(* Changes to a store keep its type.                                       *)

\* Locking, unlocking, notifying and waiting leave a Storage.
LEMMA MutexType ==
  ASSUME NEW E, NEW store \in Storage(E), NEW t \in Threads
  PROVE  /\ Locked(store, t) \in Storage(E)
         /\ Unlocked(store) \in Storage(E)
         /\ Notified(store) \in Storage(E)
         /\ Waiting(store, t) \in Storage(E)
BY DEF Storage, Locked, Unlocked, Notified, Waiting

\* So does changing the state of one of its elements.
LEMMA MarkedType ==
  ASSUME NEW E, E \in {MemElements, DiskElements}, NEW store \in Storage(E),
         NEW i \in 0 .. Len(store.index), NEW state \in States
  PROVE  Marked(store, i, state) \in Storage(E)
PROOF
  <1>1. CASE i = 0
    BY <1>1 DEF Marked
  <1>2. CASE i # 0
    <2>1. store.index \in Seq(E) /\ store.index[i] \in E
      BY <1>2 DEF Storage
    <2> DEFINE e == [store.index[i] EXCEPT !.state = state]
    <2>2. e \in E
      <3>1. CASE E = MemElements
        BY <2>1, <3>1 DEF MemElements
      <3>2. CASE E = DiskElements
        BY <2>1, <3>2 DEF DiskElements
      <3> QED BY <3>1, <3>2
    <2>3. [store.index EXCEPT ![i] = e] \in Seq(E)
      BY <2>1, <2>2, <1>2
    <2> QED BY <2>3, <1>2 DEF Storage, Marked
  <1> QED BY <1>1, <1>2

\* Erasing an element of the memory index leaves a Storage.
LEMMA ErasedType ==
  ASSUME StoresOK, NEW i \in 1 .. Len(mem.index)
  PROVE  Erased(i) \in Storage(MemElements)
PROOF
  <1>1. mem.index \in Seq(MemElements) /\ mem.index[i] \in MemElements
    BY DEF StoresOK, Storage
  <1>2. Size[mem.index[i].value] \in Int
    BY <1>1, DataAssumption DEF MemElements
  <1>3. RemoveAt(mem.index, i) \in Seq(MemElements)
    BY <1>1, RemoveAtType
  <1> DEFINE current == mem.current - Size[mem.index[i].value]
             index == RemoveAt(mem.index, i)
  <1>4. current \in Int
    BY <1>2 DEF StoresOK, Storage
  <1>5. Erased(i) = [mem EXCEPT !.current = current, !.index = index]
    BY DEF Erased
  <1> HIDE DEF current
  <1> QED BY <1>3, <1>4, <1>5 DEF StoresOK, Storage

\* So does erasing an element of the disk index with its file.
LEMMA WithoutFileType ==
  ASSUME StoresOK, DirectoryOK, NEW i \in 1 .. Len(disk.index),
         files[disk.index[i].key] # NoValue
  PROVE  WithoutFile(i) \in Storage(DiskElements)
PROOF
  <1>1. disk.index \in Seq(DiskElements) /\ disk.index[i] \in DiskElements
    BY DEF StoresOK, Storage
  <1>2. files[disk.index[i].key] \in Values
    BY <1>1 DEF DirectoryOK, DiskElements
  <1>3. Size[files[disk.index[i].key]] \in Int
    BY <1>2, DataAssumption
  <1>4. RemoveAt(disk.index, i) \in Seq(DiskElements)
    BY <1>1, RemoveAtType
  <1> DEFINE current == disk.current - Size[files[disk.index[i].key]]
             index == RemoveAt(disk.index, i)
  <1>5. current \in Int
    BY <1>3 DEF StoresOK, Storage
  <1>6. WithoutFile(i) = [disk EXCEPT !.current = current, !.index = index]
    BY DEF WithoutFile
  <1> HIDE DEF current
  <1> QED BY <1>4, <1>5, <1>6 DEF StoresOK, Storage

-----------------------------------------------------------------------------
(* Threads and their calls.                                                *)

\* A call carries what its operation needs.
LEMMA CallShape ==
  ASSUME ThreadsOK, NEW t \in Threads
  PROVE  /\ call[t] \in Calls
         /\ call[t].op \in {"Store", "Copy"} =>
              /\ call[t].key \in Keys /\ call[t].value \in Values
              /\ Required(t) \in Nat
         /\ call[t].op \in {"Get", "Delete"} => call[t].key \in Keys
         /\ call[t].op \in {"SetMaxMemoryUsage", "SetMaxDiskUsage"} =>
              call[t].limit \in Nat
         /\ t # Worker => t \in Clients
PROOF
  <1>1. call[t] \in Calls /\ (t # Worker => t \in Clients)
    BY DEF ThreadsOK, Threads
  <1>2. call[t].op \in {"Store", "Copy"} =>
          call[t].key \in Keys /\ call[t].value \in Values
    BY <1>1 DEF Calls, AllCalls, StoreCalls, KeyCalls, DeleteIfCalls,
                SetMaxCalls, CopyCalls, NoCall
  <1>3. call[t].op \in {"Get", "Delete"} => call[t].key \in Keys
    BY <1>1 DEF Calls, AllCalls, StoreCalls, KeyCalls, DeleteIfCalls,
                SetMaxCalls, CopyCalls, NoCall
  <1>4. call[t].op \in {"SetMaxMemoryUsage", "SetMaxDiskUsage"} =>
          call[t].limit \in Nat
    BY <1>1 DEF Calls, AllCalls, StoreCalls, KeyCalls, DeleteIfCalls,
                SetMaxCalls, CopyCalls, NoCall
  <1>5. call[t].value \in Values => Required(t) \in Nat
    BY DataAssumption DEF Required
  <1> QED BY <1>1, <1>2, <1>3, <1>4, <1>5

\* A step that only moves a thread within its operation keeps ThreadsOK.
LEMMA GotoOK ==
  ASSUME ThreadsOK, NEW t \in Threads, NEW label \in LabelsOf(t),
         call[t].op \in OpsAt(t, label), Goto(t, label)
  PROVE  ThreadsOK'
PROOF
  <1>1. pc' = [pc EXCEPT ![t] = label] /\ UNCHANGED <<call, outcome, due>>
    BY DEF Goto
  <1>2. label \in WorkerLabels \cup ClientLabels
    BY DEF LabelsOf
  <1>3. ASSUME NEW u \in Threads
        PROVE  pc'[u] \in LabelsOf(u) /\ call'[u].op \in OpsAt(u, pc'[u])
    BY <1>1 DEF ThreadsOK
  <1> QED BY <1>1, <1>2, <1>3 DEF ThreadsOK

\* Returning from a call keeps ThreadsOK.
LEMMA ReturnOK ==
  ASSUME ThreadsOK, NEW t \in Clients,
         NEW result \in {"none", "done", "threw"} \cup Values,
         Return(t, result)
  PROVE  ThreadsOK'
PROOF
  <1>1. /\ pc' = [pc EXCEPT ![t] = "idle"]
        /\ call' = [call EXCEPT ![t] = NoCall]
        /\ outcome' = [outcome EXCEPT ![t] = result]
        /\ due' = [due EXCEPT ![t] = NoValue]
    BY DEF Return
  <1>2. t \in Threads /\ t # Worker
    BY ThreadsAssumption DEF Threads
  <1>3. NoCall \in Calls /\ "idle" \in LabelsOf(t)
        /\ NoCall.op \in OpsAt(t, "idle")
    BY <1>2 DEF Calls, NoCall, LabelsOf, ClientLabels, OpsAt, StoreOnDiskLabels
  <1>4. ASSUME NEW u \in Threads
        PROVE  pc'[u] \in LabelsOf(u) /\ call'[u].op \in OpsAt(u, pc'[u])
    BY <1>1, <1>3 DEF ThreadsOK
  <1>5. pc' \in [Threads -> WorkerLabels \cup ClientLabels]
    BY <1>1 DEF ThreadsOK, ClientLabels
  <1> QED BY <1>1, <1>3, <1>4, <1>5 DEF ThreadsOK

\* So does an exception out of a Get, a Delete or a Store's Delete.
LEMMA ThrowOK ==
  ASSUME ThreadsOK, NEW t \in Clients, Throw(t)
  PROVE  ThreadsOK'
PROOF
  <1>1. t \in Threads /\ t # Worker
    BY ThreadsAssumption DEF Threads
  <1>2. CASE Goto(t, "recheck") /\ call[t].op = "Store"
    <2>1. "recheck" \in LabelsOf(t) /\ call[t].op \in OpsAt(t, "recheck")
      BY <1>1, <1>2 DEF LabelsOf, ClientLabels, OpsAt
    <2> QED BY <1>1, <1>2, <2>1, GotoOK
  <1>3. CASE Return(t, "threw")
    BY <1>3, ReturnOK
  <1> QED BY <1>2, <1>3 DEF Throw

\* So does the end of a Delete, whether or not Store made it.
LEMMA AfterDeleteOK ==
  ASSUME ThreadsOK, NEW t \in Clients, AfterDelete(t)
  PROVE  ThreadsOK'
PROOF
  <1>1. t \in Threads /\ t # Worker
    BY ThreadsAssumption DEF Threads
  <1>2. CASE Goto(t, "recheck") /\ call[t].op = "Store"
    <2>1. "recheck" \in LabelsOf(t) /\ call[t].op \in OpsAt(t, "recheck")
      BY <1>1, <1>2 DEF LabelsOf, ClientLabels, OpsAt
    <2> QED BY <1>1, <1>2, <2>1, GotoOK
  <1>3. CASE Return(t, "done")
    BY <1>3, ReturnOK
  <1> QED BY <1>2, <1>3 DEF AfterDelete

\* What OpsAt says of a thread storing on disk.
LEMMA StoringOnDisk ==
  ASSUME ThreadsOK, NEW t \in Threads, pc[t] \in StoreOnDiskLabels
  PROVE  /\ call[t].op = IF t = Worker THEN "Copy" ELSE "Store"
         /\ call[t].key \in Keys /\ call[t].value \in Values
         /\ Required(t) \in Nat
         /\ \A label \in StoreOnDiskLabels :
              label \in LabelsOf(t) /\ call[t].op \in OpsAt(t, label)
PROOF
  <1>1. call[t].op \in OpsAt(t, pc[t])
    BY DEF ThreadsOK
  <1>2. \A label \in StoreOnDiskLabels :
          OpsAt(t, label) = IF t = Worker THEN {"Copy"} ELSE {"Store"}
    BY DEF OpsAt, StoreOnDiskLabels
  <1>3. \A label \in StoreOnDiskLabels : label \in LabelsOf(t)
    BY DEF LabelsOf, WorkerLabels, ClientLabels
  <1> QED BY <1>1, <1>2, <1>3, CallShape

\* So does the end of StoreOnDisk, for a client and for the worker.
LEMMA AfterStoreOnDiskOK ==
  ASSUME ThreadsOK, NEW t \in Threads, pc[t] \in StoreOnDiskLabels,
         AfterStoreOnDisk(t)
  PROVE  ThreadsOK'
PROOF
  <1>1. CASE t = Worker
    <2>1. /\ "relockMemory" \in LabelsOf(t)
          /\ call[t].op \in OpsAt(t, "relockMemory")
      BY <1>1, StoringOnDisk DEF LabelsOf, WorkerLabels, OpsAt, StoreOnDiskLabels
    <2> QED BY <1>1, <2>1, GotoOK DEF AfterStoreOnDisk
  <1>2. CASE t # Worker
    BY <1>2, ReturnOK DEF AfterStoreOnDisk, Threads
  <1> QED BY <1>1, <1>2

\* So does an exception out of StoreOnDisk, which may end the worker.
LEMMA ThrowFromStoreOnDiskOK ==
  ASSUME ThreadsOK, NEW t \in Threads, ThrowFromStoreOnDisk(t)
  PROVE  ThreadsOK' /\ future' \in {future, "threw"}
PROOF
  <1>1. CASE t = Worker
    <2>1. /\ pc' = [pc EXCEPT ![t] = "exited"]
          /\ call' = [call EXCEPT ![t] = NoCall]
          /\ future' = "threw"
          /\ UNCHANGED <<outcome, due>>
      BY <1>1 DEF ThrowFromStoreOnDisk
    <2>2. /\ NoCall \in Calls /\ "exited" \in LabelsOf(t)
          /\ "exited" \in WorkerLabels
          /\ NoCall.op \in OpsAt(t, "exited")
      BY <1>1 DEF Calls, NoCall, LabelsOf, WorkerLabels, OpsAt,
                  StoreOnDiskLabels
    <2>3. ASSUME NEW u \in Threads
          PROVE  pc'[u] \in LabelsOf(u) /\ call'[u].op \in OpsAt(u, pc'[u])
      BY <2>1, <2>2 DEF ThreadsOK
    <2> QED BY <2>1, <2>2, <2>3 DEF ThreadsOK
  <1>2. CASE t # Worker
    BY <1>2, ReturnOK DEF ThrowFromStoreOnDisk, Threads
  <1> QED BY <1>1, <1>2

\* What the buffer holds for a key is one of its values or NoValue.
LEMMA HeldType ==
  ASSUME StoresOK, DirectoryOK, ThreadsOK, NEW k \in Keys
  PROVE  Held(k) \in Values \cup {NoValue}
PROOF
  <1> DEFINE i == Find(mem.index, k)
             j == Find(disk.index, k)
  <1>1. i # 0 => mem.index[i].value \in Values
    <2>1. mem.index \in Seq(MemElements)
      BY DEF StoresOK, Storage
    <2>2. i \in 0 .. Len(mem.index)
      BY <2>1, FindResult
    <2>3. i # 0 => mem.index[i] \in MemElements
      BY <2>1, <2>2
    <2> QED BY <2>3 DEF MemElements
  <1>2. files[k] \in Values \cup {NoValue}
    BY DEF DirectoryOK
  <1>3. Storing(k) # {} => call[CHOOSE t \in Storing(k) : TRUE].value \in Values
    <2>1. ASSUME NEW t \in Storing(k) PROVE call[t].value \in Values
      <3>1. t \in Threads /\ pc[t] \in StoreOnDiskLabels
        BY DEF Storing, StoreOnDiskLabels
      <3> QED BY <3>1, StoringOnDisk
    <2> QED BY <2>1
  <1> QED BY <1>1, <1>2, <1>3 DEF Held

-----------------------------------------------------------------------------
(* Every step keeps the types.                                             *)

\* OpsAt, label by label, for a client.
LEMMA ClientAt ==
  ASSUME ThreadsOK, NEW t \in Clients
  PROVE  /\ t \in Threads /\ t # Worker
         /\ call[t].op \in OpsAt(t, pc[t])
         /\ \A label \in ClientLabels : label \in LabelsOf(t)
         /\ \A label \in StoreOnDiskLabels \cup
              {"recheck", "lockMemory", "spaceInMemory", "joinWorker",
               "waitOnMemory", "waitingOnMemory"} : OpsAt(t, label) = {"Store"}
         /\ OpsAt(t, "check") = {"Store", "Get", "Delete", "DeleteIf"}
         /\ \A label \in {"deleteFromMemory", "deleteFromDisk"} :
              OpsAt(t, label) = {"Store", "Delete"}
         /\ \A label \in {"deleteIfFromMemory", "deleteIfFromDisk"} :
              OpsAt(t, label) = {"DeleteIf"}
         /\ \A label \in {"getFromMemory", "getFromDisk", "waitingToGet"} :
              OpsAt(t, label) = {"Get"}
         /\ \A label \in {"checkDiskMax", "setMemMax"} :
              OpsAt(t, label) = {"SetMaxMemoryUsage"}
         /\ \A label \in {"checkMemMax", "setDiskMax"} :
              OpsAt(t, label) = {"SetMaxDiskUsage"}
PROOF
  <1>1. t \in Threads /\ t # Worker
    BY ThreadsAssumption DEF Threads
  <1>2. call[t].op \in OpsAt(t, pc[t])
    BY <1>1 DEF ThreadsOK
  <1> QED BY <1>1, <1>2 DEF LabelsOf, OpsAt, StoreOnDiskLabels

\* Inserting the value being stored leaves a Storage.
LEMMA InsertedType ==
  ASSUME StoresOK, ThreadsOK, NEW t \in Clients, pc[t] = "spaceInMemory"
  PROVE  Inserted(t) \in Storage(MemElements)
PROOF
  <1>1. call[t].key \in Keys /\ call[t].value \in Values /\ Required(t) \in Nat
    BY ClientAt, CallShape
  <1> DEFINE e == [key |-> call[t].key, value |-> call[t].value,
                   state |-> "notStarted"]
             current == mem.current + Required(t)
             index == Append(mem.index, e)
  <1>2. e \in MemElements
    BY <1>1 DEF MemElements, States
  <1>3. current \in Int /\ index \in Seq(MemElements)
    BY <1>1, <1>2 DEF StoresOK, Storage
  <1>4. Inserted(t) = [mem EXCEPT !.current = current, !.index = index]
    BY DEF Inserted
  <1> HIDE DEF current, index
  <1> QED BY <1>3, <1>4 DEF StoresOK, Storage

\* Beginning a call keeps TypeOK.
LEMMA CallType ==
  ASSUME TypeOK, NEW t \in Clients, NEW c \in Requests, Call(t, c)
  PROVE  TypeOK'
PROOF
  <1>1. c \in AllCalls /\ t \in Threads /\ t # Worker
    BY EnvironmentAssumption, ThreadsAssumption DEF Threads
  <1>2. /\ c.op \in {"Store", "Get", "Delete"} => c.key \in Keys
        /\ c.op = "DeleteIf" => c.keys \subseteq Keys
        /\ c.op \in {"Store", "Get", "Delete", "DeleteIf",
                     "SetMaxMemoryUsage", "SetMaxDiskUsage"}
    BY <1>1 DEF AllCalls, StoreCalls, KeyCalls, DeleteIfCalls, SetMaxCalls
  <1>3. ThreadsOK'
    <2>1. /\ FirstLabel(c) \in ClientLabels /\ FirstLabel(c) \in LabelsOf(t)
          /\ c.op \in OpsAt(t, FirstLabel(c))
      BY <1>1, <1>2 DEF FirstLabel, ClientLabels, LabelsOf, OpsAt,
                        StoreOnDiskLabels
    <2>2. /\ pc' = [pc EXCEPT ![t] = FirstLabel(c)]
          /\ call' = [call EXCEPT ![t] = c]
      BY DEF Call
    <2>3. ASSUME NEW u \in Threads
          PROVE  pc'[u] \in LabelsOf(u) /\ call'[u].op \in OpsAt(u, pc'[u])
      BY <2>1, <2>2 DEF TypeOK, ThreadsOK
    <2>4. call' \in [Threads -> Calls]
      BY <1>1, <2>2 DEF TypeOK, ThreadsOK, Calls
    <2>5. pc' \in [Threads -> WorkerLabels \cup ClientLabels]
      BY <2>1, <2>2 DEF TypeOK, ThreadsOK
    <2>6. outcome' \in [Clients -> {"none", "done", "threw"} \cup Values]
      BY DEF Call, TypeOK, ThreadsOK
    <2>7. due' \in [Clients -> Values \cup {NoValue}]
      BY <1>2, HeldType DEF Call, TypeOK, ThreadsOK
    <2> QED BY <2>3, <2>4, <2>5, <2>6, <2>7 DEF ThreadsOK
  <1>4. ClientsOK'
    <2>1. used' \subseteq Keys
      BY <1>2 DEF Call, TypeOK, ClientsOK
    <2>2. condemned' \subseteq Keys
      BY <1>2 DEF Call, TypeOK, ClientsOK
    <2>3. callsLeft' \in [Clients -> Nat]
      BY DEF Call, TypeOK, ClientsOK
    <2> QED BY <2>1, <2>2, <2>3 DEF Call, TypeOK, ClientsOK
  <1>5. StoresOK' /\ DirectoryOK' /\ WorkerOK'
    BY DEF Call, TypeOK, StoresOK, DirectoryOK, directory, WorkerOK, workerVars
  <1> QED BY <1>3, <1>4, <1>5 DEF TypeOK

\* Steps that only move a thread.
LEMMA OnlyThreads ==
  ASSUME TypeOK, ThreadsOK',
         UNCHANGED <<mem, disk, directory, workerVars, clientVars>>
  PROVE  TypeOK'
BY DEF TypeOK, StoresOK, DirectoryOK, directory, WorkerOK, workerVars,
       ClientsOK, clientVars

\* Steps that move a thread and change the stores.
LEMMA OnlyStores ==
  ASSUME TypeOK, ThreadsOK', StoresOK',
         UNCHANGED <<directory, workerVars, clientVars>>
  PROVE  TypeOK'
BY DEF TypeOK, DirectoryOK, directory, WorkerOK, workerVars, ClientsOK,
       clientVars

\* The steps of Store that concern memory keep TypeOK.
LEMMA StoreType ==
  ASSUME TypeOK, NEW t \in Clients,
         \/ CheckWorkerIsStillRunning(t)
         \/ LockMemoryToStore(t) \/ StoreInMemory(t) \/ WaitForSpaceInMemory(t)
         \/ GiveUpStoring(t) \/ JoinWorker(t)
  PROVE  TypeOK'
PROOF
  <1> USE DEF TypeOK
  <1> StoresOK /\ ThreadsOK
    OBVIOUS
  <1>1. CASE CheckWorkerIsStillRunning(t)
    <2>1. ThreadsOK'
      <3>1. AfterCheck(t) \in ClientLabels
            /\ (pc[t] \in {"check", "recheck"} =>
                  call[t].op \in OpsAt(t, AfterCheck(t)))
        BY ClientAt DEF AfterCheck, ClientLabels
      <3>2. CASE Throw(t)
        BY <3>2, ThrowOK
      <3>3. CASE Goto(t, AfterCheck(t))
        BY <1>1, <3>1, <3>3, ClientAt, GotoOK DEF CheckWorkerIsStillRunning
      <3> QED BY <1>1, <3>2, <3>3 DEF CheckWorkerIsStillRunning
    <2> QED BY <1>1, <2>1 DEF CheckWorkerIsStillRunning, StoresOK, DirectoryOK,
               directory, WorkerOK, ClientsOK, clientVars
  <1>2. CASE LockMemoryToStore(t)
    <2>1. ThreadsOK'
      BY <1>2, ClientAt, GotoOK
      DEF LockMemoryToStore, ClientLabels, StoreOnDiskLabels
    <2>2. StoresOK'
      BY <1>2, ClientAt, MutexType DEF LockMemoryToStore, StoresOK
    <2> QED BY <1>2, <2>1, <2>2, OnlyStores DEF LockMemoryToStore
  <1>3. CASE StoreInMemory(t)
    <2>1. ThreadsOK'
      BY <1>3, ReturnOK DEF StoreInMemory
    <2>2. Inserted(t) \in Storage(MemElements)
      BY <1>3, InsertedType DEF StoreInMemory
    <2>3. StoresOK'
      BY <1>3, <2>2, ClientAt, MutexType DEF StoreInMemory, StoresOK
    <2> QED BY <1>3, <2>1, <2>3, OnlyStores DEF StoreInMemory
  <1>4. CASE WaitForSpaceInMemory(t)
    <2>1. ThreadsOK'
      BY <1>4, ClientAt, GotoOK DEF WaitForSpaceInMemory, ClientLabels
    <2>2. mem' \in Storage(MemElements)
      BY <1>4, SearchResults, ErasedType DEF WaitForSpaceInMemory, StoresOK
    <2> QED BY <1>4, <2>1, <2>2, OnlyStores DEF WaitForSpaceInMemory, StoresOK
  <1>5. CASE GiveUpStoring(t)
    <2>1. ThreadsOK'
      BY <1>5, ClientAt, GotoOK DEF GiveUpStoring, ClientLabels
    <2> QED BY <1>5, <2>1, OnlyThreads DEF GiveUpStoring
  <1>6. CASE JoinWorker(t)
    <2>1. ThreadsOK'
      BY <1>6, ReturnOK DEF JoinWorker
    <2>2. StoresOK'
      BY <1>6, ClientAt, MutexType DEF JoinWorker, StoresOK
    <2> QED BY <1>6, <2>1, <2>2 DEF JoinWorker, DirectoryOK, directory, WorkerOK,
               ClientsOK, clientVars
  <1> QED BY <1>1, <1>2, <1>3, <1>4, <1>5, <1>6

\* The steps of Get keep TypeOK.
LEMMA GetType ==
  ASSUME TypeOK, NEW t \in Clients,
         GetFromMemory(t) \/ GetSettled(t) \/ GetStarted(t)
  PROVE  TypeOK'
PROOF
  <1> USE DEF TypeOK
  <1> StoresOK /\ DirectoryOK /\ ThreadsOK
    OBVIOUS
  <1> DEFINE k == call[t].key
  <1>1. CASE GetFromMemory(t)
    <2>1. Find(mem.index, k) # 0 =>
            mem.index[Find(mem.index, k)].value \in Values
      <3>1. mem.index \in Seq(MemElements)
        BY DEF StoresOK, Storage
      <3>2. Find(mem.index, k) \in 0 .. Len(mem.index)
        BY <3>1, FindResult
      <3>3. Find(mem.index, k) # 0 => mem.index[Find(mem.index, k)] \in MemElements
        BY <3>1, <3>2
      <3> QED BY <3>3 DEF MemElements
    <2>2. ThreadsOK'
      BY <1>1, <2>1, ClientAt, GotoOK, ReturnOK DEF GetFromMemory, ClientLabels
    <2> QED BY <1>1, <2>2, OnlyThreads DEF GetFromMemory
  <1>2. CASE GetSettled(t)
    <2>1. k \in Keys
      BY <1>2, ClientAt, CallShape DEF GetSettled
    <2>2. CASE ReadFile(t)
      <3>1. files[k] \in Values \cup {NoValue}
        BY <2>1 DEF DirectoryOK
      <3>2. ThreadsOK'
        BY <2>2, <3>1, ReturnOK DEF ReadFile
      <3> QED BY <1>2, <3>2, OnlyThreads DEF GetSettled
    <2>3. CASE Return(t, "threw")
      BY <1>2, <2>3, ReturnOK, OnlyThreads DEF GetSettled
    <2> QED BY <1>2, <2>2, <2>3 DEF GetSettled
  <1>3. CASE GetStarted(t)
    <2>1. k \in Keys
      BY <1>3, ClientAt, CallShape DEF GetStarted
    <2>2. CASE Return(t, moving[k]) /\ moving[k] # NoValue /\ UNCHANGED disk
      <3>1. moving[k] \in Values
        BY <2>1, <2>2 DEF DirectoryOK
      <3>2. ThreadsOK'
        BY <2>2, <3>1, ReturnOK
      <3> QED BY <1>3, <2>2, <3>2, OnlyThreads DEF GetStarted
    <2>3. CASE Goto(t, "waitingToGet") /\ disk' = Waiting(disk, t)
      <3>1. ThreadsOK'
        BY <1>3, <2>3, ClientAt, GotoOK DEF GetStarted, ClientLabels
      <3>2. StoresOK'
        BY <1>3, <2>3, ClientAt, MutexType DEF GetStarted, StoresOK
      <3> QED BY <1>3, <3>1, <3>2, OnlyStores DEF GetStarted
    <2> QED BY <1>3, <2>2, <2>3 DEF GetStarted
  <1> QED BY <1>1, <1>2, <1>3

\* The steps of both Deletes keep TypeOK.
LEMMA DeleteType ==
  ASSUME TypeOK, NEW t \in Clients,
         \/ DeleteFromMemory(t) \/ DeleteFromDisk(t)
         \/ DeleteIfFromMemory(t) \/ DeleteIfFromDisk(t)
  PROVE  TypeOK'
PROOF
  <1> USE DEF TypeOK
  <1> StoresOK /\ DirectoryOK /\ ThreadsOK
    OBVIOUS
  <1>0. mem.index \in Seq(MemElements) /\ disk.index \in Seq(DiskElements)
    BY DEF StoresOK, Storage
  <1>1. CASE DeleteFromMemory(t)
    <2> DEFINE i == Find(mem.index, call[t].key)
    <2>1. ThreadsOK'
      BY <1>1, ClientAt, GotoOK, AfterDeleteOK DEF DeleteFromMemory, ClientLabels
    <2>2. i \in 0 .. Len(mem.index)
      BY <1>0, FindResult
    <2>3. mem' \in Storage(MemElements)
      BY <1>1, <2>2, ErasedType, ClientAt, MutexType
      DEF DeleteFromMemory, StoresOK
    <2> QED BY <1>1, <2>1, <2>3, OnlyStores DEF DeleteFromMemory, StoresOK
  <1>2. CASE DeleteFromDisk(t)
    <2> DEFINE k == call[t].key
               i == Find(disk.index, k)
    <2>1. k \in Keys
      BY <1>2, ClientAt, CallShape DEF DeleteFromDisk
    <2>2. ThreadsOK'
      BY <1>2, ThrowOK, AfterDeleteOK DEF DeleteFromDisk
    <2>3. i \in 0 .. Len(disk.index) /\ (i # 0 => disk.index[i].key = k)
      BY <1>0, FindResult
    <2>4. disk' \in Storage(DiskElements) /\ files' \in [Keys -> Values \cup {NoValue}]
      <3>1. CASE UNCHANGED <<disk, files>>
        BY <3>1 DEF StoresOK, DirectoryOK
      <3>2. CASE disk' = Notified(Marked(disk, i, "cancelled")) /\ UNCHANGED files
        <4>1. Marked(disk, i, "cancelled") \in Storage(DiskElements)
          BY <2>3, MarkedType DEF StoresOK, States
        <4> QED BY <3>2, <4>1, ClientAt, MutexType DEF DirectoryOK
      <3>3. CASE /\ i # 0 /\ files[k] # NoValue /\ RemoveFile(k)
                 /\ disk' = Notified(WithoutFile(i))
        <4>1. WithoutFile(i) \in Storage(DiskElements)
          BY <2>3, <3>3, WithoutFileType
        <4> QED BY <3>3, <4>1, ClientAt, MutexType DEF RemoveFile, DirectoryOK
      <3> QED BY <1>2, <3>1, <3>2, <3>3 DEF DeleteFromDisk
    <2> QED BY <1>2, <2>2, <2>4 DEF DeleteFromDisk, StoresOK, DirectoryOK,
               WorkerOK, workerVars, ClientsOK, clientVars
  <1>3. CASE DeleteIfFromMemory(t)
    <2> DEFINE i == FindAnyOf(mem.index, call[t].keys)
    <2>1. ThreadsOK'
      BY <1>3, ClientAt, GotoOK DEF DeleteIfFromMemory, ClientLabels
    <2>2. i \in 0 .. Len(mem.index)
      BY <1>0, FindAnyOfResult
    <2>3. i # 0 => Erased(i) \in Storage(MemElements)
      BY <2>2, ErasedType
    <2>4. mem' \in Storage(MemElements)
      <3>1. CASE i # 0 /\ mem' = Notified(Locked(Erased(i), t))
        <4>1. Locked(Erased(i), t) \in Storage(MemElements)
          BY <2>3, <3>1, ClientAt, MutexType
        <4> QED BY <3>1, <4>1, ClientAt, MutexType
      <3>2. CASE mem' = Unlocked(mem)
        BY <3>2, ClientAt, MutexType DEF StoresOK
      <3> QED BY <1>3, <3>1, <3>2 DEF DeleteIfFromMemory
    <2> QED BY <1>3, <2>1, <2>4, OnlyStores DEF DeleteIfFromMemory, StoresOK
  <1>4. CASE DeleteIfFromDisk(t)
    <2> DEFINE i == FindAnyOf(disk.index, call[t].keys)
    <2>1. ThreadsOK'
      BY <1>4, ClientAt, GotoOK, ReturnOK DEF DeleteIfFromDisk, ClientLabels
    <2>2. i \in 0 .. Len(disk.index)
      BY <1>0, FindAnyOfResult
    <2> DEFINE store == Notified(Locked(disk, t))
               index == RemoveAt(disk.index, i)
    <2>3. store \in Storage(DiskElements) /\ store.index = disk.index
      <3>1. Locked(disk, t) \in Storage(DiskElements)
        BY ClientAt, MutexType DEF StoresOK
      <3>2. store \in Storage(DiskElements)
        BY <3>1, ClientAt, MutexType
      <3>3. store.index = disk.index
        BY DEF StoresOK, Storage, Notified, Locked
      <3> QED BY <3>2, <3>3
    <2>4. i # 0 => [store EXCEPT !.index = RemoveAt(@, i)] \in Storage(DiskElements)
      <3>1. SUFFICES ASSUME i # 0
                     PROVE  [store EXCEPT !.index = index] \in Storage(DiskElements)
        BY <2>3
      <3>2. index \in Seq(DiskElements)
        BY <1>0, <2>2, <3>1, RemoveAtType
      <3> HIDE DEF store, index
      <3> QED BY <2>3, <3>2 DEF Storage
    <2>5. disk' \in Storage(DiskElements)
      BY <1>4, <2>4, ClientAt, MutexType DEF DeleteIfFromDisk, StoresOK
    <2> QED BY <1>4, <2>1, <2>5, OnlyStores DEF DeleteIfFromDisk, StoresOK
  <1> QED BY <1>1, <1>2, <1>3, <1>4

\* The steps that set the limits keep TypeOK.
LEMMA SetMaxType ==
  ASSUME TypeOK, NEW t \in Clients,
         \/ CheckDiskMax(t) \/ SetMaxMemoryUsage(t)
         \/ CheckMemMax(t) \/ SetMaxDiskUsage(t)
  PROVE  TypeOK'
PROOF
  <1> USE DEF TypeOK
  <1> StoresOK /\ ThreadsOK
    OBVIOUS
  <1>1. CASE CheckDiskMax(t)
    <2>1. ThreadsOK'
      BY <1>1, ClientAt, GotoOK, ReturnOK, SMTT(30) DEF CheckDiskMax, ClientLabels
    <2>2. StoresOK'
      BY <1>1, ClientAt, MutexType, SMTT(30) DEF CheckDiskMax, StoresOK
    <2> QED BY <1>1, <2>1, <2>2, OnlyStores DEF CheckDiskMax
  <1>2. CASE SetMaxMemoryUsage(t)
    <2>1. ThreadsOK'
      BY <1>2, ReturnOK DEF SetMaxMemoryUsage
    <2>2. call[t].limit \in Nat
      BY <1>2, ClientAt, CallShape DEF SetMaxMemoryUsage
    <2>3. Notified(Unlocked(mem)) \in Storage(MemElements)
      BY ClientAt, MutexType DEF StoresOK
    <2> DEFINE store == Notified(Unlocked(mem))
    <2>4. StoresOK'
      <3>1. mem' = [store EXCEPT !.max = call[t].limit] /\ disk' = disk
        BY <1>2 DEF SetMaxMemoryUsage
      <3>2. store \in Storage(MemElements)
        BY <2>3
      <3> HIDE DEF store
      <3>3. [store EXCEPT !.max = call[t].limit] \in Storage(MemElements)
        BY <2>2, <3>2 DEF Storage
      <3> QED BY <3>1, <3>3 DEF StoresOK
    <2> QED BY <1>2, <2>1, <2>4, OnlyStores DEF SetMaxMemoryUsage
  <1>3. CASE CheckMemMax(t)
    <2>1. ThreadsOK'
      BY <1>3, ClientAt, GotoOK, ReturnOK DEF CheckMemMax, ClientLabels
    <2>2. disk' \in {disk, Locked(disk, t)} /\ mem' = mem
      BY <1>3 DEF CheckMemMax
    <2>3. StoresOK'
      BY <2>2, ClientAt, MutexType DEF StoresOK
    <2> QED BY <1>3, <2>1, <2>3, OnlyStores DEF CheckMemMax
  <1>4. CASE SetMaxDiskUsage(t)
    <2> DEFINE store == [Unlocked(disk) EXCEPT !.max = call[t].limit]
    <2>1. ThreadsOK'
      BY <1>4, ReturnOK DEF SetMaxDiskUsage
    <2>2. call[t].limit \in Nat
      BY <1>4, ClientAt, CallShape DEF SetMaxDiskUsage
    <2>3. Unlocked(disk) \in Storage(DiskElements)
      BY ClientAt, MutexType DEF StoresOK
    <2>4. store \in Storage(DiskElements)
      BY <2>2, <2>3 DEF Storage
    <2>5. StoresOK'
      BY <1>4, <2>4, ClientAt, MutexType DEF SetMaxDiskUsage, StoresOK
    <2> QED BY <1>4, <2>1, <2>5, OnlyStores DEF SetMaxDiskUsage
  <1> QED BY <1>1, <1>2, <1>3, <1>4

\* The steps of StoreOnDisk keep TypeOK, in a client and in the worker.
LEMMA StoreOnDiskType ==
  ASSUME TypeOK, NEW t \in Threads, StoreOnDiskStep(t)
  PROVE  TypeOK'
PROOF
  <1> USE DEF TypeOK
  <1> StoresOK /\ DirectoryOK /\ ThreadsOK
    OBVIOUS
  <1> DEFINE k == call[t].key
  <1>0. disk.index \in Seq(DiskElements)
    BY DEF StoresOK, Storage
  <1>1. CASE BeginStoreOnDisk(t)
    <2>1. pc[t] \in StoreOnDiskLabels
      BY <1>1 DEF BeginStoreOnDisk, StoreOnDiskLabels
    <2>2. CASE Required(t) <= disk.max
      <3> DEFINE store == Locked(disk, t)
                 index == Append(disk.index, [key |-> k, state |-> "started"])
      <3>0. Goto(t, "spaceOnDisk")
        BY <1>1, <2>1, <2>2, StoringOnDisk DEF BeginStoreOnDisk, StoresOK, Storage
      <3>1. ThreadsOK'
        BY <2>1, <3>0, StoringOnDisk, GotoOK DEF StoreOnDiskLabels
      <3>2. index \in Seq(DiskElements)
        <4>1. [key |-> k, state |-> "started"] \in DiskElements
          BY <2>1, StoringOnDisk DEF DiskElements, States
        <4> QED BY <1>0, <4>1
      <3>3. store \in Storage(DiskElements) /\ store.index = disk.index
        BY MutexType DEF StoresOK, Storage, Locked
      <3>4. disk' = [store EXCEPT !.index = index] /\ mem' = Unlocked(mem)
        BY <1>1, <2>1, <2>2, <3>3, StoringOnDisk DEF BeginStoreOnDisk, StoresOK, Storage
      <3> HIDE DEF store, index
      <3>5. disk' \in Storage(DiskElements)
        BY <3>2, <3>3, <3>4 DEF Storage
      <3>6. StoresOK'
        BY <3>4, <3>5, MutexType DEF StoresOK
      <3>7. UNCHANGED <<directory, workerVars, clientVars>>
        BY <1>1, <2>1, <2>2, StoringOnDisk DEF BeginStoreOnDisk, StoresOK, Storage
      <3> QED BY <3>1, <3>6, <3>7, OnlyStores
    <2>3. CASE Required(t) > disk.max
      <3>1. /\ StopRunning /\ ThrowFromStoreOnDisk(t)
            /\ mem' = Notified(Unlocked(mem)) /\ disk' = Notified(disk)
            /\ UNCHANGED <<directory, clientVars>>
        BY <1>1, <2>1, <2>3, StoringOnDisk DEF BeginStoreOnDisk, StoresOK, Storage
      <3>2. StoresOK'
        BY <3>1, MutexType DEF StoresOK
      <3> QED BY <3>1, <3>2, ThrowFromStoreOnDiskOK
          DEF StopRunning, WorkerOK, DirectoryOK, directory, ClientsOK, clientVars
    <2> QED BY <1>1, <2>2, <2>3 DEF BeginStoreOnDisk
  <1>2. CASE EndWaitForSpaceOnDisk(t) \/ DecideToWaitOnDisk(t)
    <2>1. pc[t] \in StoreOnDiskLabels
      BY <1>2 DEF EndWaitForSpaceOnDisk, DecideToWaitOnDisk, StoreOnDiskLabels
    <2>2. ThreadsOK'
      BY <1>2, <2>1, StoringOnDisk, GotoOK
      DEF EndWaitForSpaceOnDisk, DecideToWaitOnDisk, StoreOnDiskLabels
    <2> QED BY <1>2, <2>2, OnlyThreads
        DEF EndWaitForSpaceOnDisk, DecideToWaitOnDisk
  <1>3. CASE NoticeCancelled(t)
    <2> DEFINE i == Find(disk.index, k)
    <2>1. pc[t] \in StoreOnDiskLabels
      BY <1>3 DEF NoticeCancelled, StoreOnDiskLabels
    <2>2. ThreadsOK'
      BY <1>3, <2>1, StoringOnDisk, GotoOK DEF NoticeCancelled, StoreOnDiskLabels
    <2>3. i \in 0 .. Len(disk.index)
      BY <1>0, FindResult
    <2>4. i # 0 => RemoveAt(disk.index, i) \in Seq(DiskElements)
      BY <1>0, <2>3, RemoveAtType
    <2>5. StoresOK'
      BY <1>3, <2>4 DEF NoticeCancelled, StoresOK, Storage
    <2> QED BY <1>3, <2>2, <2>5, OnlyStores DEF NoticeCancelled
  <1>4. CASE PopOldest(t)
    <2> DEFINE oldest == Head(disk.index)
    <2>1. pc[t] \in StoreOnDiskLabels
      BY <1>4 DEF PopOldest, StoreOnDiskLabels
    <2>2. 1 \in 1 .. Len(disk.index) /\ oldest = disk.index[1]
          /\ oldest \in DiskElements
      <3>1. Find(disk.index, k) \in 0 .. Len(disk.index)
            /\ Find(disk.index, k) # 0
        BY <1>0, <1>4, FindResult DEF PopOldest, StillWanted
      <3> QED BY <1>0, <3>1
    <2>3. CASE /\ files[oldest.key] # NoValue
               /\ RemoveFile(oldest.key)
               /\ disk' = WithoutFile(1)
               /\ popped' = popped \cup {oldest.key}
               /\ Goto(t, "spaceOnDisk")
               /\ UNCHANGED future
      <3>1. ThreadsOK'
        BY <2>1, <2>3, StoringOnDisk, GotoOK DEF StoreOnDiskLabels
      <3>2. disk' \in Storage(DiskElements)
        BY <2>2, <2>3, WithoutFileType
      <3>3. popped' \subseteq Keys /\ files' \in [Keys -> Values \cup {NoValue}]
        BY <2>2, <2>3 DEF DirectoryOK, RemoveFile, DiskElements
      <3> QED BY <1>4, <2>3, <3>1, <3>2, <3>3
          DEF PopOldest, StoresOK, DirectoryOK, WorkerOK, ClientsOK, clientVars
    <2>4. CASE /\ disk' = Unlocked(disk)
               /\ ThrowFromStoreOnDisk(t)
               /\ UNCHANGED <<files, popped>>
      <3>1. disk' \in Storage(DiskElements)
        BY <2>4, MutexType DEF StoresOK
      <3> QED BY <1>4, <2>4, <3>1, ThrowFromStoreOnDiskOK
          DEF PopOldest, StoresOK, DirectoryOK, WorkerOK, ClientsOK, clientVars
    <2> QED BY <1>4, <2>3, <2>4 DEF PopOldest
  <1>5. CASE WaitOnDisk(t) \/ WakeOnDisk(t)
    <2>1. pc[t] \in StoreOnDiskLabels
      BY <1>5 DEF WaitOnDisk, WakeOnDisk, StoreOnDiskLabels
    <2>2. ThreadsOK'
      BY <1>5, <2>1, StoringOnDisk, GotoOK
      DEF WaitOnDisk, WakeOnDisk, StoreOnDiskLabels
    <2>3. StoresOK'
      <3>1. disk' \in {Waiting(disk, t), Locked(disk, t)} /\ mem' = mem
        BY <1>5 DEF WaitOnDisk, WakeOnDisk
      <3> QED BY <3>1, MutexType DEF StoresOK
    <2>4. moving' \in [Keys -> Values \cup {NoValue}]
      BY <1>5, <2>1, StoringOnDisk DEF WaitOnDisk, WakeOnDisk, DirectoryOK
    <2> QED BY <1>5, <2>2, <2>3, <2>4 DEF WaitOnDisk, WakeOnDisk, DirectoryOK,
               WorkerOK, workerVars, ClientsOK, clientVars
  <1>6. CASE WriteSucceeds(t)
    <2> DEFINE i == FindStartedToStoreOnDisk(k)
               store == Notified(Unlocked(Marked(disk, i, "completed")))
               current == store.current + Required(t)
    <2>1. pc[t] \in StoreOnDiskLabels
      BY <1>6 DEF WriteSucceeds, StoreOnDiskLabels
    <2>2. ThreadsOK'
      BY <1>6, <2>1, AfterStoreOnDiskOK DEF WriteSucceeds
    <2>3. store \in Storage(DiskElements)
      <3>1. Marked(disk, i, "completed") \in Storage(DiskElements)
        BY SearchResults, MarkedType DEF StoresOK, States
      <3>2. Unlocked(Marked(disk, i, "completed")) \in Storage(DiskElements)
        BY <3>1, MutexType
      <3> QED BY <3>2, MutexType
    <2>4. disk' = [store EXCEPT !.current = @ + Required(t)]
      BY <1>6 DEF WriteSucceeds
    <2> HIDE DEF store
    <2>5. current \in Int
      BY <2>1, <2>3, StoringOnDisk DEF Storage
    <2>6. disk' \in Storage(DiskElements)
      BY <2>3, <2>4, <2>5 DEF Storage
    <2>7. files' \in [Keys -> Values \cup {NoValue}]
      BY <1>6, <2>1, StoringOnDisk DEF WriteSucceeds, DirectoryOK
    <2> QED BY <1>6, <2>2, <2>6, <2>7 DEF WriteSucceeds, StoresOK, DirectoryOK,
               WorkerOK, workerVars, ClientsOK, clientVars
  <1>7. CASE WriteFails(t)
    <2>1. StoresOK'
      BY <1>7, MutexType DEF WriteFails, StoresOK
    <2> QED BY <1>7, <2>1, ThrowFromStoreOnDiskOK
        DEF WriteFails, StopRunning, WorkerOK, DirectoryOK, directory,
            ClientsOK, clientVars
  <1>8. CASE EndCancelled(t) \/ AbandonStoreOnDisk(t)
    <2>1. pc[t] \in StoreOnDiskLabels
      BY <1>8 DEF EndCancelled, AbandonStoreOnDisk, StoreOnDiskLabels
    <2>2. ThreadsOK'
      BY <1>8, <2>1, AfterStoreOnDiskOK DEF EndCancelled, AbandonStoreOnDisk
    <2>3. StoresOK'
      BY <1>8, MutexType DEF EndCancelled, AbandonStoreOnDisk, StoresOK
    <2> QED BY <1>8, <2>2, <2>3, OnlyStores DEF EndCancelled, AbandonStoreOnDisk
  <1> QED BY <1>1, <1>2, <1>3, <1>4, <1>5, <1>6, <1>7, <1>8 DEF StoreOnDiskStep

\* What OpsAt says of threads waiting for memory.
LEMMA WaitingForMemory ==
  ASSUME NEW t \in Threads
  PROVE  \A label \in {"waitOnMemory", "waitingOnMemory"} :
           /\ label \in LabelsOf(t)
           /\ OpsAt(t, label) = IF t = Worker THEN {"None"} ELSE {"Store"}
BY DEF LabelsOf, WorkerLabels, ClientLabels, OpsAt, StoreOnDiskLabels

\* Waiting on the memory condition variable keeps TypeOK.
LEMMA WaitOnMemoryType ==
  ASSUME TypeOK, NEW t \in Threads, WaitOnMemory(t) \/ WakeOnMemory(t)
  PROVE  TypeOK'
PROOF
  <1> USE DEF TypeOK
  <1> StoresOK /\ ThreadsOK
    OBVIOUS
  <1>1. call[t].op \in OpsAt(t, pc[t])
    BY DEF ThreadsOK
  <1>2. CASE WaitOnMemory(t)
    <2>1. ThreadsOK'
      BY <1>1, <1>2, WaitingForMemory, GotoOK DEF WaitOnMemory
    <2>2. StoresOK'
      BY <1>2, MutexType DEF WaitOnMemory, StoresOK
    <2> QED BY <1>2, <2>1, <2>2, OnlyStores DEF WaitOnMemory
  <1>3. CASE WakeOnMemory(t)
    <2> DEFINE i == FindMemoryRemovalCandidate
    <2> DEFINE evicts == t # Worker /\ running /\ i # 0
    <2>1. mem' = Locked(mem, t) \/ (i # 0 /\ mem' = Locked(Erased(i), t))
      <3>1. mem' = Locked(IF evicts THEN Erased(i) ELSE mem, t)
        BY <1>3 DEF WakeOnMemory
      <3>2. evicts => i # 0
        OBVIOUS
      <3> HIDE DEF i, evicts
      <3> QED BY <3>1, <3>2
    <2>2. i # 0 => Erased(i) \in Storage(MemElements)
      BY SearchResults, ErasedType, SMTT(30) DEF StoresOK, Storage
    <2>3. StoresOK'
      BY <1>3, <2>1, <2>2, MutexType DEF WakeOnMemory, StoresOK
    <2> DEFINE next == IF t = Worker THEN "findOldest" ELSE "spaceInMemory"
    <2>4. next \in LabelsOf(t)
          /\ OpsAt(t, next) = IF t = Worker THEN {"None"} ELSE {"Store"}
      BY DEF LabelsOf, WorkerLabels, ClientLabels, OpsAt, StoreOnDiskLabels
    <2>5. ThreadsOK'
      BY <1>1, <1>3, <2>4, WaitingForMemory, GotoOK DEF WakeOnMemory
    <2> QED BY <1>3, <2>5, <2>3, OnlyStores DEF WakeOnMemory
  <1> QED BY <1>2, <1>3

\* The worker's own steps keep TypeOK.
LEMMA CopyType ==
  ASSUME TypeOK, TakeOldest \/ WorkerReturns \/ MarkStored
  PROVE  TypeOK'
PROOF
  <1> USE DEF TypeOK
  <1> StoresOK /\ ThreadsOK /\ Worker \in Threads
    BY DEF Threads
  <1>0. mem.index \in Seq(MemElements) /\ call[Worker].op \in OpsAt(Worker, pc[Worker])
    BY DEF StoresOK, Storage, ThreadsOK
  <1>1. CASE TakeOldest
    <2> DEFINE i == FindOldestInMemoryOnly
    <2>1. i \in 0 .. Len(mem.index)
      BY SearchResults
    <2>2. StoresOK'
      <3>1. Marked(mem, i, "started") \in Storage(MemElements)
        BY <2>1, MarkedType DEF StoresOK, States
      <3> QED BY <1>1, <3>1, MutexType DEF TakeOldest, StoresOK
    <2>3. CASE i # 0
      <3> DEFINE c == [op |-> "Copy", key |-> mem.index[i].key,
                       value |-> mem.index[i].value]
      <3>1. mem.index[i] \in MemElements
        BY <1>0, <2>1, <2>3
      <3>2. c \in Calls /\ c.op = "Copy"
        BY <3>1 DEF MemElements, Calls, CopyCalls
      <3>3. /\ pc' = [pc EXCEPT ![Worker] = "lockDisk"]
            /\ call' = [call EXCEPT ![Worker] = c]
            /\ UNCHANGED <<outcome, due>>
        BY <1>1, <2>3 DEF TakeOldest
      <3> HIDE DEF c
      <3>4. "lockDisk" \in WorkerLabels /\ "lockDisk" \in LabelsOf(Worker)
            /\ c.op \in OpsAt(Worker, "lockDisk")
        BY <3>2 DEF LabelsOf, WorkerLabels, OpsAt, StoreOnDiskLabels
      <3>5. ASSUME NEW u \in Threads
            PROVE  pc'[u] \in LabelsOf(u) /\ call'[u].op \in OpsAt(u, pc'[u])
        BY <3>3, <3>4 DEF ThreadsOK
      <3>6. ThreadsOK'
        BY <3>2, <3>3, <3>4, <3>5 DEF ThreadsOK
      <3> QED BY <1>1, <2>2, <3>6, OnlyStores DEF TakeOldest
    <2>4. CASE i = 0
      <3>1. "waitOnMemory" \in LabelsOf(Worker)
            /\ call[Worker].op \in OpsAt(Worker, "waitOnMemory")
        BY <1>0, <1>1, WaitingForMemory DEF TakeOldest, OpsAt, StoreOnDiskLabels
      <3>2. ThreadsOK'
        BY <1>1, <2>4, <3>1, GotoOK DEF TakeOldest
      <3> QED BY <1>1, <2>2, <3>2, OnlyStores DEF TakeOldest
    <2> QED BY <2>3, <2>4
  <1>2. CASE WorkerReturns
    <2>1. "exited" \in LabelsOf(Worker)
          /\ call[Worker].op \in OpsAt(Worker, "exited")
      BY <1>0, <1>2 DEF WorkerReturns, LabelsOf, WorkerLabels, OpsAt,
                        StoreOnDiskLabels
    <2>2. ThreadsOK'
      BY <1>2, <2>1, GotoOK DEF WorkerReturns
    <2>3. StoresOK'
      BY <1>2, MutexType DEF WorkerReturns, StoresOK
    <2> QED BY <1>2, <2>2, <2>3 DEF WorkerReturns, DirectoryOK, directory,
               WorkerOK, ClientsOK, clientVars
  <1>3. CASE MarkStored
    <2> DEFINE i == Find(mem.index, call[Worker].key)
    <2>1. i \in 0 .. Len(mem.index)
      BY <1>0, FindResult
    <2>2. Marked(mem, i, "completed") \in Storage(MemElements)
      BY <2>1, MarkedType DEF StoresOK, States
    <2>3. StoresOK'
      BY <1>3, <2>2, MutexType DEF MarkStored, StoresOK
    <2>4. /\ pc' = [pc EXCEPT ![Worker] = "findOldest"]
          /\ call' = [call EXCEPT ![Worker] = NoCall]
          /\ UNCHANGED <<outcome, due>>
      BY <1>3 DEF MarkStored
    <2>5. /\ NoCall \in Calls /\ "findOldest" \in LabelsOf(Worker)
          /\ "findOldest" \in WorkerLabels
          /\ NoCall.op \in OpsAt(Worker, "findOldest")
      BY DEF Calls, NoCall, LabelsOf, WorkerLabels, OpsAt, StoreOnDiskLabels
    <2>6. ASSUME NEW u \in Threads
          PROVE  pc'[u] \in LabelsOf(u) /\ call'[u].op \in OpsAt(u, pc'[u])
      BY <2>4, <2>5 DEF ThreadsOK
    <2>7. ThreadsOK'
      BY <2>4, <2>5, <2>6 DEF ThreadsOK
    <2> QED BY <1>3, <2>3, <2>7, OnlyStores DEF MarkStored
  <1> QED BY <1>1, <1>2, <1>3

\* The destructor's steps keep TypeOK.
LEMMA DestructorType ==
  ASSUME TypeOK, DestructorStep
  PROVE  TypeOK'
PROOF
  <1> USE DEF TypeOK
  <1>1. Worker \in Threads
    BY DEF Threads
  <1>2. CASE Destroy
    BY <1>1, <1>2, MutexType DEF Destroy, StopRunning, StoresOK, DirectoryOK,
       directory, WorkerOK, ThreadsOK, threadVars, ClientsOK
  <1>3. CASE NotifyWorker
    BY <1>1, <1>3, MutexType DEF NotifyWorker, StoresOK, DirectoryOK, directory,
       WorkerOK, workerVars, ThreadsOK, threadVars, ClientsOK, clientVars
  <1>4. CASE EndDestroy
    BY <1>4 DEF EndDestroy, StoresOK, DirectoryOK, directory, WorkerOK,
       ThreadsOK, threadVars, ClientsOK
  <1> QED BY <1>2, <1>3, <1>4 DEF DestructorStep

\* TypeOK holds initially.
LEMMA TypeInit == Init => TypeOK
PROOF
  <1> SUFFICES ASSUME Init PROVE TypeOK
    OBVIOUS
  <1>1. StoresOK
    BY LimitsAssumption DEF Init, StoresOK, Storage, EmptyStorage
  <1>2. ThreadsOK
    <2>1. NoCall \in Calls /\ NoCall.op = "None"
      BY DEF Calls, NoCall
    <2>2. /\ "findOldest" \in LabelsOf(Worker) /\ "findOldest" \in WorkerLabels
          /\ "idle" \in ClientLabels
          /\ "None" \in OpsAt(Worker, "findOldest")
      BY DEF LabelsOf, WorkerLabels, ClientLabels, OpsAt, StoreOnDiskLabels
    <2>3. \A t \in Clients : "idle" \in LabelsOf(t) /\ "None" \in OpsAt(t, "idle")
      BY ThreadsAssumption DEF LabelsOf, ClientLabels, OpsAt, StoreOnDiskLabels
    <2> QED BY <2>1, <2>2, <2>3 DEF Init, ThreadsOK, Threads
  <1>3. DirectoryOK /\ WorkerOK /\ ClientsOK
    BY EnvironmentAssumption DEF Init, DirectoryOK, WorkerOK, ClientsOK
  <1> QED BY <1>1, <1>2, <1>3 DEF TypeOK

\* Every step keeps TypeOK.
LEMMA TypeStep == TypeOK /\ [Next]_vars => TypeOK'
PROOF
  <1> SUFFICES ASSUME TypeOK, [Next]_vars PROVE TypeOK'
    OBVIOUS
  <1>0. Clients \subseteq Threads /\ Worker \in Threads
    BY DEF Threads
  <1>1. ASSUME NEW t \in Clients, ClientStep(t) PROVE TypeOK'
    BY <1>0, <1>1, StoreType, WaitOnMemoryType, StoreOnDiskType, GetType,
       DeleteType, SetMaxType DEF ClientStep
  <1>2. ASSUME NEW t \in Clients, NEW c \in Requests, Call(t, c) PROVE TypeOK'
    BY <1>2, CallType
  <1>3. CASE WorkerStep
    BY <1>0, <1>3, CopyType, WaitOnMemoryType, StoreOnDiskType DEF WorkerStep
  <1>4. CASE DestructorStep
    BY <1>4, DestructorType
  <1>5. CASE UNCHANGED vars
    BY <1>5 DEF vars, TypeOK, StoresOK, DirectoryOK, directory, WorkerOK,
       workerVars, ThreadsOK, threadVars, ClientsOK, clientVars
  <1> QED BY <1>1, <1>2, <1>3, <1>4, <1>5 DEF Next, Destroyed

\* TypeOK: every variable of DataBuffer keeps its type, and no thread runs
\* code of an operation it has not called, for any numbers of clients, keys
\* and values and whatever the limits.
THEOREM TypeCorrect == Spec => []TypeOK
BY TypeInit, TypeStep, PTL DEF Spec

-----------------------------------------------------------------------------
(* Mutual exclusion.  It is inductive relative to TypeOK: a step that takes *)
(* a mutex finds it free, and a step that leaves it does so as its owner.   *)

MemMayHold == MemHolds \cup {"deleteIfFromMemory", "findOldest"}
DiskMayHold == DiskHolds \cup {"deleteIfFromDisk", "relockMemory"}

\* A step of t to label does right by a mutex.
Keeps(t, label, owner, newOwner, holds, mayHold) ==
  /\ \/ newOwner = owner
     \/ owner \in {t, NoThread} /\ newOwner \in {t, NoThread}
  /\ label \in holds => newOwner = t
  /\ newOwner = t => label \in mayHold

\* A step of one thread that respects Keeps for both mutexes keeps
\* MutualExclusion.
LEMMA OwnedKept ==
  ASSUME TypeOK, MutualExclusion, NEW t \in Threads, NEW label,
         pc' = [pc EXCEPT ![t] = label],
         Keeps(t, label, mem.owner, mem'.owner, MemHolds, MemMayHold),
         Keeps(t, label, disk.owner, disk'.owner, DiskHolds, DiskMayHold)
  PROVE  MutualExclusion'
PROOF
  <1>1. \A u \in Threads : u # NoThread
    BY ThreadsAssumption DEF Threads
  <1>2. pc'[t] = label /\ \A u \in Threads : u # t => pc'[u] = pc[u]
    BY DEF TypeOK, ThreadsOK
  <1>3. Owned(mem, MemHolds, MemMayHold)'
    BY <1>1, <1>2 DEF MutualExclusion, Owned, Keeps, MemMayHold
  <1>4. Owned(disk, DiskHolds, DiskMayHold)'
    BY <1>1, <1>2 DEF MutualExclusion, Owned, Keeps, DiskMayHold
  <1> QED BY <1>3, <1>4 DEF MutualExclusion, MemMayHold, DiskMayHold

\* What the changes to a store make of its mutex.
LEMMA Owners ==
  ASSUME NEW E, NEW store \in Storage(E), NEW t \in Threads
  PROVE  /\ Locked(store, t).owner = t
         /\ Unlocked(store).owner = NoThread
         /\ Notified(store).owner = store.owner
         /\ Waiting(store, t).owner = NoThread
         /\ \A i, state : Marked(store, i, state).owner = store.owner
BY DEF Storage, Locked, Unlocked, Notified, Waiting, Marked

\* Where the shared endings of a call leave a thread.
LEMMA Moves ==
  ASSUME NEW t
  PROVE  /\ \A label : Goto(t, label) => pc' = [pc EXCEPT ![t] = label]
         /\ \A result : Return(t, result) => pc' = [pc EXCEPT ![t] = "idle"]
         /\ Throw(t) \/ AfterDelete(t) =>
              \E label \in {"idle", "recheck"} : pc' = [pc EXCEPT ![t] = label]
         /\ AfterStoreOnDisk(t) =>
              pc' = [pc EXCEPT ![t] = IF t = Worker THEN "relockMemory" ELSE "idle"]
         /\ ThrowFromStoreOnDisk(t) =>
              pc' = [pc EXCEPT ![t] = IF t = Worker THEN "exited" ELSE "idle"]
BY DEF Goto, Return, Throw, AfterDelete, AfterStoreOnDisk, ThrowFromStoreOnDisk

\* A thread outside the critical sections owns no mutex.
LEMMA Outside ==
  ASSUME MutualExclusion, NEW t \in Threads
  PROVE  /\ pc[t] \notin MemMayHold => mem.owner # t
         /\ pc[t] \notin DiskMayHold => disk.owner # t
         /\ pc[t] \in MemHolds => mem.owner = t
         /\ pc[t] \in DiskHolds => disk.owner = t
BY DEF MutualExclusion, Owned, MemMayHold, DiskMayHold

\* A step that neither takes nor releases a mutex: it may not enter a critical
\* section, nor leave one.
LEMMA NoMutexTaken ==
  ASSUME TypeOK, MutualExclusion, NEW t \in Threads, NEW label,
         pc' = [pc EXCEPT ![t] = label],
         mem'.owner = mem.owner, disk'.owner = disk.owner,
         label \in MemHolds => pc[t] \in MemHolds,
         pc[t] \in MemMayHold => label \in MemMayHold,
         label \in DiskHolds => pc[t] \in DiskHolds,
         pc[t] \in DiskMayHold => label \in DiskMayHold
  PROVE  MutualExclusion'
BY Outside, OwnedKept DEF Keeps

\* A step that only takes or releases the memory mutex.
LEMMA MemMutexTaken ==
  ASSUME TypeOK, MutualExclusion, NEW t \in Threads, NEW label,
         pc' = [pc EXCEPT ![t] = label], disk'.owner = disk.owner,
         mem.owner \in {t, NoThread}, mem'.owner \in {t, NoThread},
         label \in MemHolds => mem'.owner = t,
         mem'.owner = t => label \in MemMayHold,
         label \in DiskHolds => pc[t] \in DiskHolds,
         pc[t] \in DiskMayHold => label \in DiskMayHold
  PROVE  MutualExclusion'
BY Outside, OwnedKept DEF Keeps

\* A step that only takes or releases the disk mutex.
LEMMA DiskMutexTaken ==
  ASSUME TypeOK, MutualExclusion, NEW t \in Threads, NEW label,
         pc' = [pc EXCEPT ![t] = label], mem'.owner = mem.owner,
         disk.owner \in {t, NoThread}, disk'.owner \in {t, NoThread},
         label \in DiskHolds => disk'.owner = t,
         disk'.owner = t => label \in DiskMayHold,
         label \in MemHolds => pc[t] \in MemHolds,
         pc[t] \in MemMayHold => label \in MemMayHold
  PROVE  MutualExclusion'
BY Outside, OwnedKept DEF Keeps

\* Erasing and inserting leave the mutex alone.
LEMMA OwnersInPlace ==
  ASSUME StoresOK, NEW t \in Threads
  PROVE  /\ \A i : Erased(i).owner = mem.owner
         /\ \A i : WithoutFile(i).owner = disk.owner
         /\ Inserted(t).owner = mem.owner
BY DEF StoresOK, Storage, Erased, WithoutFile, Inserted

\* The steps of Store that concern memory keep MutualExclusion.
LEMMA MutexStore ==
  ASSUME TypeOK, MutualExclusion, NEW t \in Clients,
         \/ CheckWorkerIsStillRunning(t)
         \/ LockMemoryToStore(t) \/ StoreInMemory(t) \/ WaitForSpaceInMemory(t)
         \/ GiveUpStoring(t) \/ JoinWorker(t)
  PROVE  MutualExclusion'
PROOF
  <1> t \in Threads /\ t # Worker /\ t # NoThread /\ StoresOK
    BY ThreadsAssumption DEF Threads, TypeOK
  <1> USE DEF MemHolds, MemMayHold, DiskHolds, DiskMayHold
  <1>1. CASE CheckWorkerIsStillRunning(t)
    <2>1. pc[t] \in {"check", "recheck"} /\ UNCHANGED <<mem, disk>>
      BY <1>1 DEF CheckWorkerIsStillRunning
    <2>2. PICK label \in {"idle", "recheck", AfterCheck(t)} :
            pc' = [pc EXCEPT ![t] = label]
      BY <1>1, Moves DEF CheckWorkerIsStillRunning
    <2>3. label \in {"idle", "recheck", "lockMemory", "deleteFromMemory",
                     "deleteIfFromMemory", "getFromMemory"}
      BY <2>2 DEF AfterCheck
    <2> QED BY <2>1, <2>2, <2>3, NoMutexTaken
  <1>2. CASE LockMemoryToStore(t)
    <2>1. mem'.owner = t /\ mem.owner = NoThread /\ disk' = disk
          /\ pc[t] = "lockMemory"
      BY <1>2, Owners DEF LockMemoryToStore, Free, StoresOK
    <2>2. PICK label \in {"lockDisk", "spaceInMemory"} :
            pc' = [pc EXCEPT ![t] = label]
      BY <1>2, Moves DEF LockMemoryToStore
    <2> QED BY <2>1, <2>2, MemMutexTaken
  <1>3. CASE StoreInMemory(t)
    <2>1. mem'.owner = NoThread /\ disk' = disk /\ pc[t] = "spaceInMemory"
      <3>1. Inserted(t) \in Storage(MemElements)
        BY <1>3, InsertedType DEF StoreInMemory, TypeOK
      <3>2. Unlocked(Inserted(t)) \in Storage(MemElements)
            /\ Unlocked(Inserted(t)).owner = NoThread
        BY <3>1, MutexType, Owners
      <3> QED BY <1>3, <3>2, Owners DEF StoreInMemory
    <2>2. pc' = [pc EXCEPT ![t] = "idle"]
      BY <1>3, Moves DEF StoreInMemory
    <2>3. mem.owner = t
      BY <2>1, Outside
    <2> QED BY <2>1, <2>2, <2>3, MemMutexTaken
  <1>4. CASE WaitForSpaceInMemory(t)
    <2>1. mem'.owner = mem.owner /\ disk' = disk /\ pc[t] = "spaceInMemory"
      BY <1>4, OwnersInPlace DEF WaitForSpaceInMemory
    <2>2. PICK label \in {"spaceInMemory", "waitOnMemory"} :
            pc' = [pc EXCEPT ![t] = label]
      BY <1>4, Moves DEF WaitForSpaceInMemory
    <2> QED BY <2>1, <2>2, NoMutexTaken
  <1>5. CASE GiveUpStoring(t)
    <2>1. /\ pc' = [pc EXCEPT ![t] = "joinWorker"] /\ UNCHANGED <<mem, disk>>
          /\ pc[t] = "spaceInMemory"
      BY <1>5, Moves DEF GiveUpStoring
    <2> QED BY <2>1, NoMutexTaken
  <1>6. CASE JoinWorker(t)
    <2>1. mem'.owner = NoThread /\ disk' = disk /\ pc[t] = "joinWorker"
      BY <1>6, Owners DEF JoinWorker, StoresOK
    <2>2. pc' = [pc EXCEPT ![t] = "idle"]
      BY <1>6, Moves DEF JoinWorker
    <2>3. mem.owner = t
      BY <2>1, Outside
    <2> QED BY <2>1, <2>2, <2>3, MemMutexTaken
  <1> QED BY <1>1, <1>2, <1>3, <1>4, <1>5, <1>6

\* The steps of Get and of both Deletes keep MutualExclusion.
LEMMA MutexGetDelete ==
  ASSUME TypeOK, MutualExclusion, NEW t \in Clients,
         \/ GetFromMemory(t) \/ GetSettled(t) \/ GetStarted(t)
         \/ DeleteFromMemory(t) \/ DeleteFromDisk(t)
         \/ DeleteIfFromMemory(t) \/ DeleteIfFromDisk(t)
  PROVE  MutualExclusion'
PROOF
  <1> t \in Threads /\ t # Worker /\ t # NoThread /\ StoresOK
    BY ThreadsAssumption DEF Threads, TypeOK
  <1> USE DEF MemHolds, MemMayHold, DiskHolds, DiskMayHold
  <1>0. mem.index \in Seq(MemElements) /\ disk.index \in Seq(DiskElements)
    BY DEF StoresOK, Storage
  <1>1. CASE GetFromMemory(t) \/ GetSettled(t)
    <2>1. /\ pc[t] \in {"getFromMemory", "getFromDisk", "waitingToGet"}
          /\ UNCHANGED <<mem, disk>>
      BY <1>1 DEF GetFromMemory, GetSettled
    <2>2. PICK label \in {"idle", "getFromDisk"} : pc' = [pc EXCEPT ![t] = label]
      BY <1>1, Moves DEF GetFromMemory, GetSettled, ReadFile
    <2> QED BY <2>1, <2>2, NoMutexTaken
  <1>2. CASE GetStarted(t)
    <2>1. /\ pc[t] \in {"getFromDisk", "waitingToGet"}
          /\ disk'.owner = disk.owner /\ mem' = mem
      BY <1>2, Owners DEF GetStarted, Free, StoresOK
    <2>2. PICK label \in {"idle", "waitingToGet"} : pc' = [pc EXCEPT ![t] = label]
      BY <1>2, Moves DEF GetStarted
    <2> QED BY <2>1, <2>2, NoMutexTaken
  <1>3. CASE DeleteFromMemory(t)
    <2> DEFINE i == Find(mem.index, call[t].key)
    <2>1. i \in 0 .. Len(mem.index)
      BY <1>0, FindResult
    <2>2. mem'.owner = mem.owner
      <3>1. CASE i = 0
        BY <1>3, <3>1 DEF DeleteFromMemory
      <3>2. CASE i # 0
        <4>1. Erased(i) \in Storage(MemElements)
          BY <2>1, <3>2, ErasedType
        <4> QED BY <1>3, <3>2, <4>1, Owners, OwnersInPlace DEF DeleteFromMemory
      <3> QED BY <3>1, <3>2
    <2>3. pc[t] = "deleteFromMemory" /\ disk' = disk
      BY <1>3 DEF DeleteFromMemory
    <2>4. PICK label \in {"idle", "recheck", "deleteFromDisk"} :
            pc' = [pc EXCEPT ![t] = label]
      BY <1>3, Moves DEF DeleteFromMemory
    <2> QED BY <2>2, <2>3, <2>4, NoMutexTaken
  <1>4. CASE DeleteFromDisk(t)
    <2> DEFINE k == call[t].key
               i == Find(disk.index, k)
    <2>1. i \in 0 .. Len(disk.index) /\ (i # 0 => disk.index[i].key = k)
      BY <1>0, FindResult
    <2>2. disk'.owner = disk.owner
      <3>1. CASE UNCHANGED disk
        BY <3>1
      <3>2. CASE disk' = Notified(Marked(disk, i, "cancelled"))
        <4>1. Marked(disk, i, "cancelled") \in Storage(DiskElements)
          BY <2>1, MarkedType DEF StoresOK, States
        <4> QED BY <3>2, <4>1, Owners DEF StoresOK
      <3>3. CASE i # 0 /\ files[k] # NoValue /\ disk' = Notified(WithoutFile(i))
        <4>1. WithoutFile(i) \in Storage(DiskElements)
          BY <2>1, <3>3, WithoutFileType DEF TypeOK
        <4> QED BY <3>3, <4>1, Owners, OwnersInPlace
      <3> QED BY <1>4, <3>1, <3>2, <3>3 DEF DeleteFromDisk
    <2>3. pc[t] = "deleteFromDisk" /\ mem' = mem
      BY <1>4 DEF DeleteFromDisk
    <2>4. PICK label \in {"idle", "recheck"} : pc' = [pc EXCEPT ![t] = label]
      BY <1>4, Moves DEF DeleteFromDisk
    <2> QED BY <2>2, <2>3, <2>4, NoMutexTaken
  <1>5. CASE DeleteIfFromMemory(t)
    <2> DEFINE i == FindAnyOf(mem.index, call[t].keys)
    <2>1. pc[t] = "deleteIfFromMemory" /\ disk' = disk
          /\ mem.owner \in {t, NoThread}
      BY <1>5 DEF DeleteIfFromMemory, Free
    <2>2. CASE /\ i # 0 /\ mem' = Notified(Locked(Erased(i), t))
               /\ Goto(t, "deleteIfFromMemory")
      <3>1. Erased(i) \in Storage(MemElements)
        BY <1>0, <2>2, FindAnyOfResult, ErasedType
      <3>2. Locked(Erased(i), t) \in Storage(MemElements)
            /\ Locked(Erased(i), t).owner = t
        BY <3>1, MutexType, Owners
      <3>3. mem'.owner = t
        BY <2>2, <3>2, Owners
      <3> QED BY <2>1, <2>2, <3>3, Moves, MemMutexTaken
    <2>3. CASE mem' = Unlocked(mem) /\ Goto(t, "deleteIfFromDisk")
      <3>1. mem'.owner = NoThread
        BY <2>3, Owners DEF StoresOK
      <3>2. disk.owner # t
        BY <2>1, Outside
      <3>3. pc' = [pc EXCEPT ![t] = "deleteIfFromDisk"]
        BY <2>3, Moves
      <3> QED BY <2>1, <3>1, <3>2, <3>3, MemMutexTaken
    <2> QED BY <1>5, <2>2, <2>3 DEF DeleteIfFromMemory
  <1>6. CASE DeleteIfFromDisk(t)
    <2> DEFINE i == FindAnyOf(disk.index, call[t].keys)
    <2>1. pc[t] = "deleteIfFromDisk" /\ mem' = mem
          /\ disk.owner \in {t, NoThread}
      BY <1>6 DEF DeleteIfFromDisk, Free
    <2>2. CASE /\ disk' = [Notified(Locked(disk, t)) EXCEPT !.index = RemoveAt(@, i)]
               /\ Goto(t, "deleteIfFromDisk")
      <3>1. disk'.owner = t
        BY <2>2 DEF StoresOK, Storage, Notified, Locked
      <3>2. pc' = [pc EXCEPT ![t] = "deleteIfFromDisk"]
        BY <2>2, Moves
      <3> QED BY <2>1, <3>1, <3>2, DiskMutexTaken
    <2>3. CASE disk' = Unlocked(disk) /\ Return(t, "done")
      <3>1. disk'.owner = NoThread
        BY <2>3, Owners DEF StoresOK
      <3>2. pc' = [pc EXCEPT ![t] = "idle"]
        BY <2>3, Moves
      <3> QED BY <2>1, <3>1, <3>2, DiskMutexTaken
    <2> QED BY <1>6, <2>2, <2>3 DEF DeleteIfFromDisk
  <1> QED BY <1>1, <1>2, <1>3, <1>4, <1>5, <1>6

\* The steps that set the limits keep MutualExclusion.
LEMMA MutexSetMax ==
  ASSUME TypeOK, MutualExclusion, NEW t \in Clients,
         \/ CheckDiskMax(t) \/ SetMaxMemoryUsage(t)
         \/ CheckMemMax(t) \/ SetMaxDiskUsage(t)
  PROVE  MutualExclusion'
PROOF
  <1> t \in Threads /\ t # Worker /\ t # NoThread /\ StoresOK
    BY ThreadsAssumption DEF Threads, TypeOK
  <1> USE DEF MemHolds, MemMayHold, DiskHolds, DiskMayHold
  <1>1. CASE CheckDiskMax(t)
    <2>1. pc[t] = "checkDiskMax" /\ disk' = disk /\ mem.owner = NoThread
      BY <1>1 DEF CheckDiskMax, Free
    <2>2. CASE mem' = Locked(mem, t) /\ Goto(t, "setMemMax")
      <3>1. mem'.owner = t /\ pc' = [pc EXCEPT ![t] = "setMemMax"]
        BY <2>2, Owners, Moves DEF StoresOK
      <3> QED BY <2>1, <3>1, MemMutexTaken
    <2>3. CASE UNCHANGED mem /\ Return(t, "threw")
      <3>1. pc' = [pc EXCEPT ![t] = "idle"]
        BY <2>3, Moves
      <3> QED BY <2>1, <2>3, <3>1, NoMutexTaken
    <2> QED BY <1>1, <2>2, <2>3 DEF CheckDiskMax
  <1>2. CASE SetMaxMemoryUsage(t)
    <2>1. pc[t] = "setMemMax" /\ disk' = disk
          /\ pc' = [pc EXCEPT ![t] = "idle"]
      BY <1>2, Moves DEF SetMaxMemoryUsage
    <2>2. mem'.owner = NoThread
      BY <1>2 DEF SetMaxMemoryUsage, StoresOK, Storage, Notified, Unlocked
    <2>3. mem.owner = t
      BY <2>1, Outside
    <2> QED BY <2>1, <2>2, <2>3, MemMutexTaken
  <1>3. CASE CheckMemMax(t)
    <2>1. pc[t] = "checkMemMax" /\ mem' = mem /\ disk.owner = NoThread
      BY <1>3 DEF CheckMemMax, Free
    <2>2. CASE disk' = Locked(disk, t) /\ Goto(t, "setDiskMax")
      <3>1. disk'.owner = t /\ pc' = [pc EXCEPT ![t] = "setDiskMax"]
        BY <2>2, Owners, Moves DEF StoresOK
      <3> QED BY <2>1, <3>1, DiskMutexTaken
    <2>3. CASE UNCHANGED disk /\ Return(t, "threw")
      <3>1. pc' = [pc EXCEPT ![t] = "idle"]
        BY <2>3, Moves
      <3> QED BY <2>1, <2>3, <3>1, NoMutexTaken
    <2> QED BY <1>3, <2>2, <2>3 DEF CheckMemMax
  <1>4. CASE SetMaxDiskUsage(t)
    <2>1. pc[t] = "setDiskMax" /\ mem' = mem
          /\ pc' = [pc EXCEPT ![t] = "idle"]
      BY <1>4, Moves DEF SetMaxDiskUsage
    <2>2. disk'.owner = NoThread
      BY <1>4 DEF SetMaxDiskUsage, StoresOK, Storage, Notified, Unlocked
    <2>3. disk.owner = t
      BY <2>1, Outside
    <2> QED BY <2>1, <2>2, <2>3, DiskMutexTaken
  <1> QED BY <1>1, <1>2, <1>3, <1>4

\* The steps of StoreOnDisk keep MutualExclusion.
LEMMA MutexStoreOnDisk ==
  ASSUME TypeOK, MutualExclusion, NEW t \in Threads, StoreOnDiskStep(t)
  PROVE  MutualExclusion'
PROOF
  <1> t # NoThread /\ StoresOK
    BY ThreadsAssumption DEF Threads, TypeOK
  <1> USE DEF MemHolds, MemMayHold, DiskHolds, DiskMayHold
  <1> DEFINE ended == IF t = Worker THEN "relockMemory" ELSE "idle"
             thrown == IF t = Worker THEN "exited" ELSE "idle"
  <1>1. CASE BeginStoreOnDisk(t)
    <2>1. pc[t] = "lockDisk" /\ disk.owner = NoThread
      BY <1>1 DEF BeginStoreOnDisk, Free
    <2>2. mem.owner = t
      BY <2>1, Outside
    <2>3. CASE /\ mem' = Unlocked(mem)
               /\ disk' = [Locked(disk, t) EXCEPT
                    !.index = Append(@, [key |-> call[t].key, state |-> "started"])]
               /\ Goto(t, "spaceOnDisk")
      <3>1. mem'.owner = NoThread /\ disk'.owner = t
        BY <2>3 DEF StoresOK, Storage, Locked, Unlocked
      <3>2. pc' = [pc EXCEPT ![t] = "spaceOnDisk"]
        BY <2>3, Moves
      <3> QED BY <2>1, <2>2, <3>1, <3>2, OwnedKept DEF Keeps
    <2>4. CASE /\ mem' = Notified(Unlocked(mem)) /\ disk' = Notified(disk)
               /\ ThrowFromStoreOnDisk(t)
      <3>1. mem'.owner = NoThread /\ disk'.owner = disk.owner
        BY <2>4 DEF StoresOK, Storage, Notified, Unlocked
      <3>2. PICK label \in {"idle", "exited"} : pc' = [pc EXCEPT ![t] = label]
        BY <2>4, Moves
      <3> QED BY <2>1, <2>2, <3>1, <3>2, MemMutexTaken
    <2> QED BY <1>1, <2>3, <2>4 DEF BeginStoreOnDisk
  <1>2. CASE EndWaitForSpaceOnDisk(t) \/ NoticeCancelled(t) \/ DecideToWaitOnDisk(t)
    <2>1. /\ pc[t] = "spaceOnDisk" /\ mem' = mem /\ disk'.owner = disk.owner
      BY <1>2 DEF EndWaitForSpaceOnDisk, NoticeCancelled, DecideToWaitOnDisk,
                  StoresOK, Storage
    <2>2. PICK label \in {"writeFile", "cancelled", "waitOnDisk"} :
            pc' = [pc EXCEPT ![t] = label]
      BY <1>2, Moves
      DEF EndWaitForSpaceOnDisk, NoticeCancelled, DecideToWaitOnDisk
    <2> QED BY <2>1, <2>2, NoMutexTaken
  <1>3. CASE PopOldest(t)
    <2>1. pc[t] = "spaceOnDisk" /\ mem' = mem
      BY <1>3 DEF PopOldest
    <2>2. CASE disk' = WithoutFile(1) /\ Goto(t, "spaceOnDisk")
      <3>1. disk'.owner = disk.owner /\ pc' = [pc EXCEPT ![t] = "spaceOnDisk"]
        BY <2>2, OwnersInPlace, Moves
      <3> QED BY <2>1, <3>1, NoMutexTaken
    <2>3. CASE disk' = Unlocked(disk) /\ ThrowFromStoreOnDisk(t)
      <3>1. disk'.owner = NoThread
        BY <2>3, Owners DEF StoresOK
      <3>2. PICK label \in {"idle", "exited"} : pc' = [pc EXCEPT ![t] = label]
        BY <2>3, Moves
      <3>3. disk.owner = t
        BY <2>1, Outside
      <3> QED BY <2>1, <3>1, <3>2, <3>3, DiskMutexTaken
    <2> QED BY <1>3, <2>2, <2>3 DEF PopOldest
  <1>4. CASE WaitOnDisk(t)
    <2>1. /\ pc[t] = "waitOnDisk" /\ mem' = mem
          /\ pc' = [pc EXCEPT ![t] = "waitingOnDisk"] /\ disk'.owner = NoThread
      BY <1>4, Owners, Moves DEF WaitOnDisk, StoresOK
    <2>2. disk.owner = t
      BY <2>1, Outside
    <2> QED BY <2>1, <2>2, DiskMutexTaken
  <1>5. CASE WakeOnDisk(t)
    <2>1. /\ pc[t] = "waitingOnDisk" /\ mem' = mem /\ disk.owner = NoThread
          /\ pc' = [pc EXCEPT ![t] = "spaceOnDisk"] /\ disk'.owner = t
      BY <1>5, Owners, Moves DEF WakeOnDisk, Free, StoresOK
    <2> QED BY <2>1, DiskMutexTaken
  <1>6. CASE WriteSucceeds(t) \/ WriteFails(t) \/ EndCancelled(t)
    <2>1. pc[t] \in {"writeFile", "cancelled"} /\ mem'.owner = mem.owner
      BY <1>6, Owners DEF WriteSucceeds, WriteFails, EndCancelled, StoresOK
    <2>2. disk'.owner = NoThread
      <3>1. CASE WriteSucceeds(t)
        <4> DEFINE m == Marked(disk, FindStartedToStoreOnDisk(call[t].key),
                               "completed")
                   store == Notified(Unlocked(m))
        <4>1. m \in Storage(DiskElements)
          BY SearchResults, MarkedType DEF StoresOK, States
        <4> HIDE DEF m
        <4>2. Unlocked(m) \in Storage(DiskElements)
          BY <4>1, MutexType
        <4>3. store \in Storage(DiskElements) /\ store.owner = NoThread
          BY <4>1, <4>2, MutexType, Owners
        <4>4. disk' = [store EXCEPT !.current = @ + Required(t)]
          BY <3>1 DEF WriteSucceeds, m
        <4> HIDE DEF store
        <4> QED BY <4>3, <4>4 DEF Storage
      <3>2. CASE WriteFails(t) \/ EndCancelled(t)
        BY <3>2 DEF WriteFails, EndCancelled, StoresOK, Storage, Notified, Unlocked
      <3> QED BY <1>6, <3>1, <3>2
    <2>3. PICK label \in {ended, thrown} : pc' = [pc EXCEPT ![t] = label]
      BY <1>6, Moves DEF WriteSucceeds, WriteFails, EndCancelled
    <2>4. disk.owner = t
      BY <2>1, Outside
    <2> QED BY <2>1, <2>2, <2>3, <2>4, DiskMutexTaken
  <1>7. CASE AbandonStoreOnDisk(t)
    <2>1. pc[t] \in {"writeFile", "cancelled"} /\ mem' = mem
          /\ pc' = [pc EXCEPT ![t] = ended]
      BY <1>7, Moves DEF AbandonStoreOnDisk
    <2>2. disk.owner = t
      BY <2>1, Outside
    <2>3. disk'.owner = IF t = Worker THEN t ELSE NoThread
      BY <1>7, <2>2, Owners DEF AbandonStoreOnDisk, StoresOK
    <2> QED BY <2>1, <2>2, <2>3, DiskMutexTaken
  <1> QED BY <1>1, <1>2, <1>3, <1>4, <1>5, <1>6, <1>7 DEF StoreOnDiskStep

\* The worker's own steps, and waiting for memory, keep MutualExclusion.
LEMMA MutexMemory ==
  ASSUME TypeOK, MutualExclusion, NEW t \in Threads,
         \/ WaitOnMemory(t) \/ WakeOnMemory(t)
         \/ t = Worker /\ (TakeOldest \/ WorkerReturns \/ MarkStored)
  PROVE  MutualExclusion'
PROOF
  <1> t # NoThread /\ StoresOK
    BY ThreadsAssumption DEF Threads, TypeOK
  <1> USE DEF MemHolds, MemMayHold, DiskHolds, DiskMayHold
  <1>0. mem.index \in Seq(MemElements)
    BY DEF StoresOK, Storage
  <1>1. CASE WaitOnMemory(t)
    <2>1. /\ pc[t] = "waitOnMemory" /\ disk' = disk /\ mem'.owner = NoThread
          /\ pc' = [pc EXCEPT ![t] = "waitingOnMemory"]
      BY <1>1, Owners, Moves DEF WaitOnMemory, StoresOK
    <2>2. mem.owner = t
      BY <2>1, Outside
    <2> QED BY <2>1, <2>2, MemMutexTaken
  <1>2. CASE WakeOnMemory(t)
    <2> DEFINE i == FindMemoryRemovalCandidate
    <2>0. i # 0 => Erased(i) \in Storage(MemElements)
      BY SearchResults, ErasedType DEF StoresOK, Storage
    <2>1. pc[t] = "waitingOnMemory" /\ disk' = disk /\ mem.owner = NoThread
          /\ mem'.owner = t
      BY <1>2, <2>0, Owners DEF WakeOnMemory, Free, StoresOK
    <2>2. PICK label \in {"findOldest", "spaceInMemory"} :
            pc' = [pc EXCEPT ![t] = label]
      BY <1>2, Moves DEF WakeOnMemory
    <2> QED BY <2>1, <2>2, MemMutexTaken
  <1>3. CASE t = Worker /\ TakeOldest
    <2> DEFINE store == Marked(mem, FindOldestInMemoryOnly, "started")
    <2>1. store \in Storage(MemElements)
      BY SearchResults, MarkedType DEF StoresOK, States
    <2>2. pc[t] = "findOldest" /\ disk' = disk /\ mem.owner \in {t, NoThread}
          /\ mem'.owner = t
      BY <1>3, <2>1, Owners DEF TakeOldest, Free
    <2>3. PICK label \in {"lockDisk", "waitOnMemory"} :
            pc' = [pc EXCEPT ![t] = label]
      BY <1>3, Moves DEF TakeOldest
    <2> QED BY <2>2, <2>3, MemMutexTaken
  <1>4. CASE t = Worker /\ WorkerReturns
    <2>1. /\ pc[t] = "findOldest" /\ disk' = disk /\ mem.owner \in {t, NoThread}
          /\ mem'.owner = NoThread /\ pc' = [pc EXCEPT ![t] = "exited"]
      BY <1>4, Owners, Moves DEF WorkerReturns, Free, StoresOK
    <2> QED BY <2>1, MemMutexTaken
  <1>5. CASE t = Worker /\ MarkStored
    <2> DEFINE i == Find(mem.index, call[Worker].key)
    <2>1. Marked(mem, i, "completed") \in Storage(MemElements)
      BY <1>0, FindResult, MarkedType DEF StoresOK, States
    <2>2. /\ pc[t] = "relockMemory" /\ mem.owner = NoThread
          /\ pc' = [pc EXCEPT ![t] = "findOldest"]
      BY <1>5 DEF MarkStored, Free
    <2>3. mem'.owner = mem.owner
      BY <1>5, <2>1, Owners DEF MarkStored, StoresOK
    <2>4. disk'.owner = IF disk.owner = t THEN NoThread ELSE disk.owner
      BY <1>5, Owners DEF MarkStored, StoresOK
    <2> QED BY <2>2, <2>3, <2>4, OwnedKept DEF Keeps
  <1> QED BY <1>1, <1>2, <1>3, <1>4, <1>5

\* MutualExclusion holds initially.
LEMMA MutexInit == Init => MutualExclusion
BY ThreadsAssumption
DEF Init, EmptyStorage, MutualExclusion, Owned, Threads, MemHolds, DiskHolds

\* Every step keeps MutualExclusion.
LEMMA MutexStep == TypeOK /\ MutualExclusion /\ [Next]_vars => MutualExclusion'
PROOF
  <1> SUFFICES ASSUME TypeOK, MutualExclusion, [Next]_vars PROVE MutualExclusion'
    OBVIOUS
  <1>0. Clients \subseteq Threads /\ Worker \in Threads
    BY DEF Threads
  <1>1. ASSUME NEW t \in Clients, ClientStep(t) PROVE MutualExclusion'
    BY <1>0, <1>1, MutexStore, MutexMemory, MutexStoreOnDisk, MutexGetDelete,
       MutexSetMax DEF ClientStep
  <1>2. ASSUME NEW t \in Clients, NEW c \in Requests, Call(t, c)
        PROVE  MutualExclusion'
    <2>1. /\ pc[t] = "idle" /\ UNCHANGED <<mem, disk>>
          /\ pc' = [pc EXCEPT ![t] = FirstLabel(c)]
      BY <1>2 DEF Call
    <2>2. FirstLabel(c) \in {"checkDiskMax", "checkMemMax", "check"}
      BY DEF FirstLabel
    <2> QED BY <1>0, <2>1, <2>2, NoMutexTaken
        DEF MemHolds, MemMayHold, DiskHolds, DiskMayHold
  <1>3. CASE WorkerStep
    BY <1>0, <1>3, MutexMemory, MutexStoreOnDisk DEF WorkerStep
  <1>4. CASE DestructorStep
    <2>1. UNCHANGED pc /\ mem'.owner = mem.owner /\ disk'.owner = disk.owner
      BY <1>0, <1>4, Owners DEF DestructorStep, Destroy, NotifyWorker,
         EndDestroy, threadVars, TypeOK, StoresOK
    <2> QED BY <2>1 DEF MutualExclusion, Owned
  <1>5. CASE UNCHANGED vars
    BY <1>5 DEF vars, threadVars, MutualExclusion, Owned
  <1> QED BY <1>1, <1>2, <1>3, <1>4, <1>5 DEF Next, Destroyed

\* MutualExclusion: whatever the number of clients and the calls they make,
\* the scopes of the C++ locks and the hand-over of the disk mutex from
\* StoreInMemory to StoreOnDisk never let two threads into one mutex.
THEOREM MutexesExclude == Spec => []MutualExclusion
BY TypeInit, TypeStep, MutexInit, MutexStep, PTL DEF Spec

-----------------------------------------------------------------------------
(* From Store to the directory.                                            *)

\* The elements of an index with a key, and that there is at most one of them.
ElementsOf(index, k) == {index[i] : i \in {j \in 1 .. Len(index) : index[j].key = k}}
Once(index, k) ==
  \A i, j \in 1 .. Len(index) : index[i].key = k /\ index[j].key = k => i = j

InMemory(k) == ElementsOf(mem.index, k)
OnDisk(k) == ElementsOf(disk.index, k)

\* The threads that store a key, and how far they are.
Storers(k) == {t \in Threads : call[t].op \in {"Store", "Copy"} /\ call[t].key = k}
StageAt(label) ==
  CASE label \in {"spaceOnDisk", "waitOnDisk", "waitingOnDisk", "writeFile"} -> "writing"
    [] label = "relockMemory" -> "written"
    [] label = "cancelled" -> "cancelled"
    [] OTHER -> "before"
Stage(t) == StageAt(pc[t])

Copied(k) == {[key |-> k, state |-> "completed"]}

\* What is there of a key that a thread is storing.
StoredSoFar(t, k) ==
  /\ Stage(t) # "cancelled"
  /\ InMemory(k) = IF t = Worker
                   THEN {[key |-> k, value |-> call[t].value, state |-> "started"]}
                   ELSE {}
  /\ OnDisk(k) = CASE Stage(t) = "writing" -> {[key |-> k, state |-> "started"]}
                   [] Stage(t) = "written" -> Copied(k)
                   [] OTHER -> {}
  /\ Stage(t) = "written" => files[k] = call[t].value

\* What an element in memory says of the rest.
StateIsTrue(e, k) ==
  /\ e.state = "notStarted" => Storers(k) = {} /\ OnDisk(k) = {}
  /\ e.state = "started" => Worker \in Storers(k) \/ pc[Worker] = "exited"
  /\ e.state = "completed" => Storers(k) = {} /\ OnDisk(k) = Copied(k) /\ files[k] = e.value

OnItsWay(k) ==
  /\ k \notin used => InMemory(k) = {} /\ OnDisk(k) = {} /\ Storers(k) = {}
  /\ Once(mem.index, k) /\ Once(disk.index, k)
  /\ \A t, u \in Storers(k) : t = u
  /\ \A t \in Storers(k) : StoredSoFar(t, k)
  /\ \A e \in InMemory(k) : StateIsTrue(e, k)

\* A Delete is only ever of keys that it has condemned.
DeletesAreKnown ==
  \A t \in Clients : /\ call[t].op = "Delete" => call[t].key \in condemned
                     /\ call[t].op = "DeleteIf" => call[t].keys \subseteq condemned

Way(k) == running /\ k \notin popped \cup condemned => OnItsWay(k)
OneWay == DeletesAreKnown /\ \A k \in Keys : Way(k)

-----------------------------------------------------------------------------
(* What the changes of an index do to the elements with a key.             *)

\* What is left when an element is removed.
LEMMA RemovedElements ==
  ASSUME NEW E, NEW s \in Seq(E), NEW i \in 1 .. Len(s)
  PROVE  /\ Len(RemoveAt(s, i)) = Len(s) - 1
         /\ \A j \in 1 .. Len(RemoveAt(s, i)) :
              RemoveAt(s, i)[j] = s[IF j < i THEN j ELSE j + 1]
PROOF
  <1> DEFINE r == RemoveAt(s, i)
             old(j) == IF j < i THEN j ELSE j + 1
  <1> DEFINE a == SubSeq(s, 1, i - 1)
             b == SubSeq(s, i + 1, Len(s))
  <1>1. a \in Seq(E) /\ Len(a) = i - 1 /\ \A j \in 1 .. (i - 1) : a[j] = s[j]
    OBVIOUS
  <1>2. b \in Seq(E) /\ Len(b) = Len(s) - i /\ \A j \in 1 .. (Len(s) - i) : b[j] = s[i + j]
    OBVIOUS
  <1>3. r = a \o b
    BY DEF RemoveAt
  <1>4. Len(r) = Len(s) - 1
    <2>1. Len(s) \in Nat /\ i \in Nat
      OBVIOUS
    <2> HIDE DEF a, b, r
    <2>2. a \in Seq(E) /\ b \in Seq(E)
      BY <1>1, <1>2
    <2>3. Len(a \o b) = Len(a) + Len(b)
      BY <2>2, ConcatProperties, Zenon
    <2>4. Len(a) = i - 1 /\ Len(b) = Len(s) - i
      BY <1>1, <1>2
    <2>5. Len(r) = (i - 1) + (Len(s) - i)
      BY <1>3, <2>3, <2>4, Zenon
    <2> QED BY <2>1, <2>5
  <1> HIDE DEF a, b, r
  <1>5. ASSUME NEW j \in 1 .. Len(r) PROVE r[j] = s[old(j)]
    <2>1. CASE j < i
      BY <1>1, <1>2, <1>3, <1>4, <2>1
    <2>2. CASE j >= i
      <3> DEFINE m == j - Len(a)
      <3>1. m \in 1 .. (Len(s) - i) /\ m \in 1 .. Len(b) /\ j = Len(a) + m
        BY <1>1, <1>2, <1>4, <2>2
      <3>2. i + m = j + 1
        BY <1>1, <2>2
      <3> HIDE DEF m
      <3>3. (a \o b)[Len(a) + m] = b[m]
        BY <1>1, <1>2, <3>1
      <3>4. r[j] = b[m]
        BY <1>3, <3>1, <3>3
      <3> QED BY <1>2, <2>2, <3>1, <3>2, <3>4
    <2> QED BY <2>1, <2>2
  <1> QED BY <1>4, <1>5 DEF r

\* Removing an element.
LEMMA RemoveElement ==
  ASSUME NEW E, NEW s \in Seq(E), NEW i \in 1 .. Len(s), NEW k, Once(s, k)
  PROVE  /\ Once(RemoveAt(s, i), k)
         /\ ElementsOf(RemoveAt(s, i), k) = IF s[i].key = k THEN {} ELSE ElementsOf(s, k)
PROOF
  <1> DEFINE r == RemoveAt(s, i)
             old(j) == IF j < i THEN j ELSE j + 1
  <1>1. /\ Len(r) = Len(s) - 1
        /\ \A j \in 1 .. Len(r) : r[j] = s[old(j)]
    BY RemovedElements
  <1>2. \A j \in 1 .. Len(r) : old(j) \in 1 .. Len(s) /\ old(j) # i
    BY <1>1
  <1>3. \A m \in 1 .. Len(s) : m # i => \E j \in 1 .. Len(r) : m = old(j)
    <2> SUFFICES ASSUME NEW m \in 1 .. Len(s), m # i
                 PROVE  \E j \in 1 .. Len(r) : m = old(j)
      OBVIOUS
    <2>1. CASE m < i
      BY <1>1, <2>1
    <2>2. CASE m > i
      <3>1. m - 1 \in 1 .. Len(r) /\ old(m - 1) = m
        BY <1>1, <2>2
      <3> QED BY <3>1
    <2> QED BY <2>1, <2>2
  <1>4. \A j, m \in 1 .. Len(r) : old(j) = old(m) => j = m
    BY <1>1
  <1> HIDE DEF r, old
  <1>5. Once(r, k)
    <2> SUFFICES ASSUME NEW j \in 1 .. Len(r), NEW m \in 1 .. Len(r), r[j].key = k, r[m].key = k
                 PROVE  j = m
      BY DEF Once
    <2>1. s[old(j)].key = k /\ s[old(m)].key = k
      BY <1>1
    <2>2. old(j) = old(m)
      BY <1>2, <2>1 DEF Once
    <2> QED BY <1>4, <2>2
  <1>6. ElementsOf(r, k) = IF s[i].key = k THEN {} ELSE ElementsOf(s, k)
    <2>1. CASE s[i].key = k
      BY <1>1, <1>2, <2>1 DEF Once, ElementsOf
    <2>2. CASE s[i].key # k
      <3>1. ElementsOf(r, k) \subseteq ElementsOf(s, k)
        BY <1>1, <1>2 DEF ElementsOf
      <3>2. ASSUME NEW m \in 1 .. Len(s), s[m].key = k PROVE s[m] \in ElementsOf(r, k)
        <4>1. PICK j \in 1 .. Len(r) : m = old(j)
          BY <1>3, <2>2, <3>2
        <4> QED BY <1>1, <3>2, <4>1 DEF ElementsOf
      <3>3. ElementsOf(s, k) \subseteq ElementsOf(r, k)
        BY <3>2 DEF ElementsOf
      <3> QED BY <2>2, <3>1, <3>3
    <2> QED BY <2>1, <2>2
  <1> QED BY <1>5, <1>6 DEF r

\* Appending one: r is s with e at its end.
Longer(s, r, e) ==
  /\ Len(s) \in Nat /\ Len(r) = Len(s) + 1 /\ r[Len(r)] = e
  /\ \A j \in 1 .. Len(s) : r[j] = s[j]

\* There the key of e has one element, and the other keys keep theirs.
LEMMA AppendElement ==
  ASSUME NEW s, NEW r, NEW e, Longer(s, r, e),
         NEW k, Once(s, k), e.key = k => ElementsOf(s, k) = {}
  PROVE  /\ Once(r, k)
         /\ e.key = k => ElementsOf(r, k) = {e}
         /\ e.key # k => ElementsOf(r, k) = ElementsOf(s, k)
PROOF
  <1>1. /\ Len(r) = Len(s) + 1 /\ r[Len(r)] = e
        /\ \A j \in 1 .. Len(s) : r[j] = s[j]
        /\ 1 .. Len(r) = (1 .. Len(s)) \cup {Len(r)} /\ Len(r) \notin 1 .. Len(s)
    BY DEF Longer
  <1>2. e.key = k => \A j \in 1 .. Len(s) : s[j].key # k
    BY DEF ElementsOf
  <1>3. Once(r, k)
    BY <1>1, <1>2 DEF Once
  <1>4. /\ e.key = k => ElementsOf(r, k) = {e}
        /\ e.key # k => ElementsOf(r, k) = ElementsOf(s, k)
    BY <1>1, <1>2 DEF ElementsOf
  <1> QED BY <1>3, <1>4

\* Changing the state of one: r is s with e in the place of an element with its key.
Changed(s, r, i, e) ==
  /\ i \in 1 .. Len(s) /\ Len(r) = Len(s) /\ r[i] = e /\ e.key = s[i].key
  /\ \A j \in 1 .. Len(s) : j # i => r[j] = s[j]

\* There the key of e has this one element, and the other keys keep theirs.
LEMMA ChangeElement ==
  ASSUME NEW s, NEW r, NEW i, NEW e, Changed(s, r, i, e), NEW k, Once(s, k)
  PROVE  /\ Once(r, k)
         /\ e.key = k => ElementsOf(r, k) = {e}
         /\ e.key # k => ElementsOf(r, k) = ElementsOf(s, k)
PROOF
  <1>1. Once(r, k)
    BY DEF Once, Changed
  <1>2. /\ e.key = k => ElementsOf(r, k) = {e}
        /\ e.key # k => ElementsOf(r, k) = ElementsOf(s, k)
    BY DEF Once, Changed, ElementsOf
  <1> QED BY <1>1, <1>2

\* That is what marking an element of a store does.
LEMMA MarkElement ==
  ASSUME NEW E, E \in {MemElements, DiskElements}, NEW store \in Storage(E),
         NEW i \in 1 .. Len(store.index), NEW state
  PROVE  Changed(store.index, Marked(store, i, state).index, i,
                 [store.index[i] EXCEPT !.state = state])
PROOF
  <1> DEFINE s == store.index
             e == [s[i] EXCEPT !.state = state]
             r == [s EXCEPT ![i] = e]
  <1>1. Marked(store, i, state).index = r
    BY DEF Marked, Storage
  <1>2. s \in Seq(E) /\ s[i] \in E
    BY DEF Storage
  <1>3. e.key = s[i].key
    BY <1>2 DEF MemElements, DiskElements
  <1>4. /\ Len(r) = Len(s) /\ r[i] = e
        /\ \A j \in 1 .. Len(s) : j # i => r[j] = s[j]
    BY <1>2
  <1> HIDE DEF s, e, r
  <1>5. Changed(s, r, i, e)
    BY <1>3, <1>4 DEF Changed, s
  <1> QED BY <1>1, <1>5 DEF s, e

\* Finding one.
LEMMA FindElement ==
  ASSUME NEW E, NEW s \in Seq(E), NEW k
  PROVE  /\ Find(s, k) = 0 <=> ElementsOf(s, k) = {}
         /\ Find(s, k) # 0 => s[Find(s, k)] \in ElementsOf(s, k)
PROOF
  <1> DEFINE I == {i \in 1 .. Len(s) : s[i].key = k}
  <1>1. Find(s, k) = IF I # {} THEN Min(I) ELSE 0
    BY DEF Find, SelectInSeq
  <1>2. Find(s, k) \in 0 .. Len(s) /\ (Find(s, k) # 0 => s[Find(s, k)].key = k)
    BY FindResult
  <1>3. I # {} => Min(I) # 0
    <2>1. Len(s) \in Nat /\ I \in SUBSET Nat /\ 0 \notin I
      OBVIOUS
    <2> HIDE DEF I
    <2> QED BY <2>1, LeastExists
  <1>4. I = {} <=> ElementsOf(s, k) = {}
    BY DEF ElementsOf
  <1>5. Find(s, k) # 0 => s[Find(s, k)] \in ElementsOf(s, k)
    BY <1>2 DEF ElementsOf
  <1> QED BY <1>1, <1>3, <1>4, <1>5

\* Finding one with any of some keys.
LEMMA FindAnyElement ==
  ASSUME NEW E, NEW s \in Seq(E), NEW keys
  PROVE  FindAnyOf(s, keys) # 0 => /\ FindAnyOf(s, keys) \in 1 .. Len(s)
                                   /\ s[FindAnyOf(s, keys)].key \in keys
PROOF
  <1> DEFINE I == {i \in 1 .. Len(s) : s[i].key \in keys}
  <1>1. FindAnyOf(s, keys) = IF I # {} THEN Min(I) ELSE 0
    BY DEF FindAnyOf, SelectInSeq
  <1>2. Len(s) \in Nat /\ I \in SUBSET Nat /\ 0 \notin I
    OBVIOUS
  <1>3. I # {} => Min(I) \in I
    BY <1>2, LeastExists
  <1> QED BY <1>1, <1>3

\* What the searches for a state find.
LEMMA FoundInState ==
  ASSUME StoresOK
  PROVE  /\ FindOldestInMemoryOnly # 0 => mem.index[FindOldestInMemoryOnly].state = "notStarted"
         /\ FindMemoryRemovalCandidate # 0 =>
              mem.index[FindMemoryRemovalCandidate].state = "completed"
         /\ \A k : LET i == FindStartedToStoreOnDisk(k) IN
              /\ i # 0 => disk.index[i].key = k
              /\ (\E e \in OnDisk(k) : e.state = "started") => i # 0
PROOF
  <1>0. Len(mem.index) \in Nat /\ Len(disk.index) \in Nat
    BY DEF StoresOK, Storage
  <1>1. FindOldestInMemoryOnly # 0 => mem.index[FindOldestInMemoryOnly].state = "notStarted"
    <2> DEFINE I == {i \in 1 .. Len(mem.index) : mem.index[i].state = "notStarted"}
    <2>1. FindOldestInMemoryOnly = IF I # {} THEN Min(I) ELSE 0
      BY DEF FindOldestInMemoryOnly, SelectInSeq
    <2>2. I \in SUBSET (1 .. Len(mem.index)) /\ I \in SUBSET Nat
      BY <1>0
    <2>3. I # {} => Min(I) \in I
      BY <2>2, LeastExists
    <2> QED BY <2>1, <2>3
  <1>2. FindMemoryRemovalCandidate # 0 => mem.index[FindMemoryRemovalCandidate].state = "completed"
    <2> DEFINE I == {i \in 1 .. Len(mem.index) : mem.index[i].state = "completed"}
    <2>1. FindMemoryRemovalCandidate = IF I # {} THEN Min(I) ELSE 0
      BY DEF FindMemoryRemovalCandidate, SelectInSeq
    <2>2. I \in SUBSET (1 .. Len(mem.index)) /\ I \in SUBSET Nat
      BY <1>0
    <2>3. I # {} => Min(I) \in I
      BY <2>2, LeastExists
    <2> QED BY <2>1, <2>3
  <1>3. ASSUME NEW k
        PROVE  LET i == FindStartedToStoreOnDisk(k) IN
               /\ i # 0 => disk.index[i].key = k
               /\ (\E e \in OnDisk(k) : e.state = "started") => i # 0
    <2> DEFINE I == {i \in 1 .. Len(disk.index) :
                       disk.index[i].state = "started" /\ disk.index[i].key = k}
    <2>1. FindStartedToStoreOnDisk(k) = IF I # {} THEN Min(I) ELSE 0
      BY DEF FindStartedToStoreOnDisk, SelectInSeq
    <2>2. I \in SUBSET Nat
      BY <1>0
    <2>3. I # {} => Min(I) \in I
      BY <2>2, LeastExists
    <2>4. (\E e \in OnDisk(k) : e.state = "started") => I # {}
      BY DEF OnDisk, ElementsOf
    <2>5. 0 \notin I
      BY <1>0
    <2> QED BY <2>1, <2>3, <2>4, <2>5
  <1> QED BY <1>1, <1>2, <1>3

-----------------------------------------------------------------------------
(* What a step leaves alone.                                               *)

\* No thread begins to store a key, or gets on with storing it; one may give up.
StorersKept(k) ==
  /\ \A t \in Storers(k)' : t \in Storers(k) /\ Stage(t)' = Stage(t) /\ call'[t] = call[t]
  /\ Worker \in Storers(k) => Worker \in Storers(k)' \/ pc'[Worker] = "exited"
  /\ pc[Worker] = "exited" => pc'[Worker] = "exited"

\* A key of which a step at most evicts a settled element stays on its way.
LEMMA KeptWay ==
  ASSUME NEW k, OnItsWay(k), StorersKept(k), used \subseteq used',
         Once(mem'.index, k), Once(disk'.index, k),
         \/ InMemory(k)' = InMemory(k)
         \/ InMemory(k)' = {} /\ Storers(k) = {},
         OnDisk(k)' = OnDisk(k), files'[k] = files[k]
  PROVE  OnItsWay(k)'
PROOF
  <1>1. Storers(k)' \subseteq Storers(k)
    BY DEF StorersKept
  <1>2. k \notin used' => InMemory(k)' = {} /\ OnDisk(k)' = {} /\ Storers(k)' = {}
    BY <1>1 DEF OnItsWay
  <1>3. \A t, u \in Storers(k)' : t = u
    BY <1>1 DEF OnItsWay
  <1>4. ASSUME NEW t \in Storers(k)' PROVE StoredSoFar(t, k)'
    <2>1. t \in Storers(k) /\ Stage(t)' = Stage(t) /\ call'[t] = call[t] /\ StoredSoFar(t, k)
      BY DEF StorersKept, OnItsWay
    <2>2. InMemory(k)' = InMemory(k)
      BY <2>1
    <2> QED BY <2>1, <2>2 DEF StoredSoFar
  <1>5. ASSUME NEW e \in InMemory(k)' PROVE StateIsTrue(e, k)'
    <2>1. e \in InMemory(k) /\ StateIsTrue(e, k)
      BY DEF OnItsWay
    <2> QED BY <1>1, <2>1 DEF StateIsTrue, StorersKept, Copied
  <1> QED BY <1>2, <1>3, <1>4, <1>5 DEF OnItsWay

\* Which moves of a thread keep the storers of a key.
LEMMA ThreadMoves ==
  ASSUME ThreadsOK, NEW t \in Threads, pc[t] # "exited", NEW k
  PROVE  /\ \A label : Goto(t, label) /\ (t \notin Storers(k) \/ StageAt(label) = Stage(t))
              => StorersKept(k)
         /\ \A result : Return(t, result) /\ t # Worker => StorersKept(k)
         /\ ThrowFromStoreOnDisk(t) => StorersKept(k)
PROOF
  <1> USE DEF Storers, StorersKept, Stage
  <1>0. pc \in [Threads -> WorkerLabels \cup ClientLabels] /\ call \in [Threads -> Calls]
    BY DEF ThreadsOK
  <1>1. NoCall.op \notin {"Store", "Copy"}
    BY DEF NoCall
  <1>2. ASSUME NEW label, Goto(t, label), t \notin Storers(k) \/ StageAt(label) = Stage(t)
        PROVE  StorersKept(k)
    <2>1. pc' = [pc EXCEPT ![t] = label] /\ call' = call
      BY <1>2 DEF Goto
    <2> QED BY <1>0, <1>2, <2>1
  <1>3. ASSUME NEW label, pc' = [pc EXCEPT ![t] = label], call' = [call EXCEPT ![t] = NoCall],
               t = Worker => label = "exited"
        PROVE  StorersKept(k)
    BY <1>0, <1>1, <1>3
  <1>4. ASSUME NEW result, Return(t, result), t # Worker PROVE StorersKept(k)
    BY <1>3, <1>4 DEF Return
  <1>5. ASSUME ThrowFromStoreOnDisk(t) PROVE StorersKept(k)
    <2>1. CASE t = Worker
      BY <1>3, <1>5, <2>1 DEF ThrowFromStoreOnDisk
    <2>2. CASE t # Worker
      BY <1>4, <1>5, <2>2 DEF ThrowFromStoreOnDisk
    <2> QED BY <2>1, <2>2
  <1> QED BY <1>2, <1>4, <1>5

\* What to show of a key that no thread is storing.
LEMMA SettledWay ==
  ASSUME NEW k, k \in used', Once(mem'.index, k), Once(disk'.index, k), Storers(k)' = {},
         \A e \in InMemory(k)' : StateIsTrue(e, k)'
  PROVE  OnItsWay(k)'
BY DEF OnItsWay

\* What to show of a key that one thread is storing.
LEMMA StorerWay ==
  ASSUME NEW k, k \in used', Once(mem'.index, k), Once(disk'.index, k),
         NEW t, Storers(k)' = {t}, StoredSoFar(t, k)'
  PROVE  OnItsWay(k)'
PROOF
  <1>1. \A e \in InMemory(k)' : e.state = "started" /\ t = Worker
    BY DEF StoredSoFar
  <1>2. \A e \in InMemory(k)' : StateIsTrue(e, k)'
    BY <1>1 DEF StateIsTrue
  <1> QED BY <1>2 DEF OnItsWay

\* A step of one thread that changes neither index nor the directory.
LEMMA QuietStep ==
  ASSUME NEW k, OnItsWay(k), StorersKept(k), used \subseteq used',
         mem'.index = mem.index, disk'.index = disk.index, files' = files
  PROVE  OnItsWay(k)'
PROOF
  <1>1. InMemory(k)' = InMemory(k) /\ OnDisk(k)' = OnDisk(k)
    BY DEF InMemory, OnDisk
  <1>2. Once(mem'.index, k) /\ Once(disk'.index, k)
    BY DEF OnItsWay
  <1> QED BY <1>1, <1>2, KeptWay

\* A step of one thread that changes the memory index only, and there other keys, or evicts.
LEMMA MemoryStep ==
  ASSUME NEW k, OnItsWay(k), StorersKept(k), used \subseteq used',
         NEW i \in 1 .. Len(mem.index), mem.index \in Seq(MemElements),
         mem.index[i].key # k \/ mem.index[i].state = "completed",
         mem'.index = RemoveAt(mem.index, i), disk'.index = disk.index, files' = files
  PROVE  OnItsWay(k)'
PROOF
  <1>1. OnDisk(k)' = OnDisk(k) /\ Once(disk'.index, k) /\ Once(mem.index, k)
    BY DEF OnDisk, OnItsWay
  <1>2. /\ Once(mem'.index, k)
        /\ InMemory(k)' = IF mem.index[i].key = k THEN {} ELSE InMemory(k)
    <2>1. LET index == RemoveAt(mem.index, i) IN
          /\ Once(index, k)
          /\ ElementsOf(index, k) = IF mem.index[i].key = k THEN {} ELSE ElementsOf(mem.index, k)
      BY <1>1, RemoveElement
    <2> QED BY <2>1 DEF InMemory
  <1>3. mem.index[i].key = k => mem.index[i] \in InMemory(k)
    BY DEF InMemory, ElementsOf
  <1>4. mem.index[i].key = k => Storers(k) = {}
    BY <1>3 DEF OnItsWay, StateIsTrue
  <1> QED BY <1>1, <1>2, <1>4, KeptWay

\* A step of one thread that changes the disk index only for another key.
LEMMA DiskStep ==
  ASSUME NEW k, OnItsWay(k), StorersKept(k), used \subseteq used',
         disk.index \in Seq(DiskElements), Once(disk'.index, k), OnDisk(k)' = OnDisk(k),
         mem'.index = mem.index, files'[k] = files[k]
  PROVE  OnItsWay(k)'
PROOF
  <1>1. InMemory(k)' = InMemory(k) /\ Once(mem'.index, k)
    BY DEF InMemory, OnItsWay
  <1> QED BY <1>1, KeptWay

\* A step of one thread that removes another key from the disk index.
LEMMA RemovalStep ==
  ASSUME NEW k, OnItsWay(k), StorersKept(k), used \subseteq used',
         NEW i \in 1 .. Len(disk.index), disk.index \in Seq(DiskElements),
         disk.index[i].key # k, disk'.index = RemoveAt(disk.index, i),
         mem'.index = mem.index, files'[k] = files[k]
  PROVE  OnItsWay(k)'
PROOF
  <1>1. Once(disk.index, k)
    BY DEF OnItsWay
  <1>2. /\ Once(RemoveAt(disk.index, i), k)
        /\ ElementsOf(RemoveAt(disk.index, i), k) = ElementsOf(disk.index, k)
    BY <1>1, RemoveElement
  <1>3. Once(disk'.index, k) /\ OnDisk(k)' = OnDisk(k)
    BY <1>2 DEF OnDisk
  <1> QED BY <1>3, DiskStep

-----------------------------------------------------------------------------
(* Every step keeps every key on its way.                                  *)

\* Taking, leaving and signalling the mutex of a store leave its index.
LEMMA IndexKept ==
  ASSUME NEW E, NEW store \in Storage(E), NEW t \in Threads
  PROVE  /\ Locked(store, t).index = store.index /\ Unlocked(store).index = store.index
         /\ Notified(store).index = store.index /\ Waiting(store, t).index = store.index
BY DEF Storage, Locked, Unlocked, Notified, Waiting

\* All but five labels are before the write.
LEMMA EarlyLabels ==
  \A label : label \notin {"spaceOnDisk", "waitOnDisk", "waitingOnDisk", "writeFile",
                           "relockMemory", "cancelled"} => StageAt(label) = "before"
BY DEF StageAt

\* A client's calls, up to the memory index and past the write.
LEMMA ThreadsWay ==
  ASSUME TypeOK, NEW k \in Keys, Way(k), NEW t \in Threads,
         \/ t # Worker /\ (CheckWorkerIsStillRunning(t) \/ LockMemoryToStore(t)
                            \/ GiveUpStoring(t) \/ JoinWorker(t))
         \/ WaitOnMemory(t)
  PROVE  Way(k)'
PROOF
  <1> ThreadsOK /\ StoresOK
    BY DEF TypeOK
  <1> SUFFICES ASSUME running', k \notin popped' \cup condemned' PROVE OnItsWay(k)'
    BY DEF Way
  <1>1. CASE t # Worker /\ CheckWorkerIsStillRunning(t)
    <2>1. /\ OnItsWay(k) /\ pc[t] \in {"check", "recheck"} /\ used' = used
          /\ mem' = mem /\ disk' = disk /\ files' = files
      BY <1>1 DEF CheckWorkerIsStillRunning, clientVars, directory, Way
    <2>2. AfterCheck(t) \in {"lockMemory", "deleteFromMemory", "deleteIfFromMemory",
                             "getFromMemory"}
      BY DEF AfterCheck
    <2>3. Goto(t, AfterCheck(t)) \/ Goto(t, "recheck") \/ Return(t, "threw")
      BY <1>1 DEF CheckWorkerIsStillRunning, Throw
    <2>4. StorersKept(k)
      BY <1>1, <2>1, <2>2, <2>3, ThreadMoves, EarlyLabels DEF Stage
    <2> QED BY <2>1, <2>4, QuietStep
  <1>2. CASE t # Worker /\ LockMemoryToStore(t)
    <2>1. /\ OnItsWay(k) /\ pc[t] = "lockMemory" /\ used' = used
          /\ mem' = Locked(mem, t) /\ disk' = disk /\ files' = files
      BY <1>2 DEF LockMemoryToStore, clientVars, directory, workerVars, Way
    <2>2. Goto(t, "lockDisk") \/ Goto(t, "spaceInMemory")
      BY <1>2 DEF LockMemoryToStore
    <2>3. StorersKept(k)
      BY <2>1, <2>2, ThreadMoves, EarlyLabels DEF Stage
    <2>4. mem'.index = mem.index
      BY <2>1, IndexKept DEF StoresOK
    <2> QED BY <2>1, <2>3, <2>4, QuietStep
  <1>3. CASE t # Worker /\ GiveUpStoring(t)
    BY <1>3 DEF GiveUpStoring, workerVars
  <1>4. CASE t # Worker /\ JoinWorker(t)
    <2>1. /\ OnItsWay(k) /\ pc[t] = "joinWorker" /\ used' = used
          /\ mem' = Unlocked(mem) /\ disk' = disk /\ files' = files
      BY <1>4 DEF JoinWorker, clientVars, directory, Way
    <2>2. StorersKept(k)
      BY <1>4, <2>1, ThreadMoves DEF JoinWorker
    <2>3. mem'.index = mem.index
      BY <2>1, IndexKept DEF StoresOK
    <2> QED BY <2>1, <2>2, <2>3, QuietStep
  <1>5. CASE WaitOnMemory(t)
    <2>1. /\ OnItsWay(k) /\ pc[t] = "waitOnMemory" /\ used' = used
          /\ mem' = Waiting(mem, t) /\ disk' = disk /\ files' = files
      BY <1>5 DEF WaitOnMemory, clientVars, directory, workerVars, Way
    <2>2. StorersKept(k)
      BY <1>5, <2>1, ThreadMoves, EarlyLabels DEF WaitOnMemory, Stage
    <2>3. mem'.index = mem.index
      BY <2>1, IndexKept DEF StoresOK
    <2> QED BY <2>1, <2>2, <2>3, QuietStep
  <1> QED BY <1>1, <1>2, <1>3, <1>4, <1>5

\* A thread that evicts what is on disk.
LEMMA EvictWay ==
  ASSUME TypeOK, NEW k \in Keys, Way(k), NEW t \in Threads,
         WakeOnMemory(t) \/ WaitForSpaceInMemory(t)
  PROVE  Way(k)'
PROOF
  <1> ThreadsOK /\ StoresOK /\ mem.index \in Seq(MemElements)
    BY DEF TypeOK, StoresOK, Storage
  <1> SUFFICES ASSUME running', k \notin popped' \cup condemned' PROVE OnItsWay(k)'
    BY DEF Way
  <1> DEFINE i == FindMemoryRemovalCandidate
  <1>1. /\ OnItsWay(k) /\ pc[t] \in {"waitingOnMemory", "spaceInMemory"} /\ used' = used
        /\ disk' = disk /\ files' = files
    BY DEF WakeOnMemory, WaitForSpaceInMemory, clientVars, directory, workerVars, Way
  <1>2. \E label \in {"findOldest", "spaceInMemory", "waitOnMemory"} : Goto(t, label)
    BY DEF WakeOnMemory, WaitForSpaceInMemory
  <1>3. StorersKept(k)
    BY <1>1, <1>2, ThreadMoves, EarlyLabels DEF Stage
  <1>4. i # 0 => /\ i \in 1 .. Len(mem.index) /\ mem.index[i].state = "completed"
                 /\ Erased(i) \in Storage(MemElements)
                 /\ Erased(i).index = RemoveAt(mem.index, i)
    <2>1. i \in 0 .. Len(mem.index)
      BY SearchResults
    <2>2. i # 0 => i \in 1 .. Len(mem.index)
      BY <2>1
    <2>3. mem \in Storage(MemElements)
      BY DEF StoresOK
    <2>4. i # 0 => Erased(i).index = RemoveAt(mem.index, i)
      BY <2>3 DEF Erased, Storage
    <2> QED BY <2>2, <2>4, FoundInState, ErasedType
  <1> HIDE DEF i
  <1>5. \/ mem'.index = mem.index
        \/ i # 0 /\ mem'.index = RemoveAt(mem.index, i)
    <2>1. CASE WakeOnMemory(t)
      <3>1. mem' = Locked(mem, t) \/ (i # 0 /\ mem' = Locked(Erased(i), t))
        BY <2>1 DEF WakeOnMemory, i
      <3> QED BY <1>4, <3>1, IndexKept DEF StoresOK
    <2>2. CASE WaitForSpaceInMemory(t)
      <3>1. mem' = mem \/ (i # 0 /\ mem' = Erased(i))
        BY <2>2 DEF WaitForSpaceInMemory, i
      <3> QED BY <1>4, <3>1
    <2> QED BY <2>1, <2>2
  <1> QED BY <1>1, <1>3, <1>4, <1>5, QuietStep, MemoryStep

\* A client's value enters the memory index.
LEMMA StoreInMemoryWay ==
  ASSUME TypeOK, NEW k \in Keys, Way(k), NEW t \in Clients, StoreInMemory(t)
  PROVE  Way(k)'
PROOF
  <1> /\ ThreadsOK /\ StoresOK /\ mem.index \in Seq(MemElements)
      /\ t \in Threads /\ t # Worker
    BY ClientAt DEF TypeOK, StoresOK, Storage
  <1> SUFFICES ASSUME running', k \notin popped' \cup condemned' PROVE OnItsWay(k)'
    BY DEF Way
  <1>1. /\ OnItsWay(k) /\ pc[t] = "spaceInMemory" /\ used' = used
        /\ mem' = Notified(Unlocked(Inserted(t))) /\ disk' = disk /\ files' = files
        /\ Return(t, "done")
    BY DEF StoreInMemory, clientVars, directory, workerVars, Way
  <1>2. call[t].op = "Store" /\ call[t].key \in Keys /\ call[t].value \in Values
    BY <1>1, ClientAt, CallShape
  <1>0. PICK e \in MemElements :
          e = [key |-> call[t].key, value |-> call[t].value, state |-> "notStarted"]
    BY <1>2 DEF MemElements, States
  <1>3. mem'.index = Append(mem.index, e)
    <2>1. Inserted(t) \in Storage(MemElements) /\ Unlocked(Inserted(t)) \in Storage(MemElements)
      BY <1>1, InsertedType, MutexType
    <2>2. Inserted(t).index = Append(mem.index, e)
      BY <1>0 DEF Inserted, StoresOK, Storage
    <2> QED BY <1>1, <2>1, <2>2, IndexKept
  <1>4. StorersKept(k)
    BY <1>1, ThreadMoves
  <1>5. OnDisk(k)' = OnDisk(k) /\ Once(disk'.index, k) /\ Once(mem.index, k)
    BY <1>1 DEF OnDisk, OnItsWay
  <1>6. e.key = k => t \in Storers(k) /\ InMemory(k) = {} /\ OnDisk(k) = {}
    <2>1. Stage(t) = "before"
      BY <1>1, EarlyLabels DEF Stage
    <2> QED BY <1>0, <1>1, <1>2, <2>1 DEF Storers, OnItsWay, StoredSoFar
  <1>7. /\ Once(mem'.index, k)
        /\ e.key = k => InMemory(k)' = {e}
        /\ e.key # k => InMemory(k)' = InMemory(k)
    <2>1. Longer(mem.index, mem'.index, e)
      BY <1>3 DEF Longer
    <2> QED BY <1>5, <1>6, <2>1, AppendElement DEF InMemory
  <1>8. CASE e.key = k
    <2>1. t \notin Storers(k)'
      BY <1>1, ClientAt DEF Return, Storers, NoCall, ThreadsOK
    <2>2. Storers(k) = {t}
      BY <1>1, <1>6, <1>8 DEF OnItsWay
    <2>3. Storers(k)' = {}
      BY <1>4, <2>1, <2>2 DEF StorersKept
    <2>4. k \in used'
      BY <1>1, <2>2 DEF OnItsWay
    <2>5. StateIsTrue(e, k)'
      BY <1>0, <1>5, <1>6, <1>8, <2>3 DEF StateIsTrue
    <2> QED BY <1>5, <1>7, <1>8, <2>3, <2>4, <2>5, SettledWay
  <1>9. CASE e.key # k
    BY <1>1, <1>4, <1>5, <1>7, <1>9, KeptWay
  <1> QED BY <1>8, <1>9

\* What a thread at work on the disk stores.
LEMMA AtDisk ==
  ASSUME ThreadsOK, NEW t \in Threads, pc[t] \in StoreOnDiskLabels, NEW k, OnItsWay(k)
  PROVE  /\ t \in Storers(k) <=> call[t].key = k
         /\ t \in Storers(k) => Storers(k) = {t} /\ StoredSoFar(t, k) /\ k \in used
PROOF
  <1>1. call[t].op \in {"Store", "Copy"}
    BY StoringOnDisk
  <1> QED BY <1>1 DEF Storers, OnItsWay

\* A thread begins to store on disk.
LEMMA BeginWay ==
  ASSUME TypeOK, NEW k \in Keys, Way(k), NEW t \in Threads, BeginStoreOnDisk(t)
  PROVE  Way(k)'
PROOF
  <1> ThreadsOK /\ StoresOK
    BY DEF TypeOK
  <1> SUFFICES ASSUME running', k \notin popped' \cup condemned' PROVE OnItsWay(k)'
    BY DEF Way
  <1>1. /\ OnItsWay(k) /\ pc[t] = "lockDisk" /\ used' = used /\ files' = files
        /\ mem' = Unlocked(mem) /\ Goto(t, "spaceOnDisk")
        /\ disk' = [Locked(disk, t) EXCEPT
             !.index = Append(@, [key |-> call[t].key, state |-> "started"])]
    BY DEF BeginStoreOnDisk, StopRunning, clientVars, directory, workerVars, Way
  <1>2. pc[t] \in StoreOnDiskLabels /\ call[t].key \in Keys
    BY <1>1, StoringOnDisk DEF StoreOnDiskLabels
  <1>3. PICK e \in DiskElements : e = [key |-> call[t].key, state |-> "started"]
    BY <1>2 DEF DiskElements, States
  <1>4. Longer(disk.index, disk'.index, e)
    <2>1. disk'.index = Append(disk.index, e)
      BY <1>1, <1>3 DEF Locked, StoresOK, Storage
    <2>2. disk.index \in Seq(DiskElements)
      BY DEF StoresOK, Storage
    <2> QED BY <2>1, <2>2 DEF Longer
  <1>5. mem'.index = mem.index /\ InMemory(k)' = InMemory(k) /\ Once(mem'.index, k)
    <2>1. mem'.index = mem.index
      BY <1>1, IndexKept DEF StoresOK
    <2> QED BY <1>1, <2>1 DEF InMemory, OnItsWay
  <1>6. Stage(t) = "before" /\ Stage(t)' = "writing"
    BY <1>1 DEF Stage, StageAt, Goto, ThreadsOK
  <1>7. Once(disk.index, k)
    BY <1>1 DEF OnItsWay
  <1>8. CASE call[t].key = k
    <2>1. Storers(k) = {t} /\ StoredSoFar(t, k) /\ k \in used
      BY <1>1, <1>2, <1>8, AtDisk
    <2>2. OnDisk(k) = {}
      BY <1>6, <2>1 DEF StoredSoFar
    <2>3. Once(disk'.index, k) /\ OnDisk(k)' = {e}
      BY <1>3, <1>4, <1>7, <1>8, <2>2, AppendElement DEF OnDisk
    <2>4. Storers(k)' = {t}
      BY <1>1, <2>1 DEF Storers, Goto
    <2>5. StoredSoFar(t, k)'
      BY <1>1, <1>3, <1>5, <1>6, <1>8, <2>1, <2>3 DEF StoredSoFar, Goto
    <2> QED BY <1>1, <1>5, <2>1, <2>3, <2>4, <2>5, StorerWay
  <1>9. CASE call[t].key # k
    <2>1. StorersKept(k)
      BY <1>1, <1>2, <1>9, AtDisk, ThreadMoves
    <2>2. Once(disk'.index, k) /\ OnDisk(k)' = OnDisk(k)
      BY <1>3, <1>4, <1>7, <1>9, AppendElement DEF OnDisk
    <2> QED BY <1>1, <1>5, <2>1, <2>2, KeptWay
  <1> QED BY <1>8, <1>9

\* A thread finds space on disk, or waits for it.
LEMMA SpaceWay ==
  ASSUME TypeOK, NEW k \in Keys, Way(k), NEW t \in Threads,
         \/ EndWaitForSpaceOnDisk(t) \/ DecideToWaitOnDisk(t)
         \/ WaitOnDisk(t) \/ WakeOnDisk(t)
  PROVE  Way(k)'
PROOF
  <1> ThreadsOK /\ StoresOK
    BY DEF TypeOK
  <1> SUFFICES ASSUME running', k \notin popped' \cup condemned' PROVE OnItsWay(k)'
    BY DEF Way
  <1>1. /\ OnItsWay(k) /\ used' = used /\ mem' = mem /\ files' = files
        /\ pc[t] \in {"spaceOnDisk", "waitOnDisk", "waitingOnDisk"}
        /\ disk' \in {disk, Waiting(disk, t), Locked(disk, t)}
        /\ \E label \in {"spaceOnDisk", "waitOnDisk", "waitingOnDisk", "writeFile"} :
             Goto(t, label)
    BY DEF EndWaitForSpaceOnDisk, DecideToWaitOnDisk, WaitOnDisk, WakeOnDisk,
           clientVars, directory, workerVars, Way
  <1>2. StorersKept(k)
    BY <1>1, ThreadMoves DEF Stage, StageAt
  <1>3. disk'.index = disk.index
    BY <1>1, IndexKept DEF StoresOK
  <1> QED BY <1>1, <1>2, <1>3, QuietStep

\* A thread finds that what it stores was cancelled: that is of another key.
LEMMA NoticeWay ==
  ASSUME TypeOK, NEW k \in Keys, Way(k), NEW t \in Threads, NoticeCancelled(t)
  PROVE  Way(k)'
PROOF
  <1> ThreadsOK /\ StoresOK /\ disk.index \in Seq(DiskElements)
    BY DEF TypeOK, StoresOK, Storage
  <1> SUFFICES ASSUME running', k \notin popped' \cup condemned' PROVE OnItsWay(k)'
    BY DEF Way
  <1> DEFINE i == Find(disk.index, call[t].key)
  <1>1. /\ OnItsWay(k) /\ pc[t] = "spaceOnDisk" /\ used' = used /\ mem' = mem /\ files' = files
        /\ ~StillWanted(t) /\ Goto(t, "cancelled")
        /\ disk' = IF i = 0 THEN disk ELSE [disk EXCEPT !.index = RemoveAt(@, i)]
    BY DEF NoticeCancelled, clientVars, directory, workerVars, Way
  <1>2. pc[t] \in StoreOnDiskLabels
    BY <1>1 DEF StoreOnDiskLabels
  <1>3. call[t].key # k
    <2> SUFFICES ASSUME call[t].key = k PROVE FALSE
      OBVIOUS
    <2>1. StoredSoFar(t, k)
      BY <1>1, <1>2, AtDisk
    <2>2. OnDisk(k) = {[key |-> k, state |-> "started"]}
      BY <1>1, <2>1 DEF StoredSoFar, Stage, StageAt
    <2>3. i # 0 /\ disk.index[i] \in OnDisk(k)
      BY <2>2, FindElement DEF OnDisk
    <2>4. disk.index[i].state = "started"
      BY <2>2, <2>3
    <2> QED BY <1>1, <2>3, <2>4 DEF StillWanted
  <1>4. StorersKept(k)
    BY <1>1, <1>2, <1>3, AtDisk, ThreadMoves
  <1>5. i \in 0 .. Len(disk.index) /\ (i # 0 => disk.index[i].key # k)
    BY <1>3, FindResult
  <1> HIDE DEF i
  <1>6. CASE i = 0
    BY <1>1, <1>4, <1>6, QuietStep
  <1>7. CASE i # 0
    <2>1. disk'.index = RemoveAt(disk.index, i)
      BY <1>1, <1>7 DEF StoresOK, Storage
    <2> QED BY <1>1, <1>4, <1>5, <1>7, <2>1, RemovalStep
  <1> QED BY <1>6, <1>7

\* The oldest file is popped, and with it the key.
LEMMA PopWay ==
  ASSUME TypeOK, NEW k \in Keys, Way(k), NEW t \in Threads, PopOldest(t)
  PROVE  Way(k)'
PROOF
  <1> ThreadsOK /\ StoresOK /\ disk.index \in Seq(DiskElements)
    BY DEF TypeOK, StoresOK, Storage
  <1> SUFFICES ASSUME running', k \notin popped' \cup condemned' PROVE OnItsWay(k)'
    BY DEF Way
  <1>1. /\ OnItsWay(k) /\ pc[t] = "spaceOnDisk" /\ used' = used /\ mem' = mem /\ StillWanted(t)
    BY DEF PopOldest, clientVars, Way
  <1>2. CASE /\ RemoveFile(Head(disk.index).key) /\ disk' = WithoutFile(1)
             /\ popped' = popped \cup {Head(disk.index).key} /\ Goto(t, "spaceOnDisk")
    <2>1. 1 \in 1 .. Len(disk.index) /\ Head(disk.index) = disk.index[1]
      BY <1>1, FindResult DEF StillWanted
    <2>2. disk.index[1].key # k
      BY <1>2, <2>1
    <2>3. disk'.index = RemoveAt(disk.index, 1)
      BY <1>2 DEF WithoutFile, StoresOK, Storage
    <2>4. files'[k] = files[k]
      BY <1>2, <2>1, <2>2 DEF RemoveFile, TypeOK, DirectoryOK
    <2>5. StorersKept(k)
      BY <1>1, <1>2, ThreadMoves DEF Stage
    <2> QED BY <1>1, <2>1, <2>2, <2>3, <2>4, <2>5, RemovalStep
  <1>3. CASE disk' = Unlocked(disk) /\ ThrowFromStoreOnDisk(t) /\ files' = files
    <2>1. StorersKept(k)
      BY <1>1, <1>3, ThreadMoves
    <2>2. disk'.index = disk.index
      BY <1>3, IndexKept DEF StoresOK
    <2> QED BY <1>1, <1>3, <2>1, <2>2, QuietStep
  <1> QED BY <1>2, <1>3 DEF PopOldest

\* A thread leaves StoreOnDisk with another key.
LEMMA LeaveDisk ==
  ASSUME ThreadsOK, NEW t \in Threads, pc[t] \in StoreOnDiskLabels,
         NEW k, t \notin Storers(k), AfterStoreOnDisk(t)
  PROVE  StorersKept(k)
PROOF
  <1>1. pc[t] # "exited"
    BY DEF StoreOnDiskLabels
  <1>2. CASE t = Worker
    BY <1>1, <1>2, ThreadMoves DEF AfterStoreOnDisk
  <1>3. CASE t # Worker
    BY <1>1, <1>3, ThreadMoves DEF AfterStoreOnDisk
  <1> QED BY <1>2, <1>3

\* A value is written.
LEMMA WriteWay ==
  ASSUME TypeOK, NEW k \in Keys, Way(k), NEW t \in Threads, WriteSucceeds(t)
  PROVE  Way(k)'
PROOF
  <1> ThreadsOK /\ StoresOK /\ disk.index \in Seq(DiskElements)
    BY DEF TypeOK, StoresOK, Storage
  <1> SUFFICES ASSUME running', k \notin popped' \cup condemned' PROVE OnItsWay(k)'
    BY DEF Way
  <1> DEFINE i == FindStartedToStoreOnDisk(call[t].key)
             r == Marked(disk, i, "completed").index
  <1>1. /\ OnItsWay(k) /\ pc[t] = "writeFile" /\ used' = used /\ mem' = mem
        /\ files' = [files EXCEPT ![call[t].key] = call[t].value]
        /\ AfterStoreOnDisk(t)
    BY DEF WriteSucceeds, clientVars, directory, workerVars, Way
  <1>2. pc[t] \in StoreOnDiskLabels /\ call[t].key \in Keys
    BY <1>1, StoringOnDisk DEF StoreOnDiskLabels
  <1>3. /\ i \in 0 .. Len(disk.index)
        /\ i # 0 => disk.index[i].key = call[t].key
        /\ (\E e \in OnDisk(call[t].key) : e.state = "started") => i # 0
    BY SearchResults, FoundInState
  <1>4. disk'.index = r
    <2>1. Marked(disk, i, "completed") \in Storage(DiskElements)
      BY <1>3, MarkedType DEF StoresOK, States
    <2>2. Unlocked(Marked(disk, i, "completed")) \in Storage(DiskElements)
      BY <2>1, MutexType
    <2>3. Notified(Unlocked(Marked(disk, i, "completed"))) \in Storage(DiskElements)
      BY <2>2, MutexType
    <2>4. Notified(Unlocked(Marked(disk, i, "completed"))).index = r
      BY <2>1, <2>2, IndexKept
    <2> QED BY <2>3, <2>4 DEF WriteSucceeds, Storage
  <1>5. Once(disk.index, k) /\ InMemory(k)' = InMemory(k) /\ Once(mem'.index, k)
    BY <1>1 DEF InMemory, OnItsWay
  <1>6. ASSUME i # 0 PROVE Changed(disk.index, r, i, [disk.index[i] EXCEPT !.state = "completed"])
    BY <1>3, <1>6, MarkElement DEF StoresOK
  <1>7. i = 0 => r = disk.index
    BY DEF Marked
  <1> HIDE DEF r, i
  <1>8. CASE call[t].key = k
    <2>1. Storers(k) = {t} /\ StoredSoFar(t, k) /\ k \in used
      BY <1>1, <1>2, <1>8, AtDisk
    <2>2. OnDisk(k) = {[key |-> k, state |-> "started"]}
      BY <1>1, <2>1 DEF StoredSoFar, Stage, StageAt
    <2>3. i # 0
      BY <1>3, <1>8, <2>2
    <2>4. disk.index[i] = [key |-> k, state |-> "started"]
      BY <1>3, <1>8, <2>2, <2>3 DEF OnDisk, ElementsOf
    <2>5. Changed(disk.index, disk'.index, i, [key |-> k, state |-> "completed"])
      BY <1>4, <1>6, <2>3, <2>4
    <2>6. Once(disk'.index, k) /\ OnDisk(k)' = Copied(k)
      <3>1. PICK e : e = [key |-> k, state |-> "completed"]
        OBVIOUS
      <3> QED BY <1>5, <2>5, <3>1, ChangeElement DEF OnDisk, Copied
    <2>7. files'[k] = call[t].value
      BY <1>1, <1>8 DEF TypeOK, DirectoryOK
    <2>8. CASE t = Worker
      <3>1. Goto(t, "relockMemory")
        BY <1>1, <2>8 DEF AfterStoreOnDisk
      <3>2. Stage(t)' = "written" /\ call' = call
        BY <3>1 DEF Goto, Stage, StageAt, ThreadsOK
      <3>3. Storers(k)' = {t}
        BY <2>1, <3>2 DEF Storers
      <3>4. StoredSoFar(t, k)'
        BY <1>5, <2>1, <2>6, <2>7, <3>2 DEF StoredSoFar
      <3> QED BY <1>1, <1>5, <2>1, <2>6, <3>3, <3>4, StorerWay
    <2>9. CASE t # Worker
      <3>1. Return(t, "done")
        BY <1>1, <2>9 DEF AfterStoreOnDisk
      <3>2. Storers(k)' = {}
        BY <2>1, <3>1 DEF Return, Storers, NoCall, ThreadsOK
      <3>3. InMemory(k)' = {}
        BY <1>5, <2>1, <2>9 DEF StoredSoFar
      <3> QED BY <1>1, <1>5, <2>1, <2>6, <3>2, <3>3, SettledWay
    <2> QED BY <2>8, <2>9
  <1>9. CASE call[t].key # k
    <2>1. StorersKept(k)
      BY <1>1, <1>2, <1>9, AtDisk, LeaveDisk
    <2>2. Once(disk'.index, k) /\ OnDisk(k)' = OnDisk(k)
      <3>1. CASE i = 0
        BY <1>4, <1>5, <1>7, <3>1 DEF OnDisk
      <3>2. CASE i # 0
        <4>1. PICK e : e = [disk.index[i] EXCEPT !.state = "completed"]
          OBVIOUS
        <4>2. Changed(disk.index, disk'.index, i, e)
          BY <1>4, <1>6, <3>2, <4>1
        <4>3. e.key # k
          BY <1>3, <1>9, <3>2, <4>2 DEF Changed
        <4> QED BY <1>5, <4>2, <4>3, ChangeElement DEF OnDisk
      <3> QED BY <3>1, <3>2
    <2>3. files'[k] = files[k]
      BY <1>1, <1>9 DEF TypeOK, DirectoryOK
    <2> QED BY <1>1, <1>5, <2>1, <2>2, <2>3, KeptWay
  <1> QED BY <1>8, <1>9

\* StoreOnDisk ends: cancelled, or because the buffer stops.
LEMMA EndWay ==
  ASSUME TypeOK, NEW k \in Keys, Way(k), NEW t \in Threads,
         EndCancelled(t) \/ WriteFails(t) \/ AbandonStoreOnDisk(t)
  PROVE  Way(k)'
PROOF
  <1> ThreadsOK /\ StoresOK
    BY DEF TypeOK
  <1> SUFFICES ASSUME running', k \notin popped' \cup condemned' PROVE OnItsWay(k)'
    BY DEF Way
  <1>1. EndCancelled(t)
    BY DEF WriteFails, StopRunning, AbandonStoreOnDisk, workerVars
  <1>2. /\ OnItsWay(k) /\ pc[t] = "cancelled" /\ used' = used /\ mem' = mem /\ files' = files
        /\ disk' = Notified(Unlocked(disk)) /\ AfterStoreOnDisk(t)
    BY <1>1 DEF EndCancelled, clientVars, directory, workerVars, Way
  <1>3. pc[t] \in StoreOnDiskLabels
    BY <1>2 DEF StoreOnDiskLabels
  <1>4. t \notin Storers(k)
    BY <1>2 DEF OnItsWay, StoredSoFar, Stage, StageAt
  <1>5. StorersKept(k)
    BY <1>2, <1>3, <1>4, LeaveDisk
  <1>6. disk'.index = disk.index
    BY <1>2, MutexType, IndexKept DEF StoresOK
  <1> QED BY <1>2, <1>5, <1>6, QuietStep

\* The worker takes the oldest element that is only in memory, if there is one.
LEMMA TakeWay ==
  ASSUME TypeOK, NEW k \in Keys, Way(k), TakeOldest
  PROVE  Way(k)'
PROOF
  <1> /\ ThreadsOK /\ StoresOK /\ Worker \in Threads
      /\ mem.index \in Seq(MemElements) /\ Len(mem.index) \in Nat
    BY DEF TypeOK, StoresOK, Storage, Threads
  <1> SUFFICES ASSUME running', k \notin popped' \cup condemned' PROVE OnItsWay(k)'
    BY DEF Way
  <1> DEFINE i == FindOldestInMemoryOnly
  <1>1. /\ OnItsWay(k) /\ pc[Worker] = "findOldest" /\ used' = used
        /\ disk' = disk /\ files' = files
    BY DEF TakeOldest, clientVars, directory, workerVars, Way
  <1>2. OnDisk(k)' = OnDisk(k) /\ Once(disk'.index, k) /\ Once(mem.index, k)
    BY <1>1 DEF OnDisk, OnItsWay
  <1>3. i \in 0 .. Len(mem.index) /\ (i # 0 => mem.index[i].state = "notStarted")
    BY SearchResults, FoundInState
  <1>4. Marked(mem, i, "started") \in Storage(MemElements)
    BY <1>3, MarkedType DEF StoresOK, States
  <1>5. mem'.index = Marked(mem, i, "started").index
    BY <1>4, IndexKept DEF TakeOldest
  <1>6. \A u : Worker \notin Storers(u)
    BY <1>1 DEF ThreadsOK, OpsAt, StoreOnDiskLabels, Storers
  <1> HIDE DEF i
  <1>7. CASE i = 0
    <2>1. Goto(Worker, "waitOnMemory")
      BY <1>7 DEF TakeOldest, i
    <2>2. StorersKept(k)
      BY <1>1, <1>6, <2>1, ThreadMoves
    <2>3. mem'.index = mem.index
      BY <1>5, <1>7 DEF Marked
    <2> QED BY <1>1, <2>2, <2>3, QuietStep
  <1>8. CASE i # 0
    <2>1. PICK e \in MemElements : e = mem.index[i]
      BY <1>3, <1>8
    <2>2. PICK f \in MemElements : f = [e EXCEPT !.state = "started"]
      BY DEF MemElements, States
    <2>3. f = [key |-> e.key, value |-> e.value, state |-> "started"]
      BY <2>2 DEF MemElements
    <2>4. Changed(mem.index, mem'.index, i, f)
      BY <1>3, <1>5, <1>8, <2>1, <2>2, MarkElement DEF StoresOK
    <2>5. /\ pc' = [pc EXCEPT ![Worker] = "lockDisk"]
          /\ call' = [call EXCEPT ![Worker] = [op |-> "Copy", key |-> e.key, value |-> e.value]]
      BY <1>8, <2>1 DEF TakeOldest, i
    <2>6. /\ pc'[Worker] = "lockDisk" /\ call'[Worker].op = "Copy"
          /\ call'[Worker].key = e.key /\ call'[Worker].value = e.value
          /\ \A t \in Threads \ {Worker} : pc'[t] = pc[t] /\ call'[t] = call[t]
      BY <2>5 DEF ThreadsOK
    <2>7. CASE e.key = k
      <3>1. e \in InMemory(k)
        BY <1>3, <1>8, <2>1, <2>7 DEF InMemory, ElementsOf
      <3>2. Storers(k) = {} /\ OnDisk(k) = {}
        BY <1>1, <1>3, <1>8, <2>1, <3>1 DEF OnItsWay, StateIsTrue
      <3>3. k \in used'
        BY <1>1, <3>1 DEF OnItsWay
      <3>4. Storers(k)' = {Worker}
        BY <2>6, <2>7, <3>2 DEF Storers
      <3>5. Once(mem'.index, k) /\ InMemory(k)' = {f}
        BY <1>2, <2>3, <2>4, <2>7, ChangeElement DEF InMemory
      <3>6. Stage(Worker)' = "before"
        BY <2>6, EarlyLabels DEF Stage
      <3>7. StoredSoFar(Worker, k)'
        BY <1>2, <2>3, <2>6, <2>7, <3>2, <3>5, <3>6 DEF StoredSoFar
      <3> QED BY <1>2, <3>3, <3>4, <3>5, <3>7, StorerWay
    <2>8. CASE e.key # k
      <3>1. StorersKept(k)
        BY <1>1, <1>6, <2>6, <2>8 DEF StorersKept, Storers, Stage
      <3>2. Once(mem'.index, k) /\ InMemory(k)' = InMemory(k)
        BY <1>2, <2>3, <2>4, <2>8, ChangeElement DEF InMemory
      <3> QED BY <1>1, <1>2, <3>1, <3>2, KeptWay
    <2> QED BY <2>7, <2>8
  <1> QED BY <1>7, <1>8

\* The worker marks as completed what it has written.
LEMMA MarkWay ==
  ASSUME TypeOK, NEW k \in Keys, Way(k), MarkStored
  PROVE  Way(k)'
PROOF
  <1> /\ ThreadsOK /\ StoresOK /\ Worker \in Threads
      /\ mem.index \in Seq(MemElements) /\ Len(mem.index) \in Nat
    BY DEF TypeOK, StoresOK, Storage, Threads
  <1> SUFFICES ASSUME running', k \notin popped' \cup condemned' PROVE OnItsWay(k)'
    BY DEF Way
  <1> DEFINE i == Find(mem.index, call[Worker].key)
  <1>1. /\ OnItsWay(k) /\ pc[Worker] = "relockMemory" /\ used' = used /\ files' = files
        /\ pc' = [pc EXCEPT ![Worker] = "findOldest"]
        /\ call' = [call EXCEPT ![Worker] = NoCall]
    BY DEF MarkStored, clientVars, directory, workerVars, Way
  <1>2. disk'.index = disk.index
    BY IndexKept DEF MarkStored, StoresOK
  <1>3. OnDisk(k)' = OnDisk(k) /\ Once(disk'.index, k) /\ Once(mem.index, k)
    BY <1>1, <1>2 DEF OnDisk, OnItsWay
  <1>4. i \in 0 .. Len(mem.index) /\ (i # 0 => mem.index[i].key = call[Worker].key)
    BY FindResult
  <1>5. Marked(mem, i, "completed") \in Storage(MemElements)
    BY <1>4, MarkedType DEF StoresOK, States
  <1>6. mem'.index = Marked(mem, i, "completed").index
    BY <1>5, IndexKept DEF MarkStored
  <1>7. /\ pc'[Worker] = "findOldest" /\ Worker \notin Storers(k)'
        /\ \A t \in Threads \ {Worker} : pc'[t] = pc[t] /\ call'[t] = call[t]
    BY <1>1 DEF ThreadsOK, Storers, NoCall
  <1>8. call[Worker].op = "Copy"
    BY <1>1 DEF ThreadsOK, OpsAt, StoreOnDiskLabels
  <1>9. CASE call[Worker].key = k
    <2>1. Storers(k) = {Worker} /\ StoredSoFar(Worker, k) /\ k \in used
      BY <1>1, <1>8, <1>9 DEF Storers, OnItsWay
    <2>2. /\ InMemory(k) = {[key |-> k, value |-> call[Worker].value, state |-> "started"]}
          /\ OnDisk(k) = Copied(k) /\ files[k] = call[Worker].value
      BY <1>1, <2>1 DEF StoredSoFar, Stage, StageAt
    <2>3. i # 0 /\ mem.index[i] \in InMemory(k)
      BY <1>9, <2>2, FindElement DEF InMemory
    <2>4. PICK f : f = [key |-> k, value |-> call[Worker].value, state |-> "completed"]
      OBVIOUS
    <2>5. f = [mem.index[i] EXCEPT !.state = "completed"]
      BY <2>2, <2>3, <2>4
    <2> HIDE DEF i
    <2>6. Changed(mem.index, mem'.index, i, f)
      BY <1>4, <1>6, <2>3, <2>5, MarkElement DEF StoresOK
    <2>7. Once(mem'.index, k) /\ InMemory(k)' = {f}
      BY <1>3, <2>4, <2>6, ChangeElement DEF InMemory
    <2>8. Storers(k)' = {}
      BY <1>7, <2>1 DEF Storers
    <2>9. StateIsTrue(f, k)'
      BY <1>1, <1>3, <2>2, <2>4, <2>8 DEF StateIsTrue, Copied
    <2> QED BY <1>1, <1>3, <2>1, <2>7, <2>8, <2>9, SettledWay
  <1>10. CASE call[Worker].key # k
    <2>1. StorersKept(k)
      BY <1>1, <1>7, <1>10 DEF StorersKept, Storers, Stage
    <2> HIDE DEF i
    <2>2. Once(mem'.index, k) /\ InMemory(k)' = InMemory(k)
      <3>1. CASE i = 0
        BY <1>3, <1>6, <3>1 DEF InMemory, Marked
      <3>2. CASE i # 0
        <4>1. PICK f : f = [mem.index[i] EXCEPT !.state = "completed"]
          OBVIOUS
        <4>2. Changed(mem.index, mem'.index, i, f)
          BY <1>4, <1>6, <3>2, <4>1, MarkElement DEF StoresOK
        <4>3. f.key # k
          BY <1>4, <1>10, <3>2, <4>2 DEF Changed
        <4> QED BY <1>3, <4>2, <4>3, ChangeElement DEF InMemory
      <3> QED BY <3>1, <3>2
    <2> QED BY <1>1, <1>3, <2>1, <2>2, KeptWay
  <1> QED BY <1>9, <1>10

\* What a Get reads, and a change of a limit, leave everything where it is.
LEMMA QuietCallsWay ==
  ASSUME TypeOK, NEW k \in Keys, Way(k), NEW t \in Clients,
         \/ GetFromMemory(t) \/ GetSettled(t) \/ GetStarted(t)
         \/ CheckDiskMax(t) \/ SetMaxMemoryUsage(t) \/ CheckMemMax(t) \/ SetMaxDiskUsage(t)
  PROVE  Way(k)'
PROOF
  <1> ThreadsOK /\ StoresOK /\ t \in Threads /\ t # Worker
    BY ClientAt DEF TypeOK
  <1> SUFFICES ASSUME running', k \notin popped' \cup condemned' PROVE OnItsWay(k)'
    BY DEF Way
  <1>1. OnItsWay(k) /\ used' = used /\ files' = files
    BY DEF GetFromMemory, GetSettled, GetStarted, CheckDiskMax, SetMaxMemoryUsage,
           CheckMemMax, SetMaxDiskUsage, clientVars, directory, workerVars, Way
  <1>2. pc[t] \in {"getFromMemory", "getFromDisk", "waitingToGet", "checkDiskMax",
                   "setMemMax", "checkMemMax", "setDiskMax"}
    BY DEF GetFromMemory, GetSettled, GetStarted, CheckDiskMax, SetMaxMemoryUsage,
           CheckMemMax, SetMaxDiskUsage
  <1>3. t \notin Storers(k) /\ pc[t] # "exited"
    BY <1>2, ClientAt DEF Storers
  <1>4. (\E label : Goto(t, label)) \/ (\E result : Return(t, result))
    <2>1. CASE GetSettled(t)
      BY <2>1 DEF GetSettled, ReadFile
    <2>2. CASE GetFromMemory(t) \/ GetStarted(t)
      BY <2>2 DEF GetFromMemory, GetStarted
    <2>3. CASE CheckDiskMax(t) \/ SetMaxMemoryUsage(t) \/ CheckMemMax(t) \/ SetMaxDiskUsage(t)
      BY <2>3 DEF CheckDiskMax, SetMaxMemoryUsage, CheckMemMax, SetMaxDiskUsage
    <2> QED BY <2>1, <2>2, <2>3
  <1>5. StorersKept(k)
    BY <1>3, <1>4, ThreadMoves
  <1>6. mem'.index = mem.index /\ disk'.index = disk.index
    <2>1. CASE GetFromMemory(t) \/ GetSettled(t) \/ GetStarted(t)
      BY <2>1, IndexKept DEF GetFromMemory, GetSettled, GetStarted, StoresOK
    <2>2. CASE CheckDiskMax(t) \/ CheckMemMax(t)
      BY <2>2, IndexKept DEF CheckDiskMax, CheckMemMax, StoresOK
    <2>3. CASE SetMaxMemoryUsage(t)
      BY <2>3 DEF SetMaxMemoryUsage, Notified, Unlocked, StoresOK, Storage
    <2>4. CASE SetMaxDiskUsage(t)
      BY <2>4 DEF SetMaxDiskUsage, Notified, Unlocked, StoresOK, Storage
    <2> QED BY <2>1, <2>2, <2>3, <2>4
  <1> QED BY <1>1, <1>5, <1>6, QuietStep

\* Delete(key), also the one a Store begins with, finds in memory no key on its way.
LEMMA DeleteFromMemoryWay ==
  ASSUME TypeOK, DeletesAreKnown, NEW k \in Keys, Way(k), NEW t \in Clients, DeleteFromMemory(t)
  PROVE  Way(k)'
PROOF
  <1> ThreadsOK /\ StoresOK /\ mem.index \in Seq(MemElements) /\ t \in Threads /\ t # Worker
    BY ClientAt DEF TypeOK, StoresOK, Storage
  <1> SUFFICES ASSUME running', k \notin popped' \cup condemned' PROVE OnItsWay(k)'
    BY DEF Way
  <1> DEFINE i == Find(mem.index, call[t].key)
  <1>1. /\ OnItsWay(k) /\ pc[t] = "deleteFromMemory" /\ used' = used /\ k \notin condemned
        /\ disk' = disk /\ files' = files /\ mem' = IF i = 0 THEN mem ELSE Notified(Erased(i))
        /\ AfterDelete(t) \/ Goto(t, "deleteFromDisk")
    BY DEF DeleteFromMemory, clientVars, directory, workerVars, Way
  <1>2. StorersKept(k)
    BY <1>1, ThreadMoves, EarlyLabels DEF AfterDelete, Stage
  <1>3. i \in 0 .. Len(mem.index) /\ (i # 0 => mem.index[i].key = call[t].key)
    BY FindResult
  <1>4. call[t].key = k => i = 0
    <2> SUFFICES ASSUME call[t].key = k PROVE i = 0
      OBVIOUS
    <2>1. call[t].op = "Store"
      BY <1>1, ClientAt DEF DeletesAreKnown
    <2>2. InMemory(k) = {}
      BY <1>1, <2>1 DEF Storers, OnItsWay, StoredSoFar
    <2> QED BY <2>2, FindElement DEF InMemory
  <1>5. i # 0 => Erased(i) \in Storage(MemElements)
    BY <1>3, ErasedType
  <1> HIDE DEF i
  <1>6. CASE i = 0
    BY <1>1, <1>2, <1>6, QuietStep
  <1>7. CASE i # 0
    <2>1. Erased(i).index = RemoveAt(mem.index, i)
      BY DEF Erased, StoresOK, Storage
    <2>2. mem'.index = RemoveAt(mem.index, i)
      BY <1>1, <1>5, <1>7, <2>1, IndexKept
    <2> QED BY <1>1, <1>2, <1>3, <1>4, <1>7, <2>2, MemoryStep
  <1> QED BY <1>6, <1>7

\* Nor on disk.
LEMMA DeleteFromDiskWay ==
  ASSUME TypeOK, DeletesAreKnown, NEW k \in Keys, Way(k), NEW t \in Clients, DeleteFromDisk(t)
  PROVE  Way(k)'
PROOF
  <1> ThreadsOK /\ StoresOK /\ disk.index \in Seq(DiskElements) /\ t \in Threads /\ t # Worker
    BY ClientAt DEF TypeOK, StoresOK, Storage
  <1> SUFFICES ASSUME running', k \notin popped' \cup condemned' PROVE OnItsWay(k)'
    BY DEF Way
  <1> DEFINE i == Find(disk.index, call[t].key)
  <1>1. /\ OnItsWay(k) /\ pc[t] = "deleteFromDisk" /\ used' = used /\ k \notin condemned
        /\ mem' = mem /\ (Throw(t) \/ AfterDelete(t))
    BY DEF DeleteFromDisk, clientVars, workerVars, Way
  <1>2. \/ disk' = disk /\ files' = files
        \/ i # 0 /\ disk' = Notified(Marked(disk, i, "cancelled")) /\ files' = files
        \/ /\ i # 0 /\ files[call[t].key] # NoValue
           /\ RemoveFile(call[t].key) /\ disk' = Notified(WithoutFile(i))
    BY DEF DeleteFromDisk
  <1>3. StorersKept(k)
    BY <1>1, ThreadMoves, EarlyLabels DEF AfterDelete, Throw, Stage
  <1>4. i \in 0 .. Len(disk.index) /\ (i # 0 => disk.index[i].key = call[t].key)
    BY FindResult
  <1>5. call[t].key = k => i = 0
    <2> SUFFICES ASSUME call[t].key = k PROVE i = 0
      OBVIOUS
    <2>1. call[t].op = "Store"
      BY <1>1, ClientAt DEF DeletesAreKnown
    <2>2. Stage(t) = "before"
      BY <1>1, EarlyLabels DEF Stage
    <2>3. OnDisk(k) = {}
      BY <1>1, <2>1, <2>2 DEF Storers, OnItsWay, StoredSoFar
    <2> QED BY <2>3, FindElement DEF OnDisk
  <1>6. Once(disk.index, k)
    BY <1>1 DEF OnItsWay
  <1> HIDE DEF i
  <1>7. CASE disk' = disk /\ files' = files
    BY <1>1, <1>3, <1>7, QuietStep
  <1>8. CASE i # 0 /\ disk' = Notified(Marked(disk, i, "cancelled")) /\ files' = files
    <2>1. disk'.index = Marked(disk, i, "cancelled").index
      BY <1>4, <1>8, MarkedType, IndexKept DEF StoresOK, States
    <2>2. PICK e : e = [disk.index[i] EXCEPT !.state = "cancelled"]
      OBVIOUS
    <2>3. Changed(disk.index, disk'.index, i, e)
      BY <1>4, <1>8, <2>1, <2>2, MarkElement DEF StoresOK
    <2>4. e.key # k
      BY <1>4, <1>5, <1>8, <2>3 DEF Changed
    <2>5. Once(disk'.index, k) /\ OnDisk(k)' = OnDisk(k)
      BY <1>6, <2>3, <2>4, ChangeElement DEF OnDisk
    <2> QED BY <1>1, <1>3, <1>8, <2>5, DiskStep
  <1>9. CASE /\ i # 0 /\ files[call[t].key] # NoValue
             /\ RemoveFile(call[t].key) /\ disk' = Notified(WithoutFile(i))
    <2>1. WithoutFile(i) \in Storage(DiskElements)
      BY <1>4, <1>9, WithoutFileType DEF TypeOK
    <2>2. WithoutFile(i).index = RemoveAt(disk.index, i)
      BY DEF WithoutFile, StoresOK, Storage
    <2>3. disk'.index = RemoveAt(disk.index, i)
      BY <1>9, <2>1, <2>2, IndexKept
    <2>4. files'[k] = files[k]
      BY <1>4, <1>5, <1>9 DEF RemoveFile, TypeOK, DirectoryOK
    <2> QED BY <1>1, <1>3, <1>4, <1>5, <1>9, <2>3, <2>4, RemovalStep
  <1> QED BY <1>2, <1>7, <1>8, <1>9

\* Delete(predicate) removes condemned keys only.
LEMMA DeleteIfWay ==
  ASSUME TypeOK, DeletesAreKnown, NEW k \in Keys, Way(k), NEW t \in Clients,
         DeleteIfFromMemory(t) \/ DeleteIfFromDisk(t)
  PROVE  Way(k)'
PROOF
  <1> /\ ThreadsOK /\ StoresOK /\ t \in Threads /\ t # Worker
      /\ mem.index \in Seq(MemElements) /\ disk.index \in Seq(DiskElements)
    BY ClientAt DEF TypeOK, StoresOK, Storage
  <1> SUFFICES ASSUME running', k \notin popped' \cup condemned' PROVE OnItsWay(k)'
    BY DEF Way
  <1>1. /\ OnItsWay(k) /\ pc[t] \in {"deleteIfFromMemory", "deleteIfFromDisk"}
        /\ used' = used /\ k \notin condemned /\ files' = files
    BY DEF DeleteIfFromMemory, DeleteIfFromDisk, clientVars, directory, workerVars, Way
  <1>2. call[t].op = "DeleteIf" /\ k \notin call[t].keys
    BY <1>1, ClientAt DEF DeletesAreKnown
  <1>3. StorersKept(k)
    <2>1. t \notin Storers(k)
      BY <1>2 DEF Storers
    <2> QED BY <1>1, <2>1, ThreadMoves DEF DeleteIfFromMemory, DeleteIfFromDisk
  <1>4. CASE DeleteIfFromMemory(t)
    <2> DEFINE i == FindAnyOf(mem.index, call[t].keys)
    <2>1. i # 0 => i \in 1 .. Len(mem.index) /\ mem.index[i].key # k
      BY <1>2, FindAnyElement
    <2>2. disk' = disk
      BY <1>4 DEF DeleteIfFromMemory
    <2>3. \/ mem' = Unlocked(mem)
          \/ i # 0 /\ mem' = Notified(Locked(Erased(i), t))
      BY <1>4 DEF DeleteIfFromMemory
    <2> HIDE DEF i
    <2>4. CASE mem' = Unlocked(mem)
      BY <1>1, <1>3, <2>2, <2>4, IndexKept, QuietStep DEF StoresOK
    <2>5. CASE i # 0 /\ mem' = Notified(Locked(Erased(i), t))
      <3>1. Erased(i) \in Storage(MemElements) /\ Locked(Erased(i), t) \in Storage(MemElements)
        BY <2>1, <2>5, ErasedType, MutexType
      <3>2. Erased(i).index = RemoveAt(mem.index, i)
        BY DEF Erased, StoresOK, Storage
      <3>3. mem'.index = RemoveAt(mem.index, i)
        BY <2>5, <3>1, <3>2, IndexKept
      <3> QED BY <1>1, <1>3, <2>1, <2>2, <2>5, <3>3, MemoryStep
    <2> QED BY <2>3, <2>4, <2>5
  <1>5. CASE DeleteIfFromDisk(t)
    <2> DEFINE i == FindAnyOf(disk.index, call[t].keys)
    <2>1. i # 0 => i \in 1 .. Len(disk.index) /\ disk.index[i].key # k
      BY <1>2, FindAnyElement
    <2>2. mem' = mem
      BY <1>5 DEF DeleteIfFromDisk
    <2>3. \/ disk' = Unlocked(disk)
          \/ i # 0 /\ disk' = [Notified(Locked(disk, t)) EXCEPT !.index = RemoveAt(@, i)]
      BY <1>5 DEF DeleteIfFromDisk
    <2> HIDE DEF i
    <2>4. CASE disk' = Unlocked(disk)
      BY <1>1, <1>3, <2>2, <2>4, IndexKept, QuietStep DEF StoresOK
    <2>5. CASE i # 0 /\ disk' = [Notified(Locked(disk, t)) EXCEPT !.index = RemoveAt(@, i)]
      <3>1. Notified(Locked(disk, t)) \in Storage(DiskElements)
        BY MutexType DEF StoresOK
      <3>2. Notified(Locked(disk, t)).index = disk.index
        BY MutexType, IndexKept DEF StoresOK
      <3>3. disk'.index = RemoveAt(disk.index, i)
        BY <2>5, <3>1, <3>2 DEF Storage
      <3> QED BY <1>1, <1>3, <2>1, <2>2, <2>5, <3>3, RemovalStep
    <2> QED BY <2>3, <2>4, <2>5
  <1> QED BY <1>4, <1>5

\* The first Store of a key sets it on its way.
LEMMA CallWay ==
  ASSUME ~ReuseKeys, TypeOK, NEW k \in Keys, Way(k),
         NEW t \in Clients, NEW c \in Requests, Call(t, c)
  PROVE  Way(k)'
PROOF
  <1> ThreadsOK /\ StoresOK /\ t \in Threads /\ t # Worker
    BY ClientAt DEF TypeOK
  <1> SUFFICES ASSUME running', k \notin popped' \cup condemned' PROVE OnItsWay(k)'
    BY DEF Way
  <1>1. /\ OnItsWay(k) /\ pc[t] = "idle" /\ used \subseteq used'
        /\ mem' = mem /\ disk' = disk /\ files' = files
        /\ c.op = "Store" => c.key \notin used /\ c.key \in used'
    BY DEF Call, directory, workerVars, Way
  <1>2. c.op # "Copy"
    BY EnvironmentAssumption DEF AllCalls, StoreCalls, KeyCalls, DeleteIfCalls, SetMaxCalls
  <1>3. /\ call'[t] = c /\ pc'[t] = FirstLabel(c)
        /\ \A u \in Threads \ {t} : pc'[u] = pc[u] /\ call'[u] = call[u]
    BY DEF Call, ThreadsOK
  <1>4. t \notin Storers(k)
    BY <1>1, ThreadsAssumption DEF ThreadsOK, OpsAt, StoreOnDiskLabels, Storers
  <1>5. /\ InMemory(k)' = InMemory(k) /\ OnDisk(k)' = OnDisk(k)
        /\ Once(mem'.index, k) /\ Once(disk'.index, k)
    BY <1>1 DEF InMemory, OnDisk, OnItsWay
  <1>6. CASE c.op = "Store" /\ c.key = k
    <2>1. InMemory(k) = {} /\ OnDisk(k) = {} /\ Storers(k) = {}
      BY <1>1, <1>6 DEF OnItsWay
    <2>2. Storers(k)' = {t}
      BY <1>3, <1>6, <2>1 DEF Storers
    <2>3. Stage(t)' = "before"
      BY <1>3, <1>6, EarlyLabels DEF Stage, FirstLabel
    <2>4. StoredSoFar(t, k)'
      BY <1>5, <2>1, <2>3 DEF StoredSoFar
    <2> QED BY <1>1, <1>5, <1>6, <2>2, <2>4, StorerWay
  <1>7. CASE ~(c.op = "Store" /\ c.key = k)
    <2>1. Worker \in Threads \ {t}
      BY DEF Threads
    <2>2. Storers(k)' = Storers(k)
      BY <1>2, <1>3, <1>4, <1>7 DEF Storers
    <2>3. \A u \in Storers(k) : u \in Threads \ {t} /\ Stage(u)' = Stage(u)
      BY <1>3, <1>4 DEF Storers, Stage
    <2>4. StorersKept(k)
      BY <1>3, <2>1, <2>2, <2>3 DEF StorersKept
    <2> QED BY <1>1, <1>5, <2>4, KeptWay
  <1> QED BY <1>6, <1>7

\* The destructor stops the buffer, and then moves nothing.
LEMMA DestructorWay ==
  ASSUME TypeOK, NEW k \in Keys, Way(k), DestructorStep \/ UNCHANGED vars
  PROVE  Way(k)'
PROOF
  <1> ThreadsOK /\ StoresOK
    BY DEF TypeOK
  <1> SUFFICES ASSUME running', k \notin popped' \cup condemned' PROVE OnItsWay(k)'
    BY DEF Way
  <1>1. /\ OnItsWay(k) /\ used' = used /\ files' = files /\ pc' = pc /\ call' = call
        /\ mem' \in {mem, Notified(mem)} /\ disk' \in {disk, Notified(disk)}
    BY DEF DestructorStep, Destroy, NotifyWorker, EndDestroy, StopRunning, vars,
           clientVars, directory, workerVars, threadVars, Way
  <1>2. StorersKept(k)
    BY <1>1 DEF StorersKept, Storers, Stage
  <1>3. mem'.index = mem.index /\ disk'.index = disk.index
    BY <1>1 DEF Notified, StoresOK, Storage
  <1> QED BY <1>1, <1>2, <1>3, QuietStep

-----------------------------------------------------------------------------
(* The theorem.                                                            *)

\* Every step but a Call leaves each client in its call or between two.
ClientsKept == condemned' = condemned /\ \A t \in Clients : call'[t] \in {call[t], NoCall}

\* So do the ways in which a step ends.
LEMMA MovesKeep ==
  ASSUME ThreadsOK, NEW t \in Threads, condemned' = condemned,
         \/ \E label : Goto(t, label)
         \/ \E result : Return(t, result)
         \/ Throw(t) \/ AfterDelete(t) \/ AfterStoreOnDisk(t) \/ ThrowFromStoreOnDisk(t)
  PROVE  ClientsKept
PROOF
  <1>1. call' = call \/ call' = [call EXCEPT ![t] = NoCall]
    BY DEF Goto, Return, Throw, AfterDelete, AfterStoreOnDisk, ThrowFromStoreOnDisk
  <1> QED BY <1>1 DEF ClientsKept, ThreadsOK, Threads

\* StoreOnDisk does, for a client and for the worker.
LEMMA StoreOnDiskKeeps ==
  ASSUME TypeOK, NEW t \in Threads, StoreOnDiskStep(t)
  PROVE  ClientsKept
PROOF
  <1> ThreadsOK
    BY DEF TypeOK
  <1>1. condemned' = condemned
    BY DEF StoreOnDiskStep, BeginStoreOnDisk, EndWaitForSpaceOnDisk, NoticeCancelled, PopOldest,
           DecideToWaitOnDisk, WaitOnDisk, WakeOnDisk, WriteSucceeds, WriteFails, EndCancelled,
           AbandonStoreOnDisk, clientVars
  <1>2. \/ \E label : Goto(t, label)
        \/ AfterStoreOnDisk(t) \/ ThrowFromStoreOnDisk(t)
    BY DEF StoreOnDiskStep, BeginStoreOnDisk, EndWaitForSpaceOnDisk, NoticeCancelled, PopOldest,
           DecideToWaitOnDisk, WaitOnDisk, WakeOnDisk, WriteSucceeds, WriteFails, EndCancelled,
           AbandonStoreOnDisk
  <1> QED BY <1>1, <1>2, MovesKeep

\* A client does.
LEMMA ClientKeeps ==
  ASSUME TypeOK, NEW t \in Clients, ClientStep(t)
  PROVE  ClientsKept
PROOF
  <1> ThreadsOK /\ t \in Threads
    BY ClientAt DEF TypeOK
  <1>1. CASE StoreOnDiskStep(t)
    BY <1>1, StoreOnDiskKeeps
  <1>2. CASE \/ CheckWorkerIsStillRunning(t)
             \/ LockMemoryToStore(t) \/ StoreInMemory(t) \/ WaitForSpaceInMemory(t)
             \/ GiveUpStoring(t) \/ JoinWorker(t)
             \/ WaitOnMemory(t) \/ WakeOnMemory(t)
    <2>1. condemned' = condemned
      BY <1>2 DEF CheckWorkerIsStillRunning, LockMemoryToStore, StoreInMemory,
         WaitForSpaceInMemory, GiveUpStoring, JoinWorker, WaitOnMemory, WakeOnMemory, clientVars
    <2>2. Throw(t) \/ (\E label : Goto(t, label)) \/ (\E result : Return(t, result))
      BY <1>2 DEF CheckWorkerIsStillRunning, LockMemoryToStore, StoreInMemory,
         WaitForSpaceInMemory, GiveUpStoring, JoinWorker, WaitOnMemory, WakeOnMemory
    <2> QED BY <2>1, <2>2, MovesKeep
  <1>3. CASE \/ GetFromMemory(t) \/ GetSettled(t) \/ GetStarted(t)
             \/ CheckDiskMax(t) \/ SetMaxMemoryUsage(t)
             \/ CheckMemMax(t) \/ SetMaxDiskUsage(t)
    <2>1. condemned' = condemned
      BY <1>3 DEF GetFromMemory, GetSettled, GetStarted, CheckDiskMax, SetMaxMemoryUsage,
         CheckMemMax, SetMaxDiskUsage, clientVars
    <2>2. (\E label : Goto(t, label)) \/ (\E result : Return(t, result))
      BY <1>3 DEF GetFromMemory, GetSettled, GetStarted, ReadFile, CheckDiskMax,
         SetMaxMemoryUsage, CheckMemMax, SetMaxDiskUsage
    <2> QED BY <2>1, <2>2, MovesKeep
  <1>4. CASE \/ DeleteFromMemory(t) \/ DeleteFromDisk(t)
             \/ DeleteIfFromMemory(t) \/ DeleteIfFromDisk(t)
    <2>1. condemned' = condemned
      BY <1>4 DEF DeleteFromMemory, DeleteFromDisk, DeleteIfFromMemory, DeleteIfFromDisk, clientVars
    <2>2. \/ Throw(t) \/ AfterDelete(t)
          \/ (\E label : Goto(t, label)) \/ (\E result : Return(t, result))
      BY <1>4 DEF DeleteFromMemory, DeleteFromDisk, DeleteIfFromMemory, DeleteIfFromDisk
    <2> QED BY <2>1, <2>2, MovesKeep
  <1> QED BY <1>1, <1>2, <1>3, <1>4 DEF ClientStep

\* The worker does.
LEMMA WorkerKeeps ==
  ASSUME TypeOK, WorkerStep
  PROVE  ClientsKept
PROOF
  <1> ThreadsOK /\ Worker \in Threads
    BY DEF TypeOK, Threads
  <1>1. CASE StoreOnDiskStep(Worker)
    BY <1>1, StoreOnDiskKeeps
  <1>2. CASE WaitOnMemory(Worker) \/ WakeOnMemory(Worker) \/ WorkerReturns
    <2>1. condemned' = condemned /\ \E label : Goto(Worker, label)
      BY <1>2 DEF WaitOnMemory, WakeOnMemory, WorkerReturns, clientVars
    <2> QED BY <2>1, MovesKeep
  <1>3. CASE TakeOldest \/ MarkStored
    <2>1. condemned' = condemned
      BY <1>3 DEF TakeOldest, MarkStored, clientVars
    <2>2. call' = call \/ \E c : call' = [call EXCEPT ![Worker] = c]
      BY <1>3 DEF TakeOldest, MarkStored, Goto
    <2> QED BY <2>1, <2>2, ThreadsAssumption DEF ClientsKept, ThreadsOK, Threads
  <1> QED BY <1>1, <1>2, <1>3 DEF WorkerStep

\* No Delete is ever of a key that is not condemned.
LEMMA DeletesStayKnown ==
  ASSUME TypeOK, DeletesAreKnown, [Next]_vars
  PROVE  DeletesAreKnown'
PROOF
  <1>1. ASSUME ClientsKept PROVE DeletesAreKnown'
    BY <1>1 DEF ClientsKept, DeletesAreKnown, NoCall
  <1>2. ASSUME NEW t \in Clients, NEW c \in Requests, Call(t, c) PROVE DeletesAreKnown'
    <2>1. /\ call' = [call EXCEPT ![t] = c]
          /\ condemned' = condemned \cup CASE c.op = "Delete" -> {c.key}
                                            [] c.op = "DeleteIf" -> c.keys
                                            [] OTHER -> {}
      BY <1>2 DEF Call
    <2>2. \A u \in Clients : call'[u] = IF u = t THEN c ELSE call[u]
      BY <2>1 DEF TypeOK, ThreadsOK, Threads
    <2>3. ASSUME NEW u \in Clients
          PROVE  /\ call'[u].op = "Delete" => call'[u].key \in condemned'
                 /\ call'[u].op = "DeleteIf" => call'[u].keys \subseteq condemned'
      BY <2>1, <2>2 DEF DeletesAreKnown
    <2> QED BY <2>3 DEF DeletesAreKnown
  <1>3. CASE DestructorStep \/ UNCHANGED vars
    BY <1>3 DEF DestructorStep, Destroy, NotifyWorker, EndDestroy, vars, clientVars, threadVars,
                DeletesAreKnown
  <1> QED BY <1>1, <1>2, <1>3, ClientKeeps, WorkerKeeps DEF Next, Destroyed

\* OneWay holds initially.
LEMMA OneWayInit == Init => OneWay
PROOF
  <1> SUFFICES ASSUME Init PROVE OneWay
    OBVIOUS
  <1>1. DeletesAreKnown
    BY DEF Init, DeletesAreKnown, NoCall, Threads
  <1>2. ASSUME NEW k \in Keys PROVE OnItsWay(k)
    <2>1. mem.index = <<>> /\ disk.index = <<>>
      BY DEF Init, EmptyStorage
    <2>2. InMemory(k) = {} /\ OnDisk(k) = {} /\ Once(mem.index, k) /\ Once(disk.index, k)
      BY <2>1 DEF InMemory, OnDisk, ElementsOf, Once
    <2>3. Storers(k) = {}
      BY DEF Init, NoCall, Storers
    <2> QED BY <2>2, <2>3 DEF OnItsWay
  <1> QED BY <1>1, <1>2 DEF OneWay, Way

\* Every step keeps it.
LEMMA OneWayStep ==
  ASSUME ~ReuseKeys, TypeOK, OneWay, [Next]_vars
  PROVE  OneWay'
PROOF
  <1> DeletesAreKnown /\ Worker \in Threads /\ \A k \in Keys : Way(k)
    BY DEF OneWay, Threads
  <1>1. ASSUME NEW k \in Keys, NEW t \in Threads, StoreOnDiskStep(t) PROVE Way(k)'
    BY <1>1, BeginWay, SpaceWay, NoticeWay, PopWay, WriteWay, EndWay DEF StoreOnDiskStep
  <1>2. ASSUME NEW k \in Keys, NEW t \in Clients, ClientStep(t) PROVE Way(k)'
    <2> t \in Threads /\ t # Worker
      BY ClientAt DEF TypeOK
    <2> QED BY <1>1, <1>2, ThreadsWay, EvictWay, StoreInMemoryWay, QuietCallsWay,
            DeleteFromMemoryWay, DeleteFromDiskWay, DeleteIfWay DEF ClientStep
  <1>3. ASSUME NEW k \in Keys, WorkerStep PROVE Way(k)'
    <2>1. CASE WorkerReturns
      BY <2>1 DEF WorkerReturns, Way
    <2> QED BY <1>1, <1>3, <2>1, TakeWay, MarkWay, ThreadsWay, EvictWay DEF WorkerStep
  <1>4. ASSUME NEW k \in Keys PROVE Way(k)'
    BY <1>2, <1>3, CallWay, DestructorWay DEF Next, Destroyed
  <1> QED BY <1>4, DeletesStayKnown DEF OneWay

\* Every completed element of OneWay is on disk.
LEMMA OneWayIsEnough ==
  ASSUME TypeOK, OneWay
  PROVE  CompletedIsOnDisk
PROOF
  <1> SUFFICES ASSUME running, NEW i \in DOMAIN mem.index, mem.index[i].state = "completed",
                      mem.index[i].key \notin popped \cup condemned
               PROVE  LET e == mem.index[i]
                          j == Find(disk.index, e.key)
                      IN  files[e.key] = e.value /\ j # 0 /\ disk.index[j].state = "completed"
    BY DEF CompletedIsOnDisk
  <1>1. mem.index \in Seq(MemElements) /\ disk.index \in Seq(DiskElements)
    BY DEF TypeOK, StoresOK, Storage
  <1>2. PICK e \in MemElements : e = mem.index[i] /\ e \in InMemory(e.key)
    BY <1>1 DEF InMemory, ElementsOf
  <1>3. e.key \in Keys
    BY <1>2 DEF MemElements
  <1>4. OnItsWay(e.key)
    BY <1>2, <1>3 DEF OneWay, Way
  <1>5. OnDisk(e.key) = Copied(e.key) /\ files[e.key] = e.value
    BY <1>2, <1>4 DEF OnItsWay, StateIsTrue
  <1>6. Find(disk.index, e.key) # 0 /\ disk.index[Find(disk.index, e.key)] \in Copied(e.key)
    BY <1>1, <1>5, FindElement DEF OnDisk, Copied
  <1> QED BY <1>2, <1>5, <1>6 DEF Copied

\* CompletedIsOnDisk, for any numbers of clients, keys and values and any
\* limits: as long as no key is stored twice, an element that CopyQueueToDisk
\* has marked kCompleted is on disk with its value until it is popped or a
\* Delete of its key is called, so the eviction that Store makes room with
\* (FindMemoryRemovalCandidate) loses nothing.
THEOREM EvictionLosesNothing ==
  ASSUME ~ReuseKeys
  PROVE  Spec => []CompletedIsOnDisk
PROOF
  <1>1. Init => TypeOK /\ OneWay
    BY TypeInit, OneWayInit
  <1>2. TypeOK /\ OneWay /\ [Next]_vars => (TypeOK /\ OneWay)'
    BY TypeStep, OneWayStep
  <1>3. TypeOK /\ OneWay => CompletedIsOnDisk
    BY OneWayIsEnough
  <1> QED BY <1>1, <1>2, <1>3, PTL DEF Spec

-----------------------------------------------------------------------------
(* A worker that has ended.                                                *)

\* It ends because running_ was cleared, or clears it: with a pop functor it may also end in
\* RemoveFile, which does not.
DeadIsStopped == pc[Worker] = "exited" => ~running

\* The ways in which a step ends move one thread.
LEMMA OneMoves ==
  ASSUME NEW t \in Threads, ThreadsOK,
         \/ \E label : Goto(t, label)
         \/ \E result : Return(t, result)
         \/ Throw(t) \/ AfterDelete(t) \/ AfterStoreOnDisk(t) \/ ThrowFromStoreOnDisk(t)
  PROVE  \A u \in Threads : u # t => pc'[u] = pc[u]
PROOF
  <1>1. \E label : pc' = [pc EXCEPT ![t] = label]
    BY DEF Goto, Return, Throw, AfterDelete, AfterStoreOnDisk, ThrowFromStoreOnDisk
  <1> QED BY <1>1 DEF ThreadsOK

\* StoreOnDisk moves one thread, and ends the worker only with running_ cleared.
LEMMA StoreOnDiskMoves ==
  ASSUME ~HasPopFunctor, TypeOK, NEW t \in Threads, StoreOnDiskStep(t)
  PROVE  /\ pc[t] \in StoreOnDiskLabels
         /\ \A u \in Threads : u # t => pc'[u] = pc[u]
         /\ running' => running
         /\ t = Worker /\ pc'[t] = "exited" => ~running'
PROOF
  <1> ThreadsOK
    BY DEF TypeOK
  <1>1. pc[t] \in StoreOnDiskLabels
    BY DEF StoreOnDiskStep, BeginStoreOnDisk, EndWaitForSpaceOnDisk, NoticeCancelled, PopOldest,
           DecideToWaitOnDisk, WaitOnDisk, WakeOnDisk, WriteSucceeds, WriteFails, EndCancelled,
           AbandonStoreOnDisk, StoreOnDiskLabels
  <1>2. \/ \E label : Goto(t, label)
        \/ AfterStoreOnDisk(t) \/ ThrowFromStoreOnDisk(t)
    BY DEF StoreOnDiskStep, BeginStoreOnDisk, EndWaitForSpaceOnDisk, NoticeCancelled, PopOldest,
           DecideToWaitOnDisk, WaitOnDisk, WakeOnDisk, WriteSucceeds, WriteFails, EndCancelled,
           AbandonStoreOnDisk
  <1>3. running' => running
    BY DEF StoreOnDiskStep, BeginStoreOnDisk, EndWaitForSpaceOnDisk, NoticeCancelled, PopOldest,
           DecideToWaitOnDisk, WaitOnDisk, WakeOnDisk, WriteSucceeds, WriteFails, EndCancelled,
           AbandonStoreOnDisk, StopRunning, workerVars
  <1>4. ASSUME running' PROVE \E label \in StoreOnDiskLabels \cup {"relockMemory", "idle"} :
                                pc' = [pc EXCEPT ![t] = label]
    BY <1>4 DEF StoreOnDiskStep, BeginStoreOnDisk, EndWaitForSpaceOnDisk, NoticeCancelled,
           PopOldest, DecideToWaitOnDisk, WaitOnDisk, WakeOnDisk, WriteSucceeds, WriteFails,
           EndCancelled, AbandonStoreOnDisk, StopRunning, AfterStoreOnDisk, Goto, Return,
           StoreOnDiskLabels
  <1>5. ASSUME running' PROVE pc'[t] # "exited"
    BY <1>4, <1>5 DEF ThreadsOK, StoreOnDiskLabels
  <1> QED BY <1>1, <1>2, <1>3, <1>5, OneMoves

\* A client moves nobody else, and goes on from CheckWorkerIsStillRunning only with it.
LEMMA ClientMoves ==
  ASSUME ~HasPopFunctor, TypeOK, NEW t \in Clients, ClientStep(t)
  PROVE  /\ \A u \in Threads : u # t => pc'[u] = pc[u]
         /\ running' => running
         /\ pc[t] \in {"check", "recheck"} => CheckWorkerIsStillRunning(t)
PROOF
  <1> ThreadsOK /\ t \in Threads
    BY ClientAt DEF TypeOK
  <1>1. CASE StoreOnDiskStep(t)
    BY <1>1, StoreOnDiskMoves DEF StoreOnDiskLabels
  <1>2. CASE \/ CheckWorkerIsStillRunning(t)
             \/ LockMemoryToStore(t) \/ StoreInMemory(t) \/ WaitForSpaceInMemory(t)
             \/ GiveUpStoring(t) \/ JoinWorker(t)
             \/ WaitOnMemory(t) \/ WakeOnMemory(t)
    <2>1. running' = running
      BY <1>2 DEF CheckWorkerIsStillRunning, LockMemoryToStore, StoreInMemory,
         WaitForSpaceInMemory, GiveUpStoring, JoinWorker, WaitOnMemory, WakeOnMemory, workerVars
    <2>2. Throw(t) \/ (\E label : Goto(t, label)) \/ (\E result : Return(t, result))
      BY <1>2 DEF CheckWorkerIsStillRunning, LockMemoryToStore, StoreInMemory,
         WaitForSpaceInMemory, GiveUpStoring, JoinWorker, WaitOnMemory, WakeOnMemory
    <2>3. pc[t] \in {"check", "recheck"} => CheckWorkerIsStillRunning(t)
      BY <1>2 DEF LockMemoryToStore, StoreInMemory, WaitForSpaceInMemory, GiveUpStoring,
         JoinWorker, WaitOnMemory, WakeOnMemory
    <2> QED BY <2>1, <2>2, <2>3, OneMoves
  <1>3. CASE \/ GetFromMemory(t) \/ GetSettled(t) \/ GetStarted(t)
             \/ CheckDiskMax(t) \/ SetMaxMemoryUsage(t)
             \/ CheckMemMax(t) \/ SetMaxDiskUsage(t)
    <2>1. running' = running /\ pc[t] \notin {"check", "recheck"}
      BY <1>3 DEF GetFromMemory, GetSettled, GetStarted, CheckDiskMax, SetMaxMemoryUsage,
         CheckMemMax, SetMaxDiskUsage, workerVars
    <2>2. (\E label : Goto(t, label)) \/ (\E result : Return(t, result))
      BY <1>3 DEF GetFromMemory, GetSettled, GetStarted, ReadFile, CheckDiskMax,
         SetMaxMemoryUsage, CheckMemMax, SetMaxDiskUsage
    <2> QED BY <2>1, <2>2, OneMoves
  <1>4. CASE \/ DeleteFromMemory(t) \/ DeleteFromDisk(t)
             \/ DeleteIfFromMemory(t) \/ DeleteIfFromDisk(t)
    <2>1. running' = running /\ pc[t] \notin {"check", "recheck"}
      BY <1>4 DEF DeleteFromMemory, DeleteFromDisk, DeleteIfFromMemory, DeleteIfFromDisk, workerVars
    <2>2. \/ Throw(t) \/ AfterDelete(t)
          \/ (\E label : Goto(t, label)) \/ (\E result : Return(t, result))
      BY <1>4 DEF DeleteFromMemory, DeleteFromDisk, DeleteIfFromMemory, DeleteIfFromDisk
    <2> QED BY <2>1, <2>2, OneMoves
  <1> QED BY <1>1, <1>2, <1>3, <1>4 DEF ClientStep

\* The worker moves only itself, and ends only with running_ cleared.
LEMMA WorkerMoves ==
  ASSUME ~HasPopFunctor, TypeOK, WorkerStep
  PROVE  /\ \A u \in Clients : pc'[u] = pc[u]
         /\ running' => running
         /\ pc'[Worker] = "exited" => ~running'
PROOF
  <1> ThreadsOK /\ Worker \in Threads /\ \A u \in Clients : u \in Threads /\ u # Worker
    BY ClientAt DEF TypeOK, Threads
  <1>1. CASE StoreOnDiskStep(Worker)
    BY <1>1, StoreOnDiskMoves
  <1>2. CASE TakeOldest \/ MarkStored \/ WaitOnMemory(Worker) \/ WakeOnMemory(Worker)
    <2>1. running' = running
      BY <1>2 DEF TakeOldest, MarkStored, WaitOnMemory, WakeOnMemory, workerVars
    <2>2. \E label \in {"lockDisk", "waitOnMemory", "waitingOnMemory", "findOldest"} :
            pc' = [pc EXCEPT ![Worker] = label]
      BY <1>2 DEF TakeOldest, MarkStored, WaitOnMemory, WakeOnMemory, Goto
    <2> QED BY <2>1, <2>2 DEF ThreadsOK
  <1>3. CASE WorkerReturns
    <2>1. ~running /\ running' = running /\ Goto(Worker, "exited")
      BY <1>3 DEF WorkerReturns
    <2> QED BY <2>1, OneMoves
  <1> QED BY <1>1, <1>2, <1>3 DEF WorkerStep

LEMMA DeadStep ==
  ASSUME ~HasPopFunctor, TypeOK, DeadIsStopped, [Next]_vars
  PROVE  /\ DeadIsStopped'
         /\ \A t \in Clients :
              pc[t] \in {"check", "recheck"} /\ pc'[t] # pc[t] => CheckWorkerIsStillRunning(t)
PROOF
  <1> ThreadsOK /\ Worker \in Threads /\ \A u \in Clients : u \in Threads /\ u # Worker
    BY ClientAt DEF TypeOK, Threads
  <1>1. ASSUME NEW u \in Clients, ClientStep(u)
        PROVE  /\ DeadIsStopped'
               /\ \A t \in Clients :
                    pc[t] \in {"check", "recheck"} /\ pc'[t] # pc[t] => CheckWorkerIsStillRunning(t)
    BY <1>1, ClientMoves DEF DeadIsStopped
  <1>2. ASSUME NEW u \in Clients, NEW c \in Requests, Call(u, c)
        PROVE  /\ DeadIsStopped'
               /\ \A t \in Clients : pc[t] \in {"check", "recheck"} => pc'[t] = pc[t]
    <2>1. pc[u] = "idle" /\ running' = running /\ pc' = [pc EXCEPT ![u] = FirstLabel(c)]
      BY <1>2 DEF Call, workerVars
    <2> QED BY <2>1 DEF DeadIsStopped, ThreadsOK
  <1>3. CASE WorkerStep
    BY <1>3, WorkerMoves DEF DeadIsStopped
  <1>4. CASE DestructorStep \/ UNCHANGED vars
    <2>1. pc' = pc /\ (running' => running)
      BY <1>4 DEF DestructorStep, Destroy, NotifyWorker, EndDestroy, StopRunning, vars,
         threadVars, workerVars
    <2> QED BY <2>1 DEF DeadIsStopped
  <1> QED BY <1>1, <1>2, <1>3, <1>4 DEF Next, Destroyed

\* Once the worker has ended, each call that asks about it throws, for any numbers of
\* clients, keys and values, any limits and any failures: without a pop functor, for with
\* one a file that cannot be removed ends the worker and only the first call hears of it.
THEOREM DeadWorkerIsNoticed ==
  ASSUME ~HasPopFunctor
  PROVE  Spec => DeadWorkerIsReported
PROOF
  <1> DEFINE Reported ==
        \A t \in Clients :
          pc[t] \in {"check", "recheck"} /\ pc'[t] # pc[t] /\ pc[Worker] = "exited"
            => \/ pc'[t] = "idle" /\ outcome'[t] = "threw"
               \/ pc'[t] = "recheck"
  <1>1. Init => DeadIsStopped
    BY DEF Init, DeadIsStopped, Threads
  <1>2. TypeOK /\ DeadIsStopped /\ [Next]_vars => DeadIsStopped' /\ [Reported]_vars
    <2> SUFFICES ASSUME TypeOK, DeadIsStopped, [Next]_vars PROVE DeadIsStopped' /\ Reported
      OBVIOUS
    <2>1. DeadIsStopped'
      BY DeadStep
    <2>2. ASSUME NEW t \in Clients, pc[t] \in {"check", "recheck"}, pc'[t] # pc[t],
                 pc[Worker] = "exited"
          PROVE  (pc'[t] = "idle" /\ outcome'[t] = "threw") \/ pc'[t] = "recheck"
      <3>1. CheckWorkerIsStillRunning(t) /\ ~running
        BY <2>2, DeadStep DEF DeadIsStopped
      <3>2. Throw(t)
        BY <3>1 DEF CheckWorkerIsStillRunning
      <3>3. t \in DOMAIN pc /\ t \in DOMAIN outcome
        BY ClientAt DEF TypeOK, ThreadsOK
      <3> QED BY <3>2, <3>3 DEF Throw, Goto, Return
    <2> QED BY <2>1, <2>2
  <1> QED BY <1>1, <1>2, TypeInit, TypeStep, PTL DEF Spec, DeadWorkerIsReported

-----------------------------------------------------------------------------
(* What a Get finds of a key, whatever becomes of the buffer.              *)

\* What there is of a key that is stored once: Way without its assumption, so that a Delete, a
\* pop or a stop may come at any point, and only what those leave true.
Coherent(k) ==
  /\ k \notin used => InMemory(k) = {} /\ OnDisk(k) = {} /\ Storers(k) = {}
  /\ Once(mem.index, k) /\ Once(disk.index, k)
  /\ \A t, u \in Storers(k) : t = u
  /\ \A e \in InMemory(k) : e.state = "notStarted" => Storers(k) = {} /\ OnDisk(k) = {}
  /\ \A t \in Storers(k) :
       /\ \A e \in InMemory(k) : t = Worker /\ e.value = call[t].value
       /\ Stage(t) = "before" => OnDisk(k) = {} /\ (t = Worker => InMemory(k) # {})
       /\ \A d \in OnDisk(k) : d.state = "completed" => Stage(t) = "written"
  /\ \A d \in OnDisk(k) : d.state = "completed" =>
       files[k] # NoValue /\ \A e \in InMemory(k) : e.value = files[k]
AllCoherent == \A k \in Keys : Coherent(k)

\* Held, of two indexes, the file of the key, the threads storing it and their calls.
HeldIn(index, copies, k, file, storing, calls) ==
  LET i == Find(index, k)
      j == Find(copies, k)
  IN CASE i # 0 -> index[i].value
       [] i = 0 /\ j # 0 /\ copies[j].state = "completed" -> file
       [] i = 0 /\ j # 0 /\ copies[j].state = "started" /\ storing # {} ->
            calls[CHOOSE t \in storing : TRUE].value
       [] OTHER -> NoValue

\* It is the value in memory, else the file, else what the one thread is storing.
HeldBy(held, inMemory, onDisk, file, storing, calls) ==
  /\ \A e \in inMemory : held = e.value
  /\ inMemory = {} /\ onDisk = {} => held = NoValue
  /\ inMemory = {} =>
       \A d \in onDisk :
         /\ d.state = "completed" => held = file
         /\ d.state = "started" /\ storing = {} => held = NoValue
         /\ \A t : d.state = "started" /\ storing = {t} => held = calls[t].value
         /\ d.state \notin {"completed", "started"} => held = NoValue

\* The elements of an index with a key it has once are the one that Find finds.
LEMMA FindOnce ==
  ASSUME NEW E, NEW s \in Seq(E), NEW k, Once(s, k), NEW e \in ElementsOf(s, k)
  PROVE  Find(s, k) # 0 /\ s[Find(s, k)] = e
PROOF
  <1>1. PICK i \in 1 .. Len(s) : s[i] = e /\ s[i].key = k
    BY DEF ElementsOf
  <1>2. Find(s, k) # 0 /\ Find(s, k) \in 0 .. Len(s) /\ s[Find(s, k)].key = k
    BY FindElement, FindResult
  <1>3. Find(s, k) = i
    BY <1>1, <1>2 DEF Once
  <1> QED BY <1>1, <1>2, <1>3

LEMMA HeldInIs ==
  ASSUME NEW E, NEW s \in Seq(E), NEW F, NEW c \in Seq(F), NEW k, Once(s, k), Once(c, k),
         NEW file, NEW storing, NEW calls
  PROVE  HeldBy(HeldIn(s, c, k, file, storing, calls), ElementsOf(s, k), ElementsOf(c, k),
                file, storing, calls)
PROOF
  <1> DEFINE held == HeldIn(s, c, k, file, storing, calls)
  <1>1. ASSUME NEW e \in ElementsOf(s, k) PROVE held = e.value
    BY FindOnce DEF HeldIn
  <1>2. ElementsOf(s, k) = {} => Find(s, k) = 0
    BY FindElement
  <1>3. ElementsOf(c, k) = {} => Find(c, k) = 0
    BY FindElement
  <1>4. ASSUME ElementsOf(s, k) = {}, NEW d \in ElementsOf(c, k)
        PROVE  /\ d.state = "completed" => held = file
               /\ d.state = "started" /\ storing = {} => held = NoValue
               /\ \A t : d.state = "started" /\ storing = {t} => held = calls[t].value
               /\ d.state \notin {"completed", "started"} => held = NoValue
    <2>1. Find(s, k) = 0 /\ Find(c, k) # 0 /\ c[Find(c, k)] = d
      BY <1>2, <1>4, FindOnce
    <2>2. ASSUME NEW t, storing = {t} PROVE storing # {} /\ (CHOOSE u \in storing : TRUE) = t
      BY <2>2
    <2> QED BY <2>1, <2>2 DEF HeldIn
  <1>5. ElementsOf(s, k) = {} /\ ElementsOf(c, k) = {} => held = NoValue
    BY <1>2, <1>3 DEF HeldIn
  <1> QED BY <1>1, <1>4, <1>5 DEF HeldBy

\* Held, before a step and after it.
LEMMA HeldIs ==
  ASSUME NEW k
  PROVE  /\ TypeOK /\ Once(mem.index, k) /\ Once(disk.index, k) =>
              HeldBy(Held(k), InMemory(k), OnDisk(k), files[k], Storing(k), call)
         /\ TypeOK' /\ Once(mem'.index, k) /\ Once(disk'.index, k) =>
              HeldBy(Held(k)', InMemory(k)', OnDisk(k)', files'[k], Storing(k)', call')
PROOF
  <1>1. Held(k) = HeldIn(mem.index, disk.index, k, files[k], Storing(k), call)
    BY DEF Held, HeldIn
  <1>2. Held(k)' = HeldIn(mem'.index, disk'.index, k, files'[k], Storing(k)', call')
    BY DEF Held, HeldIn
  <1>3. TypeOK => mem.index \in Seq(MemElements) /\ disk.index \in Seq(DiskElements)
    BY DEF TypeOK, StoresOK, Storage
  <1>4. TypeOK' => mem'.index \in Seq(MemElements) /\ disk'.index \in Seq(DiskElements)
    BY DEF TypeOK, StoresOK, Storage
  <1>5. TypeOK /\ Once(mem.index, k) /\ Once(disk.index, k) =>
          HeldBy(Held(k), InMemory(k), OnDisk(k), files[k], Storing(k), call)
    BY <1>1, <1>3, HeldInIs DEF InMemory, OnDisk
  <1>6. TypeOK' /\ Once(mem'.index, k) /\ Once(disk'.index, k) =>
          HeldBy(Held(k)', InMemory(k)', OnDisk(k)', files'[k], Storing(k)', call')
    BY <1>2, <1>4, HeldInIs DEF InMemory, OnDisk
  <1> QED BY <1>5, <1>6

\* Who is storing, by stage.
LEMMA StoringStage ==
  ASSUME NEW k
  PROVE  /\ Storing(k) = {t \in Threads : Stage(t) = "writing" /\ call[t].key = k}
         /\ Storing(k)' = {t \in Threads : Stage(t)' = "writing" /\ call'[t].key = k}
         /\ ThreadsOK => Storing(k) \subseteq Storers(k)
         /\ ThreadsOK' => Storing(k)' \subseteq Storers(k)'
PROOF
  <1>1. Storing(k) = {t \in Threads : Stage(t) = "writing" /\ call[t].key = k}
    BY DEF Storing, Stage, StageAt
  <1>2. Storing(k)' = {t \in Threads : Stage(t)' = "writing" /\ call'[t].key = k}
    BY DEF Storing, Stage, StageAt
  <1>3. ThreadsOK => Storing(k) \subseteq Storers(k)
    BY StoringOnDisk DEF Storing, Storers, StoreOnDiskLabels
  <1>4. ThreadsOK' => Storing(k)' \subseteq Storers(k)'
    <2> SUFFICES ASSUME ThreadsOK', NEW t \in Storing(k)' PROVE t \in Storers(k)'
      OBVIOUS
    <2>1. t \in Threads /\ pc'[t] \in StoreOnDiskLabels /\ call'[t].key = k
      BY DEF Storing, StoreOnDiskLabels
    <2>2. call'[t].op \in OpsAt(t, pc'[t])
      BY <2>1 DEF ThreadsOK
    <2>3. OpsAt(t, pc'[t]) \subseteq {"Store", "Copy"}
      BY <2>1 DEF OpsAt, StoreOnDiskLabels
    <2> QED BY <2>1, <2>2, <2>3 DEF Storers
  <1> QED BY <1>1, <1>2, <1>3, <1>4

\* No thread begins to store a key, or to write it.
Onwards(k) ==
  \A t \in Storers(k)' :
    /\ t \in Storers(k) /\ call'[t] = call[t]
    /\ \/ Stage(t)' = Stage(t)
       \/ Stage(t)' = "written"
       \/ Stage(t)' = "cancelled" /\ Stage(t) = "writing"

\* A step that adds nothing to what there is of a key: elements may go, be completed in memory
\* and be cancelled on disk.
Thins(k) ==
  /\ used \subseteq used' /\ Onwards(k)
  /\ Once(mem'.index, k) /\ Once(disk'.index, k)
  /\ \A e \in InMemory(k)' :
       \E f \in InMemory(k) : f.value = e.value /\ e.state \in {f.state, "completed"}
  /\ \A d \in OnDisk(k)' : d \in OnDisk(k) \/ (d.state = "cancelled" /\ OnDisk(k) # {})
  /\ files'[k] = files[k] \/ \A d \in OnDisk(k)' : d.state # "completed"
  /\ Worker \in Storers(k)' /\ Stage(Worker)' = "before" => InMemory(k)' # {}

\* One that leaves alone what a Get would find of it.
Unmoved(k) ==
  /\ used \subseteq used' /\ Onwards(k) /\ Storing(k) \subseteq Storing(k)'
  /\ Once(mem'.index, k) /\ Once(disk'.index, k)
  /\ InMemory(k)' = InMemory(k) /\ OnDisk(k)' = OnDisk(k) /\ files'[k] = files[k]

LEMMA UnmovedThins ==
  ASSUME NEW k, Coherent(k), Unmoved(k)
  PROVE  Thins(k)
PROOF
  <1>1. Worker \in Storers(k)' /\ Stage(Worker)' = "before" => InMemory(k) # {}
    BY DEF Unmoved, Onwards, Coherent
  <1> QED BY <1>1 DEF Unmoved, Thins

\* Then it stays coherent, and a Get finds what it found before, or nothing.
LEMMA ThinnedIsCoherent ==
  ASSUME NEW k, Coherent(k), Thins(k)
  PROVE  Coherent(k)'
PROOF
  <1>1. \A t \in Storers(k)' : t \in Storers(k) /\ call'[t] = call[t]
    BY DEF Thins, Onwards
  <1>2. InMemory(k) = {} => InMemory(k)' = {}
    BY DEF Thins
  <1>3. OnDisk(k) = {} => OnDisk(k)' = {}
    BY DEF Thins
  <1>4. k \notin used' => InMemory(k)' = {} /\ OnDisk(k)' = {} /\ Storers(k)' = {}
    BY <1>1, <1>2, <1>3 DEF Coherent, Thins
  <1>5. \A t, u \in Storers(k)' : t = u
    BY <1>1 DEF Coherent
  <1>6. ASSUME NEW e \in InMemory(k)', e.state = "notStarted"
        PROVE  Storers(k)' = {} /\ OnDisk(k)' = {}
    <2>1. PICK f \in InMemory(k) : f.state = "notStarted"
      BY <1>6 DEF Thins
    <2> QED BY <1>1, <1>3, <2>1 DEF Coherent
  <1>7. ASSUME NEW t \in Storers(k)'
        PROVE  /\ \A e \in InMemory(k)' : t = Worker /\ e.value = call'[t].value
               /\ Stage(t)' = "before" => OnDisk(k)' = {} /\ (t = Worker => InMemory(k)' # {})
               /\ \A d \in OnDisk(k)' : d.state = "completed" => Stage(t)' = "written"
    <2>1. /\ \A e \in InMemory(k) : t = Worker /\ e.value = call[t].value
          /\ Stage(t) = "before" => OnDisk(k) = {}
          /\ \A d \in OnDisk(k) : d.state = "completed" => Stage(t) = "written"
      BY <1>1 DEF Coherent
    <2>2. \A e \in InMemory(k)' : t = Worker /\ e.value = call'[t].value
      BY <1>1, <2>1 DEF Thins
    <2>3. Stage(t)' = "before" => OnDisk(k)' = {} /\ (t = Worker => InMemory(k)' # {})
      BY <1>3, <2>1 DEF Thins, Onwards
    <2>4. \A d \in OnDisk(k)' : d.state = "completed" => Stage(t)' = "written"
      BY <2>1 DEF Thins, Onwards
    <2> QED BY <2>2, <2>3, <2>4
  <1>8. ASSUME NEW d \in OnDisk(k)', d.state = "completed"
        PROVE  files'[k] # NoValue /\ \A e \in InMemory(k)' : e.value = files'[k]
    <2>1. files'[k] = files[k] /\ d \in OnDisk(k)
      BY <1>8 DEF Thins
    <2> QED BY <1>8, <2>1 DEF Coherent, Thins
  <1>9. Once(mem'.index, k) /\ Once(disk'.index, k)
    BY DEF Thins
  <1> QED BY <1>4, <1>5, <1>6, <1>7, <1>8, <1>9 DEF Coherent

LEMMA ThinnedIsHeld ==
  ASSUME TypeOK, TypeOK', NEW k, Coherent(k), Thins(k)
  PROVE  /\ Held(k)' \in {Held(k), NoValue}
         /\ InMemory(k)' # {} => Held(k)' = Held(k)
         /\ Unmoved(k) => Held(k)' = Held(k)
PROOF
  <1>1. HeldBy(Held(k), InMemory(k), OnDisk(k), files[k], Storing(k), call)
    BY HeldIs DEF Coherent
  <1>2. HeldBy(Held(k)', InMemory(k)', OnDisk(k)', files'[k], Storing(k)', call')
    BY HeldIs DEF Thins
  <1>3. ASSUME NEW e \in InMemory(k)' PROVE Held(k)' = Held(k)
    BY <1>1, <1>2 DEF Thins, HeldBy
  <1>4. \A t \in Storing(k)' : t \in Storers(k)' /\ Stage(t)' = "writing" /\ call'[t] = call[t]
    BY StoringStage DEF TypeOK, Thins, Onwards
  <1>5. ASSUME InMemory(k)' = {}, NEW d \in OnDisk(k)'
        PROVE  /\ Held(k)' \in {Held(k), NoValue}
               /\ Unmoved(k) => Held(k)' = Held(k)
    <2>1. CASE d.state = "completed"
      <3>1. Held(k)' = files[k] /\ d \in OnDisk(k)
        BY <1>2, <1>5, <2>1 DEF Thins, HeldBy
      <3>2. CASE InMemory(k) = {}
        BY <1>1, <2>1, <3>1, <3>2 DEF HeldBy
      <3>3. ASSUME NEW e \in InMemory(k) PROVE Held(k)' = Held(k)
        BY <1>1, <2>1, <3>1, <3>3 DEF HeldBy, Coherent
      <3> QED BY <3>2, <3>3
    <2>2. ASSUME d.state = "started", NEW t \in Storing(k)' PROVE Held(k)' = Held(k)
      <3>1. t \in Storers(k) /\ call'[t] = call[t] /\ d \in OnDisk(k) /\ Stage(t)' = "writing"
        BY <1>4, <2>2 DEF Thins, Onwards
      <3>2. t \in Storing(k)
        BY <1>4, <2>2, <3>1, StoringStage DEF Thins, Onwards
      <3>3. Storing(k)' = {t} /\ Storing(k) = {t}
        BY <1>4, <2>2, <3>1, <3>2, StoringStage DEF TypeOK, Coherent, Thins, Onwards
      <3>4. Held(k)' = call[t].value
        BY <1>2, <1>5, <2>2, <3>1, <3>3 DEF HeldBy
      <3>5. CASE InMemory(k) = {}
        BY <1>1, <2>2, <3>1, <3>3, <3>4, <3>5 DEF HeldBy
      <3>6. ASSUME NEW e \in InMemory(k) PROVE Held(k)' = Held(k)
        BY <1>1, <3>1, <3>4, <3>6 DEF HeldBy, Coherent
      <3> QED BY <3>5, <3>6
    <2>3. CASE d.state = "started" /\ Storing(k)' = {}
      <3>1. Held(k)' = NoValue
        BY <1>2, <1>5, <2>3 DEF HeldBy
      <3>2. Unmoved(k) => Held(k) = NoValue
        BY <1>1, <1>5, <2>3 DEF Unmoved, HeldBy
      <3> QED BY <3>1, <3>2
    <2>4. CASE d.state \notin {"completed", "started"}
      <3>1. Held(k)' = NoValue
        BY <1>2, <1>5, <2>4 DEF HeldBy
      <3>2. Unmoved(k) => Held(k) = NoValue
        BY <1>1, <1>5, <2>4 DEF Unmoved, HeldBy
      <3> QED BY <3>1, <3>2
    <2> QED BY <2>1, <2>2, <2>3, <2>4
  <1>6. ASSUME InMemory(k)' = {}, OnDisk(k)' = {}
        PROVE  Held(k)' = NoValue /\ (Unmoved(k) => Held(k)' = Held(k))
    BY <1>1, <1>2, <1>6 DEF Unmoved, HeldBy
  <1> QED BY <1>3, <1>5, <1>6

\* Which moves of a thread begin no store.
LEMMA MovesOnwards ==
  ASSUME ThreadsOK, NEW t \in Threads, NEW k
  PROVE  /\ \A label :
              /\ Goto(t, label)
              /\ \/ t \notin Storers(k) \/ StageAt(label) = Stage(t)
                 \/ StageAt(label) = "written"
                 \/ StageAt(label) = "cancelled" /\ Stage(t) = "writing"
              => Onwards(k)
         /\ (\E result : Return(t, result)) \/ ThrowFromStoreOnDisk(t) => Onwards(k)
         /\ (\E label : Goto(t, label)) \/ (\E result : Return(t, result))
              \/ ThrowFromStoreOnDisk(t) => Storing(k) \ {t} \subseteq Storing(k)'
         /\ \A label : Goto(t, label) /\ StageAt(label) = "writing"
              => Storing(k) \subseteq Storing(k)'
PROOF
  <1>0. pc \in [Threads -> WorkerLabels \cup ClientLabels] /\ call \in [Threads -> Calls]
    BY DEF ThreadsOK
  <1>1. NoCall.op \notin {"Store", "Copy"}
    BY DEF NoCall
  <1>2. ASSUME NEW label, Goto(t, label)
        PROVE  /\ \/ t \notin Storers(k) \/ StageAt(label) = Stage(t)
                  \/ StageAt(label) = "written"
                  \/ StageAt(label) = "cancelled" /\ Stage(t) = "writing"
                  => Onwards(k)
               /\ Storing(k) \ {t} \subseteq Storing(k)'
               /\ StageAt(label) = "writing" => Storing(k) \subseteq Storing(k)'
    <2>1. pc' = [pc EXCEPT ![t] = label] /\ call' = call
      BY <1>2 DEF Goto
    <2>2. /\ pc'[t] = label /\ \A u \in Threads : u # t => Stage(u)' = Stage(u)
          /\ Stage(t)' = StageAt(label) /\ Storers(k)' = Storers(k)
      BY <1>0, <2>1 DEF Stage, Storers
    <2> QED BY <2>1, <2>2, StoringStage DEF Onwards, Storers
  <1>3. ASSUME (\E result : Return(t, result)) \/ ThrowFromStoreOnDisk(t)
        PROVE  Onwards(k) /\ Storing(k) \ {t} \subseteq Storing(k)'
    <2>1. (\E label : pc' = [pc EXCEPT ![t] = label]) /\ call' = [call EXCEPT ![t] = NoCall]
      BY <1>3 DEF Return, ThrowFromStoreOnDisk
    <2>2. \A u \in Threads : u # t => Stage(u)' = Stage(u) /\ call'[u] = call[u]
      BY <1>0, <2>1 DEF Stage
    <2>3. Storers(k)' = Storers(k) \ {t}
      BY <1>0, <1>1, <2>1, <2>2 DEF Storers
    <2> QED BY <2>2, <2>3, StoringStage DEF Onwards, Storers
  <1> QED BY <1>2, <1>3

\* A step that changes neither index nor the directory, by a thread that is not writing or
\* goes on with it.
LEMMA QuietIsUnmoved ==
  ASSUME ThreadsOK, NEW t \in Threads, NEW k, Coherent(k),
         used \subseteq used', mem'.index = mem.index, disk'.index = disk.index,
         files'[k] = files[k],
         \/ \E label : /\ Goto(t, label)
                       /\ \/ StageAt(label) = Stage(t)
                          \/ t \notin Storers(k) /\ t \notin Storing(k)
                          \/ StageAt(label) = "written" /\ t \notin Storing(k)
         \/ t \notin Storing(k) /\ ((\E result : Return(t, result)) \/ ThrowFromStoreOnDisk(t))
  PROVE  Unmoved(k)
PROOF
  <1>1. /\ InMemory(k)' = InMemory(k) /\ OnDisk(k)' = OnDisk(k)
        /\ Once(mem'.index, k) /\ Once(disk'.index, k)
    BY DEF InMemory, OnDisk, Coherent
  <1>2. t \in Storing(k) => Stage(t) = "writing"
    BY StoringStage
  <1>3. Onwards(k) /\ Storing(k) \subseteq Storing(k)'
    BY <1>2, MovesOnwards
  <1> QED BY <1>1, <1>3 DEF Unmoved

\* The worker has taken an element and not begun to write it only while it holds the mutex.
LEMMA WorkerElsewhere ==
  ASSUME ThreadsOK, MutualExclusion, mem.owner # Worker, NEW k
  PROVE  ~(Worker \in Storers(k) /\ Stage(Worker) = "before")
PROOF
  <1> SUFFICES ASSUME Worker \in Storers(k), Stage(Worker) = "before" PROVE FALSE
    OBVIOUS
  <1>1. Worker \in Threads /\ pc[Worker] \in WorkerLabels /\ call[Worker].op \in OpsAt(Worker, pc[Worker])
    BY DEF ThreadsOK, LabelsOf, Threads
  <1>2. call[Worker].op \in {"Store", "Copy"}
    BY DEF Storers
  <1>3. pc[Worker] \in StoreOnDiskLabels \cup {"relockMemory"}
    BY <1>1, <1>2 DEF OpsAt, WorkerLabels
  <1>4. pc[Worker] = "lockDisk"
    BY <1>3 DEF StoreOnDiskLabels, Stage, StageAt
  <1> QED BY <1>1, <1>4 DEF MutualExclusion, Owned, MemHolds

\* A step that removes an element from memory.
LEMMA MemoryThins ==
  ASSUME TypeOK, MutualExclusion, mem.owner # Worker, NEW k, Coherent(k),
         NEW i \in 1 .. Len(mem.index), mem'.index = RemoveAt(mem.index, i),
         disk'.index = disk.index, files'[k] = files[k], used \subseteq used',
         Onwards(k), Storing(k) \subseteq Storing(k)'
  PROVE  /\ Thins(k)
         /\ mem.index[i].key # k => Unmoved(k)
         /\ mem.index[i].key = k => InMemory(k)' = {} /\ OnDisk(k)' = OnDisk(k)
PROOF
  <1>1. mem.index \in Seq(MemElements) /\ Once(mem.index, k)
    BY DEF TypeOK, StoresOK, Storage, Coherent
  <1>2. /\ Once(mem'.index, k)
        /\ InMemory(k)' = IF mem.index[i].key = k THEN {} ELSE InMemory(k)
    <2>1. LET index == RemoveAt(mem.index, i) IN
          /\ Once(index, k)
          /\ ElementsOf(index, k) = IF mem.index[i].key = k THEN {} ELSE ElementsOf(mem.index, k)
      BY <1>1, RemoveElement
    <2> QED BY <2>1 DEF InMemory
  <1>3. Once(disk'.index, k) /\ OnDisk(k)' = OnDisk(k)
    BY DEF OnDisk, Coherent
  <1>4. ~(Worker \in Storers(k)' /\ Stage(Worker)' = "before")
    BY WorkerElsewhere DEF TypeOK, Onwards
  <1> QED BY <1>2, <1>3, <1>4 DEF Thins, Unmoved

\* A step that removes an element from the disk index.
LEMMA DiskThins ==
  ASSUME TypeOK, NEW k, Coherent(k),
         NEW i \in 1 .. Len(disk.index), disk'.index = RemoveAt(disk.index, i),
         mem'.index = mem.index, used \subseteq used', Onwards(k),
         disk.index[i].key # k => files'[k] = files[k] /\ Storing(k) \subseteq Storing(k)'
  PROVE  /\ Thins(k)
         /\ disk.index[i].key # k => Unmoved(k)
         /\ disk.index[i].key = k => InMemory(k)' = InMemory(k) /\ OnDisk(k)' = {}
PROOF
  <1>1. disk.index \in Seq(DiskElements) /\ Once(disk.index, k)
    BY DEF TypeOK, StoresOK, Storage, Coherent
  <1>2. /\ Once(disk'.index, k)
        /\ OnDisk(k)' = IF disk.index[i].key = k THEN {} ELSE OnDisk(k)
    <2>1. LET index == RemoveAt(disk.index, i) IN
          /\ Once(index, k)
          /\ ElementsOf(index, k) = IF disk.index[i].key = k THEN {} ELSE ElementsOf(disk.index, k)
      BY <1>1, RemoveElement
    <2> QED BY <2>1 DEF OnDisk
  <1>3. Once(mem'.index, k) /\ InMemory(k)' = InMemory(k)
    BY DEF InMemory, Coherent
  <1>4. Worker \in Storers(k)' /\ Stage(Worker)' = "before" => InMemory(k) # {}
    BY DEF Onwards, Coherent
  <1> QED BY <1>2, <1>3, <1>4 DEF Thins, Unmoved

-----------------------------------------------------------------------------
(* What each step does to what a Get finds.                                *)

Others(q) == \A k \in Keys : k # q => Held(k)' = Held(k)

StillHeld == UNCHANGED <<popped, running>> /\ \A k \in Keys : Held(k)' = Held(k)
Accepted(q) ==
  /\ UNCHANGED <<popped, running>> /\ Others(q) /\ Held(q) = NoValue
  /\ \E t \in Clients : call[t].op = "Store" /\ call[t].key = q /\ Held(q)' = call[t].value
Lost(q) ==
  /\ UNCHANGED <<popped, running>> /\ Others(q) /\ Held(q)' = NoValue
  /\ q \in condemned \cup popped \/ ~running
Popped(q) ==
  /\ UNCHANGED <<running, call>>
  /\ Others(q) /\ Held(q) # NoValue /\ Held(q)' \in {Held(q), NoValue}
  /\ popped' = popped \cup {q}
\* A pop fails, and with it the Store it was to make room for.
Retracted(q) ==
  /\ UNCHANGED <<popped, running>> /\ Others(q) /\ Held(q)' = NoValue /\ DiskMayFail
  /\ \E t \in Clients : call[t].op = "Store" /\ call[t].key = q /\ call'[t] = NoCall
Stopped ==
  /\ ~running' /\ UNCHANGED popped
  /\ \A k \in Keys : Held(k)' \in {Held(k), NoValue}

Served ==
  /\ AllCoherent'
  /\ \/ StillHeld \/ Stopped
     \/ \E q \in Keys : Accepted(q) \/ Lost(q) \/ Popped(q) \/ Retracted(q)

Sane == TypeOK /\ MutualExclusion /\ OneWay /\ AllCoherent

\* A step that moves nothing.
LEMMA UnmovedServes ==
  ASSUME Sane, TypeOK', UNCHANGED popped, running' = running \/ ~running',
         \A k \in Keys : Unmoved(k)
  PROVE  Served
PROOF
  <1>1. ASSUME NEW k \in Keys PROVE Coherent(k)' /\ Held(k)' = Held(k)
    <2>1. Coherent(k) /\ Unmoved(k)
      BY DEF Sane, AllCoherent
    <2> QED BY <2>1, UnmovedThins, ThinnedIsCoherent, ThinnedIsHeld DEF Sane
  <1> QED BY <1>1 DEF Served, AllCoherent, StillHeld, Stopped

\* A step that takes away from one key.
LEMMA OneThins ==
  ASSUME Sane, TypeOK', NEW q \in Keys, Thins(q), \A k \in Keys \ {q} : Unmoved(k)
  PROVE  AllCoherent' /\ Others(q) /\ Held(q)' \in {Held(q), NoValue}
PROOF
  <1>1. ASSUME NEW k \in Keys, k # q PROVE Coherent(k)' /\ Held(k)' = Held(k)
    <2>1. Coherent(k) /\ Unmoved(k)
      BY <1>1 DEF Sane, AllCoherent
    <2> QED BY <2>1, UnmovedThins, ThinnedIsCoherent, ThinnedIsHeld DEF Sane
  <1>2. Coherent(q)' /\ Held(q)' \in {Held(q), NoValue}
    <2>1. Coherent(q)
      BY DEF Sane, AllCoherent
    <2> QED BY <2>1, ThinnedIsCoherent, ThinnedIsHeld DEF Sane
  <1> QED BY <1>1, <1>2 DEF AllCoherent, Others

\* One that has a reason to, or does not show.
LEMMA ThinningServes ==
  ASSUME Sane, TypeOK', UNCHANGED <<popped, running>>,
         NEW q \in Keys, Thins(q), \A k \in Keys \ {q} : Unmoved(k),
         q \in condemned \cup popped \/ ~running \/ Held(q)' = Held(q)
  PROVE  Served
PROOF
  <1>1. AllCoherent' /\ Others(q) /\ Held(q)' \in {Held(q), NoValue}
    BY OneThins
  <1>2. CASE Held(q)' = Held(q)
    BY <1>1, <1>2 DEF Served, StillHeld, Others
  <1>3. CASE Held(q)' # Held(q)
    <2>1. Lost(q)
      BY <1>1, <1>3 DEF Lost
    <2> QED BY <1>1, <2>1 DEF Served
  <1> QED BY <1>2, <1>3

\* A thread before or after its write, and what it does there without moving an element.
LEMMA QuietServes ==
  ASSUME Sane, TypeOK', NEW t \in Threads, Stage(t) # "writing",
         UNCHANGED <<popped, used, files>>, running' = running \/ ~running',
         mem'.index = mem.index, disk'.index = disk.index,
         \/ \E label : /\ Goto(t, label)
                       /\ \/ StageAt(label) = Stage(t) \/ StageAt(label) = "written"
                          \/ \A k : t \notin Storers(k)
         \/ \E result : Return(t, result)
         \/ ThrowFromStoreOnDisk(t)
  PROVE  Served
PROOF
  <1>1. ThreadsOK /\ AllCoherent
    BY DEF Sane, TypeOK
  <1>2. ASSUME NEW k \in Keys PROVE Unmoved(k)
    <2>1. t \notin Storing(k) /\ Coherent(k)
      BY <1>1, StoringStage DEF AllCoherent
    <2> QED BY <1>1, <2>1, QuietIsUnmoved
  <1> QED BY <1>2, UnmovedServes

\* A client's calls, up to the memory index.
LEMMA ThreadsServe ==
  ASSUME Sane, TypeOK', NEW t \in Threads,
         \/ t # Worker /\ (CheckWorkerIsStillRunning(t) \/ LockMemoryToStore(t)
                            \/ GiveUpStoring(t) \/ JoinWorker(t))
         \/ WaitOnMemory(t)
  PROVE  Served
PROOF
  <1> ThreadsOK /\ StoresOK
    BY DEF Sane, TypeOK
  <1>0. pc[t] \in {"check", "recheck", "lockMemory", "spaceInMemory", "joinWorker",
                   "waitOnMemory"}
    BY DEF CheckWorkerIsStillRunning, LockMemoryToStore, GiveUpStoring, JoinWorker, WaitOnMemory
  <1>1. Stage(t) = "before"
    BY <1>0, EarlyLabels DEF Stage
  <1>2. UNCHANGED <<popped, used, files, running>>
    BY DEF CheckWorkerIsStillRunning, LockMemoryToStore, GiveUpStoring, JoinWorker, WaitOnMemory,
           clientVars, directory, workerVars
  <1>3. mem'.index = mem.index /\ disk'.index = disk.index
    BY IndexKept DEF CheckWorkerIsStillRunning, LockMemoryToStore, GiveUpStoring, JoinWorker,
       WaitOnMemory, StoresOK
  <1>4. AfterCheck(t) \in {"lockMemory", "deleteFromMemory", "deleteIfFromMemory",
                           "getFromMemory"}
    BY DEF AfterCheck
  <1>5. \/ \E label : Goto(t, label) /\ StageAt(label) = "before"
        \/ \E result : Return(t, result)
    <2>1. CASE CheckWorkerIsStillRunning(t)
      BY <1>4, <2>1, EarlyLabels DEF CheckWorkerIsStillRunning, Throw
    <2>2. CASE LockMemoryToStore(t) \/ GiveUpStoring(t) \/ JoinWorker(t) \/ WaitOnMemory(t)
      BY <2>2, EarlyLabels DEF LockMemoryToStore, GiveUpStoring, JoinWorker, WaitOnMemory
    <2> QED BY <2>1, <2>2
  <1> QED BY <1>1, <1>2, <1>3, <1>5, QuietServes

\* A Get, and a change of a limit.
LEMMA QuietCallsServe ==
  ASSUME Sane, TypeOK', NEW t \in Clients,
         \/ GetFromMemory(t) \/ GetSettled(t) \/ GetStarted(t)
         \/ CheckDiskMax(t) \/ SetMaxMemoryUsage(t) \/ CheckMemMax(t) \/ SetMaxDiskUsage(t)
  PROVE  Served
PROOF
  <1> ThreadsOK /\ StoresOK /\ t \in Threads /\ t # Worker
    BY ClientAt DEF Sane, TypeOK
  <1>1. pc[t] \in {"getFromMemory", "getFromDisk", "waitingToGet", "checkDiskMax",
                   "setMemMax", "checkMemMax", "setDiskMax"}
    BY DEF GetFromMemory, GetSettled, GetStarted, CheckDiskMax, SetMaxMemoryUsage,
           CheckMemMax, SetMaxDiskUsage
  <1>2. Stage(t) = "before"
    BY <1>1, EarlyLabels DEF Stage
  <1>3. \A k : t \notin Storers(k)
    BY <1>1, ClientAt DEF Storers
  <1>4. UNCHANGED <<popped, used, files, running>>
    BY DEF GetFromMemory, GetSettled, GetStarted, CheckDiskMax, SetMaxMemoryUsage,
           CheckMemMax, SetMaxDiskUsage, clientVars, directory, workerVars
  <1>5. (\E label : Goto(t, label)) \/ (\E result : Return(t, result))
    <2>1. CASE GetSettled(t)
      BY <2>1 DEF GetSettled, ReadFile
    <2>2. CASE GetFromMemory(t) \/ GetStarted(t)
      BY <2>2 DEF GetFromMemory, GetStarted
    <2>3. CASE CheckDiskMax(t) \/ SetMaxMemoryUsage(t) \/ CheckMemMax(t) \/ SetMaxDiskUsage(t)
      BY <2>3 DEF CheckDiskMax, SetMaxMemoryUsage, CheckMemMax, SetMaxDiskUsage
    <2> QED BY <2>1, <2>2, <2>3
  <1>6. mem'.index = mem.index /\ disk'.index = disk.index
    <2>1. CASE GetFromMemory(t) \/ GetSettled(t) \/ GetStarted(t)
      BY <2>1, IndexKept DEF GetFromMemory, GetSettled, GetStarted, StoresOK
    <2>2. CASE CheckDiskMax(t) \/ CheckMemMax(t)
      BY <2>2, IndexKept DEF CheckDiskMax, CheckMemMax, StoresOK
    <2>3. CASE SetMaxMemoryUsage(t)
      BY <2>3 DEF SetMaxMemoryUsage, Notified, Unlocked, StoresOK, Storage
    <2>4. CASE SetMaxDiskUsage(t)
      BY <2>4 DEF SetMaxDiskUsage, Notified, Unlocked, StoresOK, Storage
    <2> QED BY <2>1, <2>2, <2>3, <2>4
  <1> QED BY <1>2, <1>3, <1>4, <1>5, <1>6, QuietServes

\* A thread finds space on disk, or waits for it: a Get goes on finding what it writes.
LEMMA SpaceServes ==
  ASSUME Sane, TypeOK', NEW t \in Threads,
         \/ EndWaitForSpaceOnDisk(t) \/ DecideToWaitOnDisk(t)
         \/ WaitOnDisk(t) \/ WakeOnDisk(t)
  PROVE  Served
PROOF
  <1> ThreadsOK /\ StoresOK /\ AllCoherent
    BY DEF Sane, TypeOK
  <1>1. /\ UNCHANGED <<popped, used, files, running, mem>>
        /\ pc[t] \in {"spaceOnDisk", "waitOnDisk", "waitingOnDisk"}
        /\ disk' \in {disk, Waiting(disk, t), Locked(disk, t)}
        /\ \E label \in {"spaceOnDisk", "waitOnDisk", "waitingOnDisk", "writeFile"} :
             Goto(t, label)
    BY DEF EndWaitForSpaceOnDisk, DecideToWaitOnDisk, WaitOnDisk, WakeOnDisk,
           clientVars, directory, workerVars
  <1>2. \E label : Goto(t, label) /\ StageAt(label) = Stage(t)
    BY <1>1 DEF Stage, StageAt
  <1>3. disk'.index = disk.index
    BY <1>1, IndexKept DEF StoresOK
  <1>4. \A k \in Keys : Unmoved(k)
    BY <1>1, <1>2, <1>3, QuietIsUnmoved DEF AllCoherent
  <1> QED BY <1>1, <1>4, UnmovedServes

\* An eviction leaves a copy on disk with the value, but for a key deleted or popped.
LEMMA EvictedIsHeld ==
  ASSUME Sane, TypeOK', running, NEW q \in Keys, q \notin popped \cup condemned,
         NEW e \in InMemory(q), e.state = "completed",
         Coherent(q)', InMemory(q)' = {}, OnDisk(q)' = OnDisk(q), files'[q] = files[q]
  PROVE  Held(q)' = Held(q)
PROOF
  <1>1. Coherent(q) /\ OnItsWay(q)
    BY DEF Sane, AllCoherent, OneWay, Way
  <1>2. OnDisk(q) = Copied(q) /\ files[q] = e.value
    BY <1>1 DEF OnItsWay, StateIsTrue
  <1>3. HeldBy(Held(q), InMemory(q), OnDisk(q), files[q], Storing(q), call)
    BY <1>1, HeldIs DEF Sane, Coherent
  <1>4. HeldBy(Held(q)', InMemory(q)', OnDisk(q)', files'[q], Storing(q)', call')
    BY HeldIs DEF Coherent
  <1>5. Held(q) = e.value
    BY <1>3 DEF HeldBy
  <1>6. PICK d \in OnDisk(q)' : d.state = "completed"
    BY <1>2 DEF Copied
  <1> QED BY <1>2, <1>4, <1>5, <1>6 DEF HeldBy

\* A thread that evicts what is on disk.
LEMMA EvictServes ==
  ASSUME Sane, TypeOK', NEW t \in Threads, WakeOnMemory(t) \/ (t # Worker /\ WaitForSpaceInMemory(t))
  PROVE  Served
PROOF
  <1> TypeOK /\ ThreadsOK /\ StoresOK /\ mem.index \in Seq(MemElements) /\ MutualExclusion
    BY DEF Sane, TypeOK, StoresOK, Storage
  <1> DEFINE i == FindMemoryRemovalCandidate
  <1>1. /\ pc[t] \in {"waitingOnMemory", "spaceInMemory"}
        /\ UNCHANGED <<popped, used, files, running>> /\ disk' = disk
    BY DEF WakeOnMemory, WaitForSpaceInMemory, clientVars, directory, workerVars
  <1>2. \E label \in {"findOldest", "spaceInMemory", "waitOnMemory"} : Goto(t, label)
    BY DEF WakeOnMemory, WaitForSpaceInMemory
  <1>3. Stage(t) = "before" /\ \E label : Goto(t, label) /\ StageAt(label) = "before"
    BY <1>1, <1>2, EarlyLabels DEF Stage
  <1>4. i # 0 => /\ i \in 1 .. Len(mem.index) /\ mem.index[i].state = "completed"
                 /\ Erased(i) \in Storage(MemElements)
                 /\ Erased(i).index = RemoveAt(mem.index, i)
    <2>1. i \in 0 .. Len(mem.index)
      BY SearchResults
    <2>2. i # 0 => i \in 1 .. Len(mem.index)
      BY <2>1
    <2>3. i # 0 => Erased(i).index = RemoveAt(mem.index, i)
      BY DEF Erased, StoresOK, Storage
    <2> QED BY <2>2, <2>3, FoundInState, ErasedType
  <1>5. \/ mem'.index = mem.index
        \/ i # 0 /\ running /\ mem.owner # Worker /\ mem'.index = RemoveAt(mem.index, i)
    <2>1. CASE WakeOnMemory(t)
      <3>1. mem.owner # Worker
        BY <2>1, ThreadsAssumption DEF WakeOnMemory, Free
      <3>2. mem' = Locked(mem, t) \/ (i # 0 /\ running /\ mem' = Locked(Erased(i), t))
        BY <2>1 DEF WakeOnMemory
      <3> HIDE DEF i
      <3> QED BY <1>4, <3>1, <3>2, IndexKept DEF StoresOK
    <2>2. CASE t # Worker /\ WaitForSpaceInMemory(t)
      <3>1. mem.owner # Worker
        BY <2>2 DEF WaitForSpaceInMemory, MutualExclusion, Owned, MemHolds
      <3>2. running /\ (mem' = mem \/ (i # 0 /\ mem' = Erased(i)))
        BY <2>2 DEF WaitForSpaceInMemory
      <3> HIDE DEF i
      <3> QED BY <1>4, <3>1, <3>2
    <2> QED BY <2>1, <2>2
  <1> HIDE DEF i
  <1>6. CASE mem'.index = mem.index
    BY <1>1, <1>3, <1>6, QuietServes
  <1>7. CASE i # 0 /\ running /\ mem.owner # Worker /\ mem'.index = RemoveAt(mem.index, i)
    <2>1. PICK e \in MemElements : e = mem.index[i]
      BY <1>4, <1>7
    <2>2. e.key \in Keys /\ e \in InMemory(e.key) /\ e.state = "completed"
      BY <1>4, <1>7, <2>1 DEF MemElements, InMemory, ElementsOf
    <2>3. ASSUME NEW k \in Keys
          PROVE  /\ Thins(k) /\ (e.key # k => Unmoved(k))
                 /\ e.key = k => InMemory(k)' = {} /\ OnDisk(k)' = OnDisk(k)
      <3>1. Coherent(k) /\ Onwards(k) /\ Storing(k) \subseteq Storing(k)'
        BY <1>3, MovesOnwards, StoringStage DEF Sane, AllCoherent
      <3> QED BY <1>1, <1>4, <1>7, <2>1, <3>1, MemoryThins
    <2>4. Coherent(e.key)'
      BY <2>2, <2>3, ThinnedIsCoherent DEF Sane, AllCoherent
    <2>5. e.key \in condemned \cup popped \/ Held(e.key)' = Held(e.key)
      <3>1. PICK q \in Keys : q = e.key
        BY <2>2
      <3>2. InMemory(q)' = {} /\ OnDisk(q)' = OnDisk(q) /\ files'[q] = files[q]
        BY <1>1, <2>3, <3>1
      <3> QED BY <1>7, <2>2, <2>4, <3>1, <3>2, EvictedIsHeld
    <2> QED BY <1>1, <2>2, <2>3, <2>5, ThinningServes
  <1> QED BY <1>5, <1>6, <1>7

\* What Delete(key) finds in an index is condemned: the Store that begins with one finds nothing.
LEMMA DeleteFinds ==
  ASSUME Sane, NEW t \in Clients, pc[t] \in {"deleteFromMemory", "deleteFromDisk"},
         InMemory(call[t].key) # {} \/ OnDisk(call[t].key) # {}
  PROVE  /\ call[t].op = "Delete" /\ call[t].key \in Keys /\ call[t].key \in condemned
         /\ Stage(t) = "before" /\ \A k : t \notin Storers(k)
PROOF
  <1> t \in Threads /\ t # Worker /\ ThreadsOK
    BY ClientAt DEF Sane, TypeOK
  <1>1. call[t].op \in {"Store", "Delete"} /\ call[t].key \in Keys /\ Stage(t) = "before"
    <2>1. call[t].op \in {"Store", "Delete"}
      BY ClientAt
    <2> QED BY <2>1, CallShape, EarlyLabels DEF Stage
  <1>2. call[t].op = "Delete"
    <2> SUFFICES ASSUME call[t].op = "Store" PROVE FALSE
      BY <1>1
    <2>1. t \in Storers(call[t].key) /\ Coherent(call[t].key)
      BY <1>1 DEF Storers, Sane, AllCoherent
    <2> QED BY <1>1, <2>1 DEF Coherent
  <1> QED BY <1>1, <1>2 DEF Sane, OneWay, DeletesAreKnown, Storers

\* Delete(key) in memory.
LEMMA DeleteFromMemoryServes ==
  ASSUME Sane, TypeOK', NEW t \in Clients, DeleteFromMemory(t)
  PROVE  Served
PROOF
  <1> /\ TypeOK /\ ThreadsOK /\ StoresOK /\ MutualExclusion /\ mem.index \in Seq(MemElements)
      /\ t \in Threads /\ t # Worker
    BY ClientAt DEF Sane, TypeOK, StoresOK, Storage
  <1> DEFINE i == Find(mem.index, call[t].key)
  <1>1. /\ pc[t] = "deleteFromMemory" /\ UNCHANGED <<popped, used, files, running>>
        /\ disk' = disk /\ mem' = IF i = 0 THEN mem ELSE Notified(Erased(i))
        /\ Goto(t, "recheck") \/ Return(t, "done") \/ Goto(t, "deleteFromDisk")
        /\ mem.owner # Worker
    BY ThreadsAssumption DEF DeleteFromMemory, AfterDelete, Free, clientVars, directory, workerVars
  <1>2. /\ Stage(t) = "before"
        /\ (\E label : Goto(t, label) /\ StageAt(label) = "before") \/ \E result : Return(t, result)
    BY <1>1, EarlyLabels DEF Stage
  <1>3. i \in 0 .. Len(mem.index) /\ (i # 0 => mem.index[i].key = call[t].key)
    BY FindResult
  <1>4. i # 0 => InMemory(call[t].key) # {}
    BY FindElement DEF InMemory
  <1>5. i # 0 => Erased(i) \in Storage(MemElements)
    BY <1>3, ErasedType
  <1> HIDE DEF i
  <1>6. CASE i = 0
    BY <1>1, <1>2, <1>6, QuietServes
  <1>7. CASE i # 0
    <2>1. Erased(i).index = RemoveAt(mem.index, i)
      BY DEF Erased, StoresOK, Storage
    <2>2. mem'.index = RemoveAt(mem.index, i)
      BY <1>1, <1>5, <1>7, <2>1, IndexKept
    <2>3. call[t].key \in Keys /\ call[t].key \in condemned
      BY <1>1, <1>4, <1>7, DeleteFinds
    <2>4. ASSUME NEW k \in Keys PROVE Thins(k) /\ (call[t].key # k => Unmoved(k))
      <3>1. Coherent(k) /\ Onwards(k) /\ Storing(k) \subseteq Storing(k)'
        BY <1>2, MovesOnwards, StoringStage DEF Sane, AllCoherent
      <3> QED BY <1>1, <1>3, <1>7, <2>2, <3>1, MemoryThins
    <2> QED BY <1>1, <2>3, <2>4, ThinningServes
  <1> QED BY <1>6, <1>7

\* Cancelling what a thread is writing.
LEMMA CancelThins ==
  ASSUME TypeOK, NEW k, Coherent(k),
         NEW i \in 1 .. Len(disk.index), disk'.index = Marked(disk, i, "cancelled").index,
         mem'.index = mem.index, used \subseteq used', files' = files, Onwards(k),
         Storing(k) \subseteq Storing(k)'
  PROVE  /\ Thins(k)
         /\ disk.index[i].key # k => Unmoved(k)
         /\ disk.index[i].key = k => InMemory(k)' = InMemory(k)
                                     /\ OnDisk(k)' = {[disk.index[i] EXCEPT !.state = "cancelled"]}
PROOF
  <1>1. disk.index \in Seq(DiskElements) /\ disk \in Storage(DiskElements) /\ Once(disk.index, k)
    BY DEF TypeOK, StoresOK, Storage, Coherent
  <1>2. PICK e : e = [disk.index[i] EXCEPT !.state = "cancelled"]
    OBVIOUS
  <1>3. Changed(disk.index, disk'.index, i, e)
    BY <1>1, <1>2, MarkElement
  <1>4. e.key = disk.index[i].key /\ e.state = "cancelled"
    <2>1. disk.index[i] \in DiskElements
      BY <1>1
    <2> QED BY <1>2, <2>1 DEF DiskElements
  <1>5. /\ Once(disk'.index, k)
        /\ e.key = k => OnDisk(k)' = {e} /\ OnDisk(k) # {}
        /\ e.key # k => OnDisk(k)' = OnDisk(k)
    <2>1. disk.index[i].key = k => disk.index[i] \in OnDisk(k)
      BY DEF OnDisk, ElementsOf
    <2> QED BY <1>1, <1>3, <1>4, <2>1, ChangeElement DEF OnDisk
  <1>6. Once(mem'.index, k) /\ InMemory(k)' = InMemory(k)
    BY DEF InMemory, Coherent
  <1>7. Worker \in Storers(k)' /\ Stage(Worker)' = "before" => InMemory(k) # {}
    BY DEF Onwards, Coherent
  <1> QED BY <1>2, <1>4, <1>5, <1>6, <1>7 DEF Thins, Unmoved

\* Delete(key) on disk.
LEMMA DeleteFromDiskServes ==
  ASSUME Sane, TypeOK', NEW t \in Clients, DeleteFromDisk(t)
  PROVE  Served
PROOF
  <1> /\ TypeOK /\ ThreadsOK /\ StoresOK /\ disk.index \in Seq(DiskElements)
      /\ t \in Threads /\ t # Worker
    BY ClientAt DEF Sane, TypeOK, StoresOK, Storage
  <1> DEFINE i == Find(disk.index, call[t].key)
  <1>1. /\ pc[t] = "deleteFromDisk" /\ UNCHANGED <<popped, used, running, mem>>
        /\ Goto(t, "recheck") \/ (\E result : Return(t, result))
    BY DEF DeleteFromDisk, AfterDelete, Throw, clientVars, workerVars
  <1>2. \/ disk' = disk /\ files' = files
        \/ i # 0 /\ disk' = Notified(Marked(disk, i, "cancelled")) /\ files' = files
        \/ /\ i # 0 /\ files[call[t].key] # NoValue
           /\ RemoveFile(call[t].key) /\ disk' = Notified(WithoutFile(i))
    BY DEF DeleteFromDisk
  <1>3. /\ Stage(t) = "before"
        /\ (\E label : Goto(t, label) /\ StageAt(label) = "before") \/ \E result : Return(t, result)
    BY <1>1, EarlyLabels DEF Stage
  <1>4. i \in 0 .. Len(disk.index) /\ (i # 0 => disk.index[i].key = call[t].key)
    BY FindResult
  <1>5. i # 0 => call[t].key \in Keys /\ call[t].key \in condemned
    <2>1. i # 0 => OnDisk(call[t].key) # {}
      BY FindElement DEF OnDisk
    <2> QED BY <1>1, <2>1, DeleteFinds
  <1>6. ASSUME NEW k \in Keys
        PROVE  Coherent(k) /\ Onwards(k) /\ Storing(k) \subseteq Storing(k)'
    BY <1>3, MovesOnwards, StoringStage DEF Sane, AllCoherent
  <1> HIDE DEF i
  <1>7. CASE disk' = disk /\ files' = files
    BY <1>1, <1>3, <1>7, QuietServes
  <1>8. CASE i # 0 /\ disk' = Notified(Marked(disk, i, "cancelled")) /\ files' = files
    <2>1. disk'.index = Marked(disk, i, "cancelled").index
      BY <1>4, <1>8, MarkedType, IndexKept DEF StoresOK, States
    <2>2. \A k \in Keys : Thins(k) /\ (call[t].key # k => Unmoved(k))
      BY <1>1, <1>4, <1>6, <1>8, <2>1, CancelThins
    <2> QED BY <1>1, <1>5, <1>8, <2>2, ThinningServes
  <1>9. CASE /\ i # 0 /\ files[call[t].key] # NoValue
             /\ RemoveFile(call[t].key) /\ disk' = Notified(WithoutFile(i))
    <2>1. WithoutFile(i) \in Storage(DiskElements)
      BY <1>4, <1>9, WithoutFileType DEF TypeOK
    <2>2. WithoutFile(i).index = RemoveAt(disk.index, i)
      BY DEF WithoutFile, StoresOK, Storage
    <2>3. disk'.index = RemoveAt(disk.index, i)
      BY <1>9, <2>1, <2>2, IndexKept
    <2>4. \A k \in Keys : call[t].key # k => files'[k] = files[k]
      BY <1>9 DEF RemoveFile, TypeOK, DirectoryOK
    <2>5. \A k \in Keys : Thins(k) /\ (call[t].key # k => Unmoved(k))
      BY <1>1, <1>4, <1>6, <1>9, <2>3, <2>4, DiskThins
    <2> QED BY <1>1, <1>5, <1>9, <2>5, ThinningServes
  <1> QED BY <1>2, <1>7, <1>8, <1>9

\* Delete(predicate), one element at a time.
LEMMA DeleteIfServes ==
  ASSUME Sane, TypeOK', NEW t \in Clients, DeleteIfFromMemory(t) \/ DeleteIfFromDisk(t)
  PROVE  Served
PROOF
  <1> /\ TypeOK /\ ThreadsOK /\ StoresOK /\ MutualExclusion /\ t \in Threads /\ t # Worker
      /\ mem.index \in Seq(MemElements) /\ disk.index \in Seq(DiskElements)
    BY ClientAt DEF Sane, TypeOK, StoresOK, Storage
  <1>1. /\ pc[t] \in {"deleteIfFromMemory", "deleteIfFromDisk"}
        /\ UNCHANGED <<popped, used, files, running>>
    BY DEF DeleteIfFromMemory, DeleteIfFromDisk, clientVars, directory, workerVars
  <1>2. call[t].keys \subseteq condemned
    <2>1. call[t].op = "DeleteIf"
      BY <1>1, ClientAt
    <2> QED BY <2>1 DEF Sane, OneWay, DeletesAreKnown
  <1>3. /\ Stage(t) = "before"
        /\ (\E label : Goto(t, label) /\ StageAt(label) = "before") \/ \E result : Return(t, result)
    BY <1>1, EarlyLabels DEF Stage, DeleteIfFromMemory, DeleteIfFromDisk
  <1>4. ASSUME NEW k \in Keys
        PROVE  Coherent(k) /\ Onwards(k) /\ Storing(k) \subseteq Storing(k)'
    BY <1>3, MovesOnwards, StoringStage DEF Sane, AllCoherent
  <1>5. CASE DeleteIfFromMemory(t)
    <2> DEFINE i == FindAnyOf(mem.index, call[t].keys)
    <2>1. i # 0 => i \in 1 .. Len(mem.index) /\ mem.index[i].key \in condemned
      BY <1>2, FindAnyElement
    <2>2. disk' = disk /\ mem.owner # Worker
      BY <1>5, ThreadsAssumption DEF DeleteIfFromMemory, Free
    <2>3. \/ mem' = Unlocked(mem)
          \/ i # 0 /\ mem' = Notified(Locked(Erased(i), t))
      BY <1>5 DEF DeleteIfFromMemory
    <2> HIDE DEF i
    <2>4. CASE mem' = Unlocked(mem)
      BY <1>1, <1>3, <2>2, <2>4, IndexKept, QuietServes DEF StoresOK
    <2>5. CASE i # 0 /\ mem' = Notified(Locked(Erased(i), t))
      <3>1. Erased(i) \in Storage(MemElements) /\ Locked(Erased(i), t) \in Storage(MemElements)
        BY <2>1, <2>5, ErasedType, MutexType
      <3>2. Erased(i).index = RemoveAt(mem.index, i)
        BY DEF Erased, StoresOK, Storage
      <3>3. mem'.index = RemoveAt(mem.index, i)
        BY <2>5, <3>1, <3>2, IndexKept
      <3>4. mem.index[i].key \in Keys
        <4>1. mem.index[i] \in MemElements
          BY <2>1, <2>5
        <4> QED BY <4>1 DEF MemElements
      <3>5. \A k \in Keys : Thins(k) /\ (mem.index[i].key # k => Unmoved(k))
        BY <1>1, <1>4, <2>1, <2>2, <2>5, <3>3, MemoryThins
      <3> QED BY <1>1, <2>1, <2>5, <3>4, <3>5, ThinningServes
    <2> QED BY <2>3, <2>4, <2>5
  <1>6. CASE DeleteIfFromDisk(t)
    <2> DEFINE i == FindAnyOf(disk.index, call[t].keys)
    <2>1. i # 0 => i \in 1 .. Len(disk.index) /\ disk.index[i].key \in condemned
      BY <1>2, FindAnyElement
    <2>2. mem' = mem
      BY <1>6 DEF DeleteIfFromDisk
    <2>3. \/ disk' = Unlocked(disk)
          \/ i # 0 /\ disk' = [Notified(Locked(disk, t)) EXCEPT !.index = RemoveAt(@, i)]
      BY <1>6 DEF DeleteIfFromDisk
    <2> HIDE DEF i
    <2>4. CASE disk' = Unlocked(disk)
      BY <1>1, <1>3, <2>2, <2>4, IndexKept, QuietServes DEF StoresOK
    <2>5. CASE i # 0 /\ disk' = [Notified(Locked(disk, t)) EXCEPT !.index = RemoveAt(@, i)]
      <3>1. Notified(Locked(disk, t)) \in Storage(DiskElements)
        BY MutexType DEF StoresOK
      <3>2. Notified(Locked(disk, t)).index = disk.index
        BY MutexType, IndexKept DEF StoresOK
      <3>3. disk'.index = RemoveAt(disk.index, i)
        BY <2>5, <3>1, <3>2 DEF Storage
      <3>4. disk.index[i].key \in Keys
        <4>1. disk.index[i] \in DiskElements
          BY <2>1, <2>5
        <4> QED BY <4>1 DEF DiskElements
      <3>5. \A k \in Keys : Thins(k) /\ (disk.index[i].key # k => Unmoved(k))
        BY <1>1, <1>4, <2>1, <2>2, <2>5, <3>3, DiskThins
      <3> QED BY <1>1, <2>1, <2>5, <3>4, <3>5, ThinningServes
    <2> QED BY <2>3, <2>4, <2>5
  <1> QED BY <1>5, <1>6

\* What a thread at work on the disk stores, and nothing else.
LEMMA WritesOne ==
  ASSUME ThreadsOK, NEW t \in Threads, pc[t] \in StoreOnDiskLabels, NEW k
  PROVE  /\ t \in Storers(k) <=> call[t].key = k
         /\ t \in Storing(k) => call[t].key = k
BY StoringOnDisk, StoringStage DEF Storers

\* A step that moves no element, but may end a write.
LEMMA SameThins ==
  ASSUME NEW k, Coherent(k), used \subseteq used', Onwards(k),
         mem'.index = mem.index, disk'.index = disk.index, files'[k] = files[k]
  PROVE  /\ Thins(k)
         /\ Storing(k) \subseteq Storing(k)' => Unmoved(k)
         /\ InMemory(k)' = InMemory(k)
PROOF
  <1>1. /\ InMemory(k)' = InMemory(k) /\ OnDisk(k)' = OnDisk(k)
        /\ Once(mem'.index, k) /\ Once(disk'.index, k)
    BY DEF InMemory, OnDisk, Coherent
  <1>2. Worker \in Storers(k)' /\ Stage(Worker)' = "before" => InMemory(k) # {}
    BY DEF Onwards, Coherent
  <1> QED BY <1>1, <1>2 DEF Thins, Unmoved

\* What a thread is writing is still wanted, unless it was deleted or popped.
LEMMA WrittenIsWanted ==
  ASSUME Sane, running, NEW t \in Threads, Stage(t) = "writing",
         call[t].key \notin condemned \cup popped
  PROVE  /\ \E d \in OnDisk(call[t].key) : d.state = "started"
         /\ t = Worker => InMemory(call[t].key) # {}
         /\ StillWanted(t)
PROOF
  <1> DEFINE k == call[t].key
             i == Find(disk.index, k)
  <1>1. pc[t] \in StoreOnDiskLabels /\ ThreadsOK
    BY DEF Stage, StageAt, StoreOnDiskLabels, Sane, TypeOK
  <1>2. k \in Keys /\ t \in Storers(k)
    BY <1>1, StoringOnDisk, WritesOne
  <1>3. StoredSoFar(t, k)
    BY <1>2 DEF Sane, OneWay, Way, OnItsWay
  <1>4. OnDisk(k) = {[key |-> k, state |-> "started"]} /\ (t = Worker => InMemory(k) # {})
    BY <1>3 DEF StoredSoFar
  <1>5. i # 0 /\ disk.index[i] \in OnDisk(k)
    BY <1>4, FindElement DEF OnDisk, Sane, TypeOK, StoresOK, Storage
  <1>6. disk.index[i].state = "started"
    BY <1>4, <1>5
  <1> QED BY <1>4, <1>5, <1>6 DEF StillWanted

\* A thread finds that what it stores was cancelled.
LEMMA NoticeServes ==
  ASSUME Sane, TypeOK', NEW t \in Threads, NoticeCancelled(t)
  PROVE  Served
PROOF
  <1> TypeOK /\ ThreadsOK /\ StoresOK /\ disk.index \in Seq(DiskElements)
    BY DEF Sane, TypeOK, StoresOK, Storage
  <1> DEFINE q == call[t].key
             i == Find(disk.index, q)
  <1>1. /\ pc[t] = "spaceOnDisk" /\ running /\ UNCHANGED <<popped, used, files, running, mem>>
        /\ ~StillWanted(t) /\ Goto(t, "cancelled")
        /\ disk' = IF i = 0 THEN disk ELSE [disk EXCEPT !.index = RemoveAt(@, i)]
    BY DEF NoticeCancelled, clientVars, directory, workerVars
  <1>2. Stage(t) = "writing" /\ pc[t] \in StoreOnDiskLabels /\ q \in Keys
    <2>1. pc[t] \in StoreOnDiskLabels
      BY <1>1 DEF StoreOnDiskLabels
    <2> QED BY <1>1, <2>1, StoringOnDisk DEF Stage, StageAt
  <1>3. q \in condemned \cup popped
    BY <1>1, <1>2, WrittenIsWanted
  <1>4. ASSUME NEW k \in Keys
        PROVE  Coherent(k) /\ Onwards(k) /\ (q # k => Storing(k) \subseteq Storing(k)')
    <2>1. Onwards(k) /\ Storing(k) \ {t} \subseteq Storing(k)'
      <3>1. StageAt("cancelled") = "cancelled"
        BY DEF StageAt
      <3> QED BY <1>1, <1>2, <3>1, MovesOnwards
    <2> QED BY <1>2, <2>1, WritesOne DEF Sane, AllCoherent
  <1>5. i \in 0 .. Len(disk.index) /\ (i # 0 => disk.index[i].key = q)
    BY FindResult
  <1> HIDE DEF i
  <1>6. \A k \in Keys : Thins(k) /\ (q # k => Unmoved(k))
    <2>1. CASE i = 0
      BY <1>1, <1>4, <2>1, SameThins
    <2>2. CASE i # 0
      <3>1. disk'.index = RemoveAt(disk.index, i)
        BY <1>1, <2>2 DEF StoresOK, Storage
      <3> QED BY <1>1, <1>4, <1>5, <2>2, <3>1, DiskThins
    <2> QED BY <2>1, <2>2
  <1> QED BY <1>1, <1>2, <1>3, <1>6, ThinningServes

\* The oldest file is popped, and its key with it; or it cannot be, and the Store ends.
LEMMA PopServes ==
  ASSUME Sane, TypeOK', NEW t \in Threads, PopOldest(t)
  PROVE  Served
PROOF
  <1> TypeOK /\ ThreadsOK /\ StoresOK /\ disk.index \in Seq(DiskElements)
    BY DEF Sane, TypeOK, StoresOK, Storage
  <1>1. /\ pc[t] = "spaceOnDisk" /\ running /\ UNCHANGED <<used, running, mem>>
        /\ StillWanted(t) /\ Head(disk.index).state = "completed"
    BY DEF PopOldest, clientVars
  <1>2. 1 \in 1 .. Len(disk.index) /\ Head(disk.index) = disk.index[1]
    BY <1>1, FindResult DEF StillWanted
  <1>3. PICK d \in DiskElements : d = disk.index[1]
    BY <1>2
  <1>4. d.key \in Keys /\ d \in OnDisk(d.key) /\ d.state = "completed"
    BY <1>1, <1>2, <1>3 DEF DiskElements, OnDisk, ElementsOf
  <1>5. files[d.key] # NoValue
    BY <1>4 DEF Sane, AllCoherent, Coherent
  <1>6. Stage(t) = "writing" /\ pc[t] \in StoreOnDiskLabels /\ call[t].key \in Keys
    <2>1. pc[t] \in StoreOnDiskLabels
      BY <1>1 DEF StoreOnDiskLabels
    <2> QED BY <1>1, <2>1, StoringOnDisk DEF Stage, StageAt
  <1>7. CASE /\ RemoveFile(d.key) /\ disk' = WithoutFile(1)
             /\ popped' = popped \cup {d.key} /\ Goto(t, "spaceOnDisk")
    <2>1. disk'.index = RemoveAt(disk.index, 1)
      BY <1>7 DEF WithoutFile, StoresOK, Storage
    <2>2. ASSUME NEW k \in Keys PROVE Thins(k) /\ (d.key # k => Unmoved(k))
      <3>1. Onwards(k) /\ Storing(k) \subseteq Storing(k)' /\ Coherent(k)
        BY <1>1, <1>7, MovesOnwards DEF Stage, StageAt, Sane, AllCoherent
      <3>2. d.key # k => files'[k] = files[k]
        BY <1>7 DEF RemoveFile, DirectoryOK, TypeOK
      <3> QED BY <1>1, <1>2, <1>3, <2>1, <3>1, <3>2, DiskThins
    <2>3. AllCoherent' /\ Others(d.key) /\ Held(d.key)' \in {Held(d.key), NoValue}
      BY <1>4, <2>2, OneThins
    <2>4. Held(d.key) # NoValue
      <3>1. Coherent(d.key)
        BY <1>4 DEF Sane, AllCoherent
      <3>2. HeldBy(Held(d.key), InMemory(d.key), OnDisk(d.key), files[d.key], Storing(d.key), call)
        BY <3>1, HeldIs DEF Coherent
      <3> QED BY <1>4, <1>5, <3>1, <3>2 DEF HeldBy, Coherent
    <2>5. Popped(d.key)
      BY <1>1, <1>7, <2>3, <2>4 DEF Popped, Goto
    <2> QED BY <1>4, <2>3, <2>5 DEF Served
  <1>8. CASE /\ CannotRemoveFile(d.key) /\ disk' = Unlocked(disk) /\ ThrowFromStoreOnDisk(t)
             /\ UNCHANGED <<files, popped>>
    <2>0. PICK q \in Keys : q = call[t].key
      BY <1>6
    <2>1. DiskMayFail
      BY <1>5, <1>8 DEF CannotRemoveFile
    <2>2. disk'.index = disk.index
      BY <1>8, IndexKept DEF StoresOK
    <2>3. ASSUME NEW k \in Keys
          PROVE  Thins(k) /\ InMemory(k)' = InMemory(k) /\ (q # k => Unmoved(k))
      <3>1. Onwards(k) /\ Storing(k) \ {t} \subseteq Storing(k)' /\ Coherent(k)
        BY <1>8, MovesOnwards DEF Sane, AllCoherent
      <3> QED BY <1>1, <1>6, <1>8, <2>0, <2>2, <3>1, WritesOne, SameThins
    <2>4. AllCoherent' /\ Others(q) /\ Held(q)' \in {Held(q), NoValue}
      BY <2>3, OneThins
    <2>5. CASE Held(q)' = Held(q) \/ q \in condemned \cup popped
      BY <1>1, <1>8, <2>3, <2>5, ThinningServes
    <2>6. CASE Held(q)' # Held(q) /\ q \notin condemned \cup popped
      <3>1. t # Worker
        <4> SUFFICES ASSUME t = Worker PROVE FALSE
          OBVIOUS
        <4>1. InMemory(q)' # {}
          BY <1>1, <1>6, <2>0, <2>3, <2>6, WrittenIsWanted
        <4> QED BY <2>3, <2>6, <4>1, ThinnedIsHeld DEF Sane, AllCoherent
      <3>2. t \in Clients /\ call[t].op = "Store" /\ call'[t] = NoCall
        BY <1>6, <1>8, <3>1, StoringOnDisk DEF Threads, ThrowFromStoreOnDisk, Return, ThreadsOK
      <3>3. Retracted(q)
        BY <1>1, <1>8, <2>0, <2>1, <2>4, <2>6, <3>2 DEF Retracted
      <3> QED BY <2>4, <3>3 DEF Served
    <2> QED BY <2>5, <2>6
  <1> QED BY <1>2, <1>3, <1>7, <1>8 DEF PopOldest

\* StoreOnDisk ends: cancelled, failed or because the buffer stops.
LEMMA EndServes ==
  ASSUME Sane, TypeOK', NEW t \in Threads,
         EndCancelled(t) \/ WriteFails(t) \/ AbandonStoreOnDisk(t)
  PROVE  Served
PROOF
  <1> TypeOK /\ ThreadsOK /\ StoresOK
    BY DEF Sane, TypeOK
  <1>1. /\ UNCHANGED <<popped, used, files>> /\ pc[t] \in {"cancelled", "writeFile"}
        /\ AfterStoreOnDisk(t) \/ ThrowFromStoreOnDisk(t)
    BY DEF EndCancelled, WriteFails, AbandonStoreOnDisk, clientVars, directory
  <1>2. mem'.index = mem.index
    BY IndexKept DEF EndCancelled, WriteFails, AbandonStoreOnDisk, StoresOK
  <1>3. disk'.index = disk.index
    BY MutexType, IndexKept DEF EndCancelled, WriteFails, AbandonStoreOnDisk, StoresOK
  <1>4. \/ Goto(t, "relockMemory") \/ (\E result : Return(t, result)) \/ ThrowFromStoreOnDisk(t)
    BY <1>1 DEF AfterStoreOnDisk
  <1>5. StageAt("relockMemory") = "written"
    BY DEF StageAt
  <1>6. pc[t] \in StoreOnDiskLabels
    BY <1>1 DEF StoreOnDiskLabels
  <1>7. PICK q \in Keys : q = call[t].key
    BY <1>6, StoringOnDisk
  <1>8. ASSUME NEW k \in Keys PROVE Coherent(k) /\ Thins(k) /\ (q # k => Unmoved(k))
    <2>1. Onwards(k) /\ Storing(k) \ {t} \subseteq Storing(k)' /\ Coherent(k)
      BY <1>4, <1>5, MovesOnwards DEF Sane, AllCoherent
    <2> QED BY <1>1, <1>2, <1>3, <1>6, <1>7, <2>1, WritesOne, SameThins
  <1>9. CASE EndCancelled(t)
    <2>1. Stage(t) # "writing" /\ running' = running
      BY <1>9 DEF EndCancelled, Stage, StageAt, workerVars
    <2> QED BY <1>1, <1>2, <1>3, <1>4, <1>5, <2>1, QuietServes
  <1>10. CASE WriteFails(t)
    <2>1. ~running'
      BY <1>10 DEF WriteFails, StopRunning
    <2>2. \A k \in Keys : Coherent(k)' /\ Held(k)' \in {Held(k), NoValue}
      BY <1>8, ThinnedIsCoherent, ThinnedIsHeld DEF Sane
    <2> QED BY <1>1, <2>1, <2>2 DEF Served, Stopped, AllCoherent
  <1>11. CASE AbandonStoreOnDisk(t)
    <2>1. ~running /\ running' = running
      BY <1>11 DEF AbandonStoreOnDisk, workerVars
    <2> QED BY <1>1, <1>8, <2>1, ThinningServes
  <1> QED BY <1>9, <1>10, <1>11

\* A step that does more to one key, and leaves the others.
LEMMA OneServes ==
  ASSUME Sane, TypeOK', UNCHANGED <<popped, running>>,
         NEW q \in Keys, Coherent(q)', \A k \in Keys \ {q} : Unmoved(k),
         \/ Held(q)' = Held(q)
         \/ /\ Held(q) = NoValue
            /\ \E t \in Clients : call[t].op = "Store" /\ call[t].key = q /\ Held(q)' = call[t].value
  PROVE  Served
PROOF
  <1>1. ASSUME NEW k \in Keys, k # q PROVE Coherent(k)' /\ Held(k)' = Held(k)
    <2>1. Coherent(k) /\ Unmoved(k)
      BY <1>1 DEF Sane, AllCoherent
    <2> QED BY <2>1, UnmovedThins, ThinnedIsCoherent, ThinnedIsHeld DEF Sane
  <1>2. AllCoherent' /\ Others(q)
    BY <1>1 DEF AllCoherent, Others
  <1>3. CASE Held(q)' = Held(q)
    BY <1>2, <1>3 DEF Served, StillHeld, Others
  <1>4. CASE /\ Held(q) = NoValue
             /\ \E t \in Clients : call[t].op = "Store" /\ call[t].key = q /\ Held(q)' = call[t].value
    <2>1. Accepted(q)
      BY <1>2, <1>4 DEF Accepted
    <2> QED BY <1>2, <2>1 DEF Served
  <1> QED BY <1>3, <1>4

\* A client's value enters the memory index.
LEMMA StoreInMemoryServes ==
  ASSUME Sane, TypeOK', NEW t \in Clients, StoreInMemory(t)
  PROVE  Served
PROOF
  <1> /\ TypeOK /\ ThreadsOK /\ StoresOK /\ mem.index \in Seq(MemElements)
      /\ t \in Threads /\ t # Worker
    BY ClientAt DEF Sane, TypeOK, StoresOK, Storage
  <1>1. /\ pc[t] = "spaceInMemory" /\ UNCHANGED <<popped, used, files, running, disk>>
        /\ mem' = Notified(Unlocked(Inserted(t))) /\ Return(t, "done")
    BY DEF StoreInMemory, clientVars, directory, workerVars
  <1>2. call[t].op = "Store" /\ call[t].key \in Keys /\ call[t].value \in Values
    BY <1>1, ClientAt, CallShape
  <1>3. PICK e \in MemElements :
          e = [key |-> call[t].key, value |-> call[t].value, state |-> "notStarted"]
    BY <1>2 DEF MemElements, States
  <1>4. Longer(mem.index, mem'.index, e)
    <2>1. Inserted(t) \in Storage(MemElements) /\ Unlocked(Inserted(t)) \in Storage(MemElements)
      BY <1>1, InsertedType, MutexType
    <2>2. Inserted(t).index = Append(mem.index, e)
      BY <1>3 DEF Inserted, StoresOK, Storage
    <2>3. mem'.index = Append(mem.index, e)
      BY <1>1, <2>1, <2>2, IndexKept
    <2> QED BY <2>3 DEF Longer
  <1>5. e.key \in Keys /\ e.key = call[t].key /\ e.value = call[t].value /\ e.state = "notStarted"
    BY <1>2, <1>3
  <1>6. Stage(t) = "before"
    BY <1>1, EarlyLabels DEF Stage
  <1>7. ASSUME NEW k \in Keys
        PROVE  /\ Coherent(k) /\ Onwards(k) /\ Storing(k) \subseteq Storing(k)'
               /\ OnDisk(k)' = OnDisk(k) /\ Once(disk'.index, k)
    BY <1>1, <1>6, MovesOnwards, StoringStage DEF Sane, AllCoherent, Coherent, OnDisk
  <1>8. t \in Storers(e.key) /\ InMemory(e.key) = {} /\ OnDisk(e.key) = {} /\ Coherent(e.key)
    <2>1. t \in Storers(e.key) /\ Coherent(e.key)
      BY <1>2, <1>5, <1>7 DEF Storers
    <2> QED BY <1>6, <2>1 DEF Coherent
  <1>9. ASSUME NEW k \in Keys
        PROVE  /\ Once(mem'.index, k)
               /\ e.key = k => InMemory(k)' = {e}
               /\ e.key # k => InMemory(k)' = InMemory(k)
    <2>1. Once(mem.index, k) /\ (e.key = k => ElementsOf(mem.index, k) = {})
      BY <1>7, <1>8 DEF Coherent, InMemory
    <2> QED BY <1>4, <2>1, AppendElement DEF InMemory
  <1>10. \A k \in Keys \ {e.key} : Unmoved(k)
    BY <1>1, <1>7, <1>9 DEF Unmoved
  <1>11. Coherent(e.key)'
    <2>1. PICK q \in Keys : q = e.key
      BY <1>5
    <2>2. InMemory(q)' = {e} /\ OnDisk(q)' = {} /\ Once(mem'.index, q) /\ Once(disk'.index, q)
      BY <1>7, <1>8, <1>9, <2>1
    <2>3. t \notin Storers(q)'
      BY <1>1 DEF Return, Storers, NoCall, ThreadsOK
    <2>4. Storers(q)' = {} /\ q \in used'
      BY <1>1, <1>7, <1>8, <2>1, <2>3 DEF Onwards, Coherent
    <2>5. Coherent(q)'
      BY <2>2, <2>4 DEF Coherent
    <2> QED BY <2>1, <2>5
  <1>12. Held(e.key) = NoValue /\ Held(e.key)' = call[t].value
    <2>1. PICK q \in Keys : q = e.key
      BY <1>5
    <2>2. HeldBy(Held(q), InMemory(q), OnDisk(q), files[q], Storing(q), call)
      BY <1>8, <2>1, HeldIs DEF Coherent
    <2>3. HeldBy(Held(q)', InMemory(q)', OnDisk(q)', files'[q], Storing(q)', call')
      BY <1>11, <2>1, HeldIs DEF Coherent
    <2>4. Held(q) = NoValue /\ Held(q)' = e.value
      BY <1>5, <1>8, <1>9, <2>1, <2>2, <2>3 DEF HeldBy
    <2> QED BY <1>5, <2>1, <2>4
  <1> QED BY <1>1, <1>2, <1>5, <1>10, <1>11, <1>12, OneServes

\* A thread begins to write: from then on a Get finds what it writes, if it did not before.
LEMMA BeginServes ==
  ASSUME Sane, TypeOK', NEW t \in Threads, BeginStoreOnDisk(t)
  PROVE  Served
PROOF
  <1> TypeOK /\ ThreadsOK /\ StoresOK
    BY DEF Sane, TypeOK
  <1>1. pc[t] = "lockDisk" /\ UNCHANGED <<popped, used, files>> /\ Stage(t) = "before"
    BY DEF BeginStoreOnDisk, clientVars, directory, Stage, StageAt
  <1>2. pc[t] \in StoreOnDiskLabels /\ call[t].key \in Keys /\ call[t].value \in Values
    <2>1. pc[t] \in StoreOnDiskLabels
      BY <1>1 DEF StoreOnDiskLabels
    <2> QED BY <2>1, StoringOnDisk
  <1>3. CASE ~running' /\ mem' = Notified(Unlocked(mem)) /\ disk' = Notified(disk)
             /\ ThrowFromStoreOnDisk(t)
    <2>1. mem'.index = mem.index /\ disk'.index = disk.index
      BY <1>3, MutexType, IndexKept DEF StoresOK
    <2> QED BY <1>1, <1>3, <2>1, QuietServes
  <1>4. CASE /\ mem' = Unlocked(mem) /\ Goto(t, "spaceOnDisk") /\ running' = running
             /\ disk' = [Locked(disk, t) EXCEPT
                  !.index = Append(@, [key |-> call[t].key, state |-> "started"])]
    <2>1. PICK e \in DiskElements : e = [key |-> call[t].key, state |-> "started"]
      BY <1>2 DEF DiskElements, States
    <2>2. Longer(disk.index, disk'.index, e)
      <3>1. disk'.index = Append(disk.index, e)
        BY <1>4, <2>1 DEF Locked, StoresOK, Storage
      <3>2. disk.index \in Seq(DiskElements)
        BY DEF StoresOK, Storage
      <3> QED BY <3>1, <3>2 DEF Longer
    <2>3. mem'.index = mem.index
      BY <1>4, IndexKept DEF StoresOK
    <2>4. e.key \in Keys /\ e.key = call[t].key /\ e.state = "started"
      BY <1>2, <2>1
    <2>5. /\ Stage(t)' = "writing" /\ call' = call /\ \A k : Storers(k)' = Storers(k)
          /\ \A u \in Threads : u # t => Stage(u)' = Stage(u)
      BY <1>4 DEF Stage, StageAt, Goto, Storers, ThreadsOK
    <2>6. ASSUME NEW k \in Keys
          PROVE  /\ Coherent(k) /\ InMemory(k)' = InMemory(k)
                 /\ Once(mem'.index, k) /\ Once(disk.index, k)
      BY <2>3 DEF Sane, AllCoherent, Coherent, InMemory
    <2>7. t \in Storers(e.key) /\ OnDisk(e.key) = {}
      BY <1>1, <1>2, <2>4, <2>6, WritesOne DEF Coherent
    <2>8. ASSUME NEW k \in Keys
          PROVE  /\ Once(disk'.index, k)
                 /\ e.key = k => OnDisk(k)' = {e}
                 /\ e.key # k => OnDisk(k)' = OnDisk(k)
      <3>1. Once(disk.index, k) /\ (e.key = k => ElementsOf(disk.index, k) = {})
        BY <2>6, <2>7 DEF OnDisk
      <3> QED BY <2>2, <3>1, AppendElement DEF OnDisk
    <2>9. ASSUME NEW k \in Keys, k # e.key PROVE Unmoved(k)
      <3>1. t \notin Storers(k)
        BY <1>2, <2>4, <2>9, WritesOne
      <3>2. Onwards(k) /\ Storing(k) \subseteq Storing(k)'
        BY <2>5, <3>1, StoringStage DEF Onwards, Storers
      <3> QED BY <1>1, <2>6, <2>8, <2>9, <3>2 DEF Unmoved
    <2>10. PICK q \in Keys : q = e.key
      BY <2>4
    <2>11. Storers(q) = {t} /\ Storing(q)' = {t}
      <3>1. Storers(q) = {t}
        BY <2>6, <2>7, <2>10 DEF Coherent
      <3> QED BY <2>4, <2>5, <2>10, <3>1, StoringStage DEF Storers
    <2>12. Coherent(q)'
      BY <1>1, <2>4, <2>5, <2>6, <2>7, <2>8, <2>10, <2>11 DEF Coherent
    <2>13. HeldBy(Held(q), InMemory(q), OnDisk(q), files[q], Storing(q), call)
      BY <2>6, HeldIs DEF Coherent
    <2>14. HeldBy(Held(q)', InMemory(q)', OnDisk(q)', files'[q], Storing(q)', call')
      BY <2>12, HeldIs DEF Coherent
    <2>15. CASE InMemory(q) # {}
      <3>1. Held(q)' = Held(q)
        BY <2>6, <2>13, <2>14, <2>15 DEF HeldBy
      <3> QED BY <1>1, <1>4, <2>9, <2>10, <2>12, <3>1, OneServes
    <2>16. CASE InMemory(q) = {}
      <3>1. t # Worker
        BY <1>1, <2>6, <2>11, <2>16 DEF Coherent
      <3>2. t \in Clients /\ call[t].op = "Store"
        BY <1>2, <3>1, StoringOnDisk DEF Threads
      <3>3. Held(q) = NoValue /\ Held(q)' = call[t].value
        BY <2>4, <2>5, <2>6, <2>7, <2>8, <2>10, <2>11, <2>13, <2>14, <2>16 DEF HeldBy
      <3> QED BY <1>1, <1>4, <2>4, <2>9, <2>10, <2>12, <3>2, <3>3, OneServes
    <2> QED BY <2>15, <2>16
  <1> QED BY <1>3, <1>4 DEF BeginStoreOnDisk, StopRunning, workerVars

\* What StoreOnDisk marks as completed was started.
LEMMA StartedIsFound ==
  ASSUME StoresOK, NEW k, FindStartedToStoreOnDisk(k) # 0
  PROVE  disk.index[FindStartedToStoreOnDisk(k)].state = "started"
PROOF
  <1> DEFINE I == {i \in 1 .. Len(disk.index) :
                     disk.index[i].state = "started" /\ disk.index[i].key = k}
  <1>1. FindStartedToStoreOnDisk(k) = IF I # {} THEN Min(I) ELSE 0
    BY DEF FindStartedToStoreOnDisk, SelectInSeq
  <1>2. I \in SUBSET Nat
    BY DEF StoresOK, Storage
  <1>3. I # {} => Min(I) \in I
    BY <1>2, LeastExists
  <1> QED BY <1>1, <1>3

\* A value is written: a Get goes on finding it.
LEMMA WriteServes ==
  ASSUME Sane, TypeOK', NEW t \in Threads, WriteSucceeds(t)
  PROVE  Served
PROOF
  <1> TypeOK /\ ThreadsOK /\ StoresOK /\ disk.index \in Seq(DiskElements)
    BY DEF Sane, TypeOK, StoresOK, Storage
  <1> DEFINE i == FindStartedToStoreOnDisk(call[t].key)
             r == Marked(disk, i, "completed").index
  <1>1. /\ pc[t] = "writeFile" /\ running /\ UNCHANGED <<popped, used, running, mem>>
        /\ files' = [files EXCEPT ![call[t].key] = call[t].value]
        /\ AfterStoreOnDisk(t)
    BY DEF WriteSucceeds, clientVars, workerVars
  <1>2. pc[t] \in StoreOnDiskLabels /\ call[t].value \in Values /\ Stage(t) = "writing"
    <2>1. pc[t] \in StoreOnDiskLabels
      BY <1>1 DEF StoreOnDiskLabels
    <2> QED BY <1>1, <2>1, StoringOnDisk DEF Stage, StageAt
  <1>3. PICK q \in Keys : q = call[t].key
    BY <1>2, StoringOnDisk
  <1>4. /\ i \in 0 .. Len(disk.index)
        /\ i # 0 => disk.index[i].key = q /\ disk.index[i].state = "started"
        /\ (\E e \in OnDisk(q) : e.state = "started") => i # 0
    BY <1>3, SearchResults, FoundInState, StartedIsFound
  <1>5. disk'.index = r
    <2>1. Marked(disk, i, "completed") \in Storage(DiskElements)
      BY <1>4, MarkedType DEF StoresOK, States
    <2>2. Unlocked(Marked(disk, i, "completed")) \in Storage(DiskElements)
      BY <2>1, MutexType
    <2>3. Notified(Unlocked(Marked(disk, i, "completed"))) \in Storage(DiskElements)
      BY <2>2, MutexType
    <2>4. Notified(Unlocked(Marked(disk, i, "completed"))).index = r
      BY <2>1, <2>2, IndexKept
    <2> QED BY <2>3, <2>4 DEF WriteSucceeds, Storage
  <1>6. ASSUME i # 0 PROVE Changed(disk.index, r, i, [disk.index[i] EXCEPT !.state = "completed"])
    BY <1>4, <1>6, MarkElement DEF StoresOK
  <1>7. i = 0 => r = disk.index
    BY DEF Marked
  <1> HIDE DEF r, i
  <1>8. \/ Goto(t, "relockMemory") /\ t = Worker
        \/ Return(t, "done") /\ t # Worker
    BY <1>1 DEF AfterStoreOnDisk
  <1>9. StageAt("relockMemory") = "written"
    BY DEF StageAt
  <1>10. ASSUME NEW k \in Keys
         PROVE  /\ Coherent(k) /\ Onwards(k) /\ InMemory(k)' = InMemory(k)
                /\ Once(mem'.index, k) /\ Once(disk.index, k)
                /\ k # q => Storing(k) \subseteq Storing(k)' /\ files'[k] = files[k]
    <2>1. Onwards(k) /\ Storing(k) \ {t} \subseteq Storing(k)'
      BY <1>8, <1>9, MovesOnwards
    <2>2. k # q => t \notin Storing(k) /\ files'[k] = files[k]
      BY <1>1, <1>2, <1>3, WritesOne DEF TypeOK, DirectoryOK
    <2> QED BY <1>1, <2>1, <2>2 DEF Sane, AllCoherent, Coherent, InMemory
  <1>11. files'[q] = call[t].value /\ files'[q] # NoValue
    BY <1>1, <1>2, <1>3, DataAssumption DEF TypeOK, DirectoryOK
  <1>12. t \in Storers(q) /\ Storers(q) = {t} /\ Storing(q) = {t}
    <2>1. t \in Storers(q) /\ Storers(q) = {t}
      BY <1>2, <1>3, <1>10, WritesOne DEF Coherent
    <2> QED BY <1>2, <1>3, <2>1, StoringStage
  <1>13. CASE i = 0
    <2>1. disk'.index = disk.index
      BY <1>5, <1>7, <1>13
    <2>2. \A k \in Keys \ {q} : Unmoved(k)
      BY <1>1, <1>10, <2>1, SameThins
    <2>3. OnDisk(q)' = OnDisk(q) /\ Once(disk'.index, q)
      BY <1>10, <2>1 DEF OnDisk
    <2>4. \A d \in OnDisk(q) : d.state # "completed"
      BY <1>2, <1>10, <1>12 DEF Coherent
    <2>5. ~(Worker \in Storers(q)' /\ Stage(Worker)' = "before")
      BY <1>2, <1>10, <1>12 DEF Onwards
    <2>6. Thins(q)
      BY <1>1, <1>10, <2>3, <2>4, <2>5 DEF Thins
    <2>7. q \in condemned \cup popped
      BY <1>1, <1>2, <1>3, <1>4, <1>13, WrittenIsWanted
    <2> QED BY <1>1, <2>2, <2>6, <2>7, ThinningServes
  <1>14. CASE i # 0
    <2>1. PICK e : e = [disk.index[i] EXCEPT !.state = "completed"]
      OBVIOUS
    <2>2. Changed(disk.index, disk'.index, i, e)
      BY <1>5, <1>6, <1>14, <2>1
    <2>3. e.key = q /\ e.state = "completed"
      <3>1. disk.index[i] \in DiskElements
        BY <1>4, <1>14
      <3> QED BY <1>4, <1>14, <2>1, <3>1 DEF DiskElements
    <2>4. ASSUME NEW k \in Keys
          PROVE  /\ Once(disk'.index, k)
                 /\ k = q => OnDisk(k)' = {e}
                 /\ k # q => OnDisk(k)' = OnDisk(k)
      BY <1>10, <2>2, <2>3, ChangeElement DEF OnDisk
    <2>5. \A k \in Keys \ {q} : Unmoved(k)
      BY <1>1, <1>10, <2>4 DEF Unmoved
    <2>6. disk.index[i] \in OnDisk(q)
      BY <1>4, <1>14 DEF OnDisk, ElementsOf
    <2>7. \A u \in Storers(q)' : u = t /\ Stage(u)' = "written" /\ call'[u] = call[u] /\ t = Worker
      BY <1>8, <1>9, <1>10, <1>12 DEF Onwards, Goto, Stage, ThreadsOK, Return, Storers, NoCall
    <2>8. q \in used'
      BY <1>1, <1>10, <1>12 DEF Coherent
    <2>9. \A f \in InMemory(q) : t = Worker /\ f.value = call[t].value /\ f.state # "notStarted"
      BY <1>10, <1>12 DEF Coherent
    <2>10. Coherent(q)'
      BY <1>10, <1>11, <2>3, <2>4, <2>7, <2>8, <2>9 DEF Coherent
    <2>11. HeldBy(Held(q), InMemory(q), OnDisk(q), files[q], Storing(q), call)
      BY <1>10, HeldIs DEF Coherent
    <2>12. HeldBy(Held(q)', InMemory(q)', OnDisk(q)', files'[q], Storing(q)', call')
      BY <2>10, HeldIs DEF Coherent
    <2>13. Held(q) = call[t].value
      <3>1. CASE InMemory(q) = {}
        BY <1>4, <1>12, <1>14, <2>6, <2>11, <3>1 DEF HeldBy
      <3>2. CASE InMemory(q) # {}
        BY <2>9, <2>11, <3>2 DEF HeldBy
      <3> QED BY <3>1, <3>2
    <2>14. Held(q)' = call[t].value
      <3>1. CASE InMemory(q) = {}
        BY <1>10, <1>11, <2>3, <2>4, <2>12, <3>1 DEF HeldBy
      <3>2. CASE InMemory(q) # {}
        BY <1>10, <2>9, <2>12, <3>2 DEF HeldBy
      <3> QED BY <3>1, <3>2
    <2> QED BY <1>1, <2>5, <2>10, <2>13, <2>14, OneServes
  <1> QED BY <1>13, <1>14

\* The worker takes an element of the memory index: nobody else is storing its key.
LEMMA TakeServes ==
  ASSUME Sane, TypeOK', TakeOldest
  PROVE  Served
PROOF
  <1> /\ TypeOK /\ ThreadsOK /\ StoresOK /\ Worker \in Threads
      /\ mem.index \in Seq(MemElements) /\ Len(mem.index) \in Nat
    BY DEF Sane, TypeOK, StoresOK, Storage, Threads
  <1> DEFINE i == FindOldestInMemoryOnly
  <1>1. /\ pc[Worker] = "findOldest" /\ UNCHANGED <<popped, used, files, running, disk>>
    BY DEF TakeOldest, clientVars, directory, workerVars
  <1>2. i \in 0 .. Len(mem.index) /\ (i # 0 => mem.index[i].state = "notStarted")
    BY SearchResults, FoundInState
  <1>3. Marked(mem, i, "started") \in Storage(MemElements)
    BY <1>2, MarkedType DEF StoresOK, States
  <1>4. mem'.index = Marked(mem, i, "started").index
    BY <1>3, IndexKept DEF TakeOldest
  <1>5. \A u : Worker \notin Storers(u)
    BY <1>1 DEF ThreadsOK, OpsAt, StoreOnDiskLabels, Storers
  <1>6. Stage(Worker) # "writing"
    BY <1>1, EarlyLabels DEF Stage, StageAt
  <1>7. i = 0 => Goto(Worker, "waitOnMemory")
    BY DEF TakeOldest
  <1>8. i # 0 =>
          /\ pc' = [pc EXCEPT ![Worker] = "lockDisk"]
          /\ call' = [call EXCEPT ![Worker] =
               [op |-> "Copy", key |-> mem.index[i].key, value |-> mem.index[i].value]]
    BY DEF TakeOldest
  <1>9. i # 0 => Changed(mem.index, mem'.index, i, [mem.index[i] EXCEPT !.state = "started"])
    BY <1>2, <1>4, MarkElement DEF StoresOK
  <1>10. i = 0 => mem'.index = mem.index
    BY <1>4 DEF Marked
  <1> HIDE DEF i
  <1>11. CASE i = 0
    BY <1>1, <1>5, <1>6, <1>7, <1>10, <1>11, QuietServes
  <1>12. CASE i # 0
    <2>1. PICK e \in MemElements : e = mem.index[i]
      BY <1>2, <1>12
    <2>2. PICK f \in MemElements : f = [e EXCEPT !.state = "started"]
      BY DEF MemElements, States
    <2>3. f = [key |-> e.key, value |-> e.value, state |-> "started"]
      BY <2>2 DEF MemElements
    <2>4. Changed(mem.index, mem'.index, i, f)
      BY <1>9, <1>12, <2>1, <2>2
    <2>5. /\ pc'[Worker] = "lockDisk" /\ call'[Worker].op = "Copy"
          /\ call'[Worker].key = e.key /\ call'[Worker].value = e.value
          /\ \A t \in Threads \ {Worker} : pc'[t] = pc[t] /\ call'[t] = call[t]
      BY <1>8, <1>12, <2>1 DEF ThreadsOK
    <2>6. PICK q \in Keys : q = e.key
      BY DEF MemElements
    <2>7. ASSUME NEW k \in Keys
          PROVE  /\ Coherent(k) /\ Once(mem.index, k)
                 /\ OnDisk(k)' = OnDisk(k) /\ Once(disk'.index, k)
      BY <1>1 DEF Sane, AllCoherent, Coherent, OnDisk
    <2>8. e \in InMemory(q) /\ Storers(q) = {} /\ OnDisk(q) = {} /\ q \in used'
      <3>1. e \in InMemory(q)
        BY <1>2, <1>12, <2>1, <2>6 DEF InMemory, ElementsOf
      <3> QED BY <1>1, <1>2, <1>12, <2>1, <2>7, <3>1 DEF Coherent
    <2>9. Once(mem'.index, q) /\ InMemory(q)' = {f}
      BY <2>3, <2>4, <2>6, <2>7, ChangeElement DEF InMemory
    <2>10. Storers(q)' = {Worker} /\ Stage(Worker)' = "before"
      BY <2>5, <2>6, <2>8, EarlyLabels DEF Storers, Stage
    <2>11. Coherent(q)'
      BY <2>3, <2>5, <2>7, <2>8, <2>9, <2>10 DEF Coherent
    <2>12. HeldBy(Held(q), InMemory(q), OnDisk(q), files[q], Storing(q), call)
      BY <2>7, HeldIs DEF Coherent
    <2>13. HeldBy(Held(q)', InMemory(q)', OnDisk(q)', files'[q], Storing(q)', call')
      BY <2>11, HeldIs DEF Coherent
    <2>14. Held(q)' = Held(q)
      BY <2>3, <2>8, <2>9, <2>12, <2>13 DEF HeldBy
    <2>15. ASSUME NEW k \in Keys, k # q PROVE Unmoved(k)
      <3>1. Once(mem'.index, k) /\ InMemory(k)' = InMemory(k)
        BY <2>3, <2>4, <2>6, <2>7, <2>15, ChangeElement DEF InMemory
      <3>2. \A u \in Threads : u \in Storers(k)' <=> u \in Storers(k)
        BY <1>5, <2>5, <2>6, <2>15 DEF Storers
      <3>3. \A u \in Storers(k)' : u \in Storers(k) /\ call'[u] = call[u] /\ Stage(u)' = Stage(u)
        BY <1>5, <2>5, <3>2 DEF Storers, Stage
      <3>4. Storing(k) \subseteq Storing(k)'
        BY <1>6, <2>5, StoringStage DEF Stage
      <3> QED BY <1>1, <2>7, <3>1, <3>3, <3>4 DEF Unmoved, Onwards
    <2> QED BY <1>1, <2>11, <2>14, <2>15, OneServes
  <1> QED BY <1>11, <1>12

\* The worker marks as completed what it has written, or finds it gone.
LEMMA MarkServes ==
  ASSUME Sane, TypeOK', MarkStored
  PROVE  Served
PROOF
  <1> /\ TypeOK /\ ThreadsOK /\ StoresOK /\ Worker \in Threads
      /\ mem.index \in Seq(MemElements) /\ Len(mem.index) \in Nat
    BY DEF Sane, TypeOK, StoresOK, Storage, Threads
  <1> DEFINE i == Find(mem.index, call[Worker].key)
  <1>1. /\ pc[Worker] = "relockMemory" /\ UNCHANGED <<popped, used, files, running>>
        /\ pc' = [pc EXCEPT ![Worker] = "findOldest"]
        /\ call' = [call EXCEPT ![Worker] = NoCall]
    BY DEF MarkStored, clientVars, directory, workerVars
  <1>2. disk'.index = disk.index
    BY IndexKept DEF MarkStored, StoresOK
  <1>3. i \in 0 .. Len(mem.index) /\ (i # 0 => mem.index[i].key = call[Worker].key)
    BY FindResult
  <1>4. Marked(mem, i, "completed") \in Storage(MemElements)
    BY <1>3, MarkedType DEF StoresOK, States
  <1>5. mem'.index = Marked(mem, i, "completed").index
    BY <1>4, IndexKept DEF MarkStored
  <1>6. /\ \A k : Worker \notin Storers(k)'
        /\ \A t \in Threads \ {Worker} : pc'[t] = pc[t] /\ call'[t] = call[t]
    BY <1>1 DEF ThreadsOK, Storers, NoCall
  <1>7. i # 0 => Changed(mem.index, mem'.index, i, [mem.index[i] EXCEPT !.state = "completed"])
    BY <1>3, <1>5, MarkElement DEF StoresOK
  <1>8. i = 0 => mem'.index = mem.index
    BY <1>5 DEF Marked
  <1> HIDE DEF i
  <1>9. ASSUME NEW k \in Keys
        PROVE  /\ Coherent(k) /\ Onwards(k) /\ Storing(k) \subseteq Storing(k)'
               /\ Once(mem.index, k) /\ OnDisk(k)' = OnDisk(k) /\ Once(disk'.index, k)
    <2>1. Coherent(k) /\ Once(mem.index, k) /\ OnDisk(k)' = OnDisk(k) /\ Once(disk'.index, k)
      BY <1>2 DEF Sane, AllCoherent, Coherent, OnDisk
    <2>2. Stage(Worker) # "writing"
      BY <1>1 DEF Stage, StageAt
    <2>3. Onwards(k)
      BY <1>6 DEF Onwards, Storers, Stage
    <2>4. Storing(k) \subseteq Storing(k)'
      BY <1>6, <2>2, StoringStage DEF Stage
    <2> QED BY <2>1, <2>3, <2>4
  <1>10. CASE i = 0
    <2>1. \A k \in Keys : Unmoved(k)
      BY <1>1, <1>2, <1>8, <1>9, <1>10, SameThins
    <2> QED BY <1>1, <2>1, UnmovedServes
  <1>11. CASE i # 0
    <2>1. PICK e \in MemElements : e = mem.index[i]
      BY <1>3, <1>11
    <2>2. PICK f \in MemElements : f = [e EXCEPT !.state = "completed"]
      BY DEF MemElements, States
    <2>3. f = [key |-> e.key, value |-> e.value, state |-> "completed"]
      BY <2>2 DEF MemElements
    <2>4. Changed(mem.index, mem'.index, i, f)
      BY <1>7, <1>11, <2>1, <2>2
    <2>5. PICK q \in Keys : q = e.key
      BY DEF MemElements
    <2>6. e \in InMemory(q)
      BY <1>3, <1>11, <2>1, <2>5 DEF InMemory, ElementsOf
    <2>7. Once(mem'.index, q) /\ InMemory(q)' = {f}
      BY <1>9, <2>3, <2>4, <2>5, ChangeElement DEF InMemory
    <2>8. Thins(q)
      BY <1>1, <1>9, <2>3, <2>6, <2>7 DEF Thins
    <2>9. Held(q)' = Held(q)
      BY <1>9, <2>7, <2>8, ThinnedIsHeld DEF Sane
    <2>10. ASSUME NEW k \in Keys, k # q PROVE Unmoved(k)
      <3>1. Once(mem'.index, k) /\ InMemory(k)' = InMemory(k)
        BY <1>9, <2>3, <2>4, <2>5, <2>10, ChangeElement DEF InMemory
      <3> QED BY <1>1, <1>9, <3>1 DEF Unmoved
    <2> QED BY <1>1, <2>8, <2>9, <2>10, ThinningServes
  <1> QED BY <1>10, <1>11

\* The worker ends.
LEMMA ReturnServes ==
  ASSUME Sane, TypeOK', WorkerReturns
  PROVE  Served
PROOF
  <1> StoresOK /\ ThreadsOK /\ Worker \in Threads
    BY DEF Sane, TypeOK, Threads
  <1>1. /\ pc[Worker] = "findOldest" /\ UNCHANGED <<popped, used, files, running, disk>>
        /\ Goto(Worker, "exited") /\ mem' = Unlocked(mem)
    BY DEF WorkerReturns, clientVars, directory
  <1>2. mem'.index = mem.index
    BY <1>1, IndexKept DEF StoresOK
  <1>3. \A k : Worker \notin Storers(k)
    BY <1>1 DEF ThreadsOK, OpsAt, StoreOnDiskLabels, Storers
  <1>4. Stage(Worker) # "writing"
    BY <1>1 DEF Stage, StageAt
  <1> QED BY <1>1, <1>2, <1>3, <1>4, QuietServes

\* The first Store of a key begins; no other call does anything to what is there.
LEMMA CallServes ==
  ASSUME ~ReuseKeys, Sane, TypeOK', NEW t \in Clients, NEW c \in Requests, Call(t, c)
  PROVE  Served
PROOF
  <1> TypeOK /\ ThreadsOK /\ StoresOK /\ t \in Threads /\ t # Worker
    BY ClientAt DEF Sane, TypeOK
  <1>1. /\ pc[t] = "idle" /\ used \subseteq used' /\ UNCHANGED <<mem, disk, files, popped, running>>
        /\ c.op = "Store" => c.key \notin used /\ c.key \in used'
    BY DEF Call, directory, workerVars
  <1>2. c.op # "Copy" /\ (c.op = "Store" => c.key \in Keys)
    BY EnvironmentAssumption DEF AllCalls, StoreCalls, KeyCalls, DeleteIfCalls, SetMaxCalls
  <1>3. /\ call'[t] = c /\ pc'[t] = FirstLabel(c)
        /\ \A u \in Threads \ {t} : pc'[u] = pc[u] /\ call'[u] = call[u]
    BY DEF Call, ThreadsOK
  <1>4. \A k : t \notin Storers(k)
    BY <1>1, ThreadsAssumption DEF ThreadsOK, OpsAt, StoreOnDiskLabels, Storers
  <1>5. Stage(t) # "writing"
    BY <1>1 DEF Stage, StageAt
  <1>6. ASSUME NEW k \in Keys
        PROVE  /\ Coherent(k) /\ InMemory(k)' = InMemory(k) /\ OnDisk(k)' = OnDisk(k)
               /\ Once(mem'.index, k) /\ Once(disk'.index, k) /\ Storing(k) \subseteq Storing(k)'
    <2>1. Coherent(k)
      BY DEF Sane, AllCoherent
    <2>2. Storing(k) \subseteq Storing(k)'
      BY <1>3, <1>5, StoringStage DEF Stage
    <2> QED BY <1>1, <2>1, <2>2 DEF Coherent, InMemory, OnDisk
  <1>7. ASSUME NEW k \in Keys, ~(c.op = "Store" /\ c.key = k) PROVE Unmoved(k)
    <2>1. Onwards(k)
      BY <1>2, <1>3, <1>7 DEF Onwards, Storers, Stage
    <2> QED BY <1>1, <1>6, <2>1 DEF Unmoved
  <1>8. CASE c.op # "Store"
    BY <1>1, <1>7, <1>8, UnmovedServes
  <1>9. CASE c.op = "Store"
    <2>1. PICK q \in Keys : q = c.key
      BY <1>2, <1>9
    <2>2. InMemory(q) = {} /\ OnDisk(q) = {} /\ Storers(q) = {} /\ q \in used'
      BY <1>1, <1>6, <1>9, <2>1 DEF Coherent
    <2>3. Storers(q)' = {t} /\ Stage(t)' = "before"
      BY <1>3, <1>9, <2>1, <2>2, EarlyLabels DEF Storers, Stage, FirstLabel
    <2>4. Coherent(q)'
      BY <1>6, <2>2, <2>3 DEF Coherent
    <2>5. HeldBy(Held(q), InMemory(q), OnDisk(q), files[q], Storing(q), call)
      BY <1>6, HeldIs DEF Coherent
    <2>6. HeldBy(Held(q)', InMemory(q)', OnDisk(q)', files'[q], Storing(q)', call')
      BY <2>4, HeldIs DEF Coherent
    <2>7. Held(q)' = Held(q)
      BY <1>6, <2>2, <2>5, <2>6 DEF HeldBy
    <2> QED BY <1>1, <1>7, <2>1, <2>4, <2>7, OneServes
  <1> QED BY <1>8, <1>9

\* The destructor stops the buffer, and moves nothing.
LEMMA DestructorServes ==
  ASSUME Sane, TypeOK', DestructorStep \/ UNCHANGED vars
  PROVE  Served
PROOF
  <1> TypeOK /\ ThreadsOK /\ StoresOK
    BY DEF Sane, TypeOK
  <1>1. /\ UNCHANGED <<used, files, pc, call, popped>> /\ (running' = running \/ ~running')
        /\ mem' \in {mem, Notified(mem)} /\ disk' \in {disk, Notified(disk)}
    BY DEF DestructorStep, Destroy, NotifyWorker, EndDestroy, StopRunning, vars,
           clientVars, directory, workerVars, threadVars
  <1>2. mem'.index = mem.index /\ disk'.index = disk.index
    BY <1>1 DEF Notified, StoresOK, Storage
  <1>3. ASSUME NEW k \in Keys PROVE Unmoved(k)
    <2>1. Coherent(k) /\ Onwards(k) /\ Storing(k) \subseteq Storing(k)'
      BY <1>1 DEF Sane, AllCoherent, Onwards, Storers, Stage, Storing
    <2> QED BY <1>1, <1>2, <2>1, SameThins
  <1> QED BY <1>1, <1>3, UnmovedServes

\* Every step does one of these things.
LEMMA ServedStep ==
  ASSUME ~ReuseKeys, Sane, TypeOK', [Next]_vars
  PROVE  Served
PROOF
  <1> TypeOK /\ Worker \in Threads
    BY DEF Sane, Threads
  <1>1. ASSUME NEW t \in Threads, StoreOnDiskStep(t) PROVE Served
    BY <1>1, BeginServes, SpaceServes, NoticeServes, PopServes, WriteServes, EndServes
       DEF StoreOnDiskStep
  <1>2. ASSUME NEW t \in Clients, ClientStep(t) PROVE Served
    <2> t \in Threads /\ t # Worker
      BY ClientAt DEF TypeOK
    <2> QED BY <1>1, <1>2, ThreadsServe, EvictServes, StoreInMemoryServes, QuietCallsServe,
            DeleteFromMemoryServes, DeleteFromDiskServes, DeleteIfServes DEF ClientStep
  <1>3. ASSUME WorkerStep PROVE Served
    BY <1>1, <1>3, TakeServes, MarkServes, ReturnServes, ThreadsServe, EvictServes DEF WorkerStep
  <1> QED BY <1>2, <1>3, CallServes, DestructorServes DEF Next, Destroyed

-----------------------------------------------------------------------------
(* The contract.                                                           *)

\* The state of BufferContract that one of DataBuffer stands for.
HeldNow == [k \in Keys |-> Held(k)]
OfferedNow ==
  {<<call[t].key, call[t].value>> : t \in {u \in Clients : call[u].op = "Store"}}

\* No step but a call makes an offer.
LEMMA OffersEnd ==
  ASSUME ThreadsOK, ClientsKept
  PROVE  OfferedNow' \subseteq OfferedNow
PROOF
  <1> SUFFICES ASSUME NEW t \in Clients, call'[t].op = "Store"
               PROVE  <<call'[t].key, call'[t].value>> \in OfferedNow
    BY DEF OfferedNow
  <1>1. call'[t] = call[t]
    BY DEF ClientsKept, NoCall
  <1> QED BY <1>1 DEF OfferedNow

\* A call changes nothing that is held.
LEMMA CallsHold ==
  ASSUME TypeOK, NEW t \in Clients, NEW c \in Requests, Call(t, c)
  PROVE  /\ HeldNow' = HeldNow /\ UNCHANGED <<popped, running>>
         /\ OfferedNow \subseteq OfferedNow' /\ condemned \subseteq condemned'
PROOF
  <1> ThreadsOK /\ t \in Threads
    BY ClientAt DEF TypeOK
  <1>1. /\ pc[t] = "idle" /\ UNCHANGED <<mem, disk, files, popped, running>>
        /\ condemned \subseteq condemned'
    BY DEF Call, directory, workerVars
  <1>2. /\ pc'[t] = FirstLabel(c)
        /\ \A u \in Threads \ {t} : pc'[u] = pc[u] /\ call'[u] = call[u]
    BY DEF Call, ThreadsOK
  <1>3. pc'[t] \in {"checkDiskMax", "checkMemMax", "check"}
    BY <1>2 DEF FirstLabel
  <1>4. call[t].op # "Store"
    BY <1>1, ThreadsAssumption DEF ThreadsOK, OpsAt, StoreOnDiskLabels
  <1>5. ASSUME NEW k \in Keys PROVE Held(k)' = Held(k)
    <2>1. Storing(k)' = Storing(k) /\ t \notin Storing(k)
      BY <1>1, <1>2, <1>3 DEF Storing
    <2>2. Storing(k) # {} => (CHOOSE u \in Storing(k) : TRUE) \in Threads \ {t}
      <3>1. Storing(k) # {} => (CHOOSE u \in Storing(k) : TRUE) \in Storing(k)
        OBVIOUS
      <3> QED BY <2>1, <3>1 DEF Storing
    <2>3. Storing(k) # {} =>
            call'[CHOOSE u \in Storing(k) : TRUE] = call[CHOOSE u \in Storing(k) : TRUE]
      BY <1>2, <2>2
    <2>4. HeldIn(mem.index, disk.index, k, files[k], Storing(k), call')
            = HeldIn(mem.index, disk.index, k, files[k], Storing(k), call)
      BY <2>3 DEF HeldIn
    <2>5. Held(k) = HeldIn(mem.index, disk.index, k, files[k], Storing(k), call)
      BY DEF Held, HeldIn
    <2>6. Held(k)' = HeldIn(mem'.index, disk'.index, k, files'[k], Storing(k)', call')
      BY DEF Held, HeldIn
    <2> QED BY <1>1, <2>1, <2>4, <2>5, <2>6
  <1>6. OfferedNow \subseteq OfferedNow'
    <2> SUFFICES ASSUME NEW u \in Clients, call[u].op = "Store"
                 PROVE  <<call[u].key, call[u].value>> \in OfferedNow'
      BY DEF OfferedNow
    <2>1. call'[u] = call[u]
      BY <1>2, <1>4 DEF Threads
    <2> QED BY <2>1 DEF OfferedNow
  <1> QED BY <1>1, <1>5, <1>6 DEF HeldNow

\* A step that leaves each client in its call or between two.
LEMMA ServedIsAllowed ==
  ASSUME Sane, TypeOK', Served, ClientsKept
  PROVE  [Abstract!Next]_(Abstract!vars)
PROOF
  <1> ThreadsOK /\ condemned' = condemned
    BY DEF Sane, TypeOK, ClientsKept
  <1>0. OfferedNow' \subseteq OfferedNow
    BY OffersEnd
  <1>1. ASSUME StillHeld PROVE Abstract!CallOrReturn
    <2>1. HeldNow' = HeldNow /\ UNCHANGED <<popped, running>>
      BY <1>1 DEF StillHeld, HeldNow
    <2> QED BY <1>0, <2>1 DEF Abstract!CallOrReturn, HeldNow, OfferedNow
  <1>2. ASSUME Stopped PROVE Abstract!Stop
    <2>1. running' = FALSE /\ popped' = popped
      BY <1>2 DEF Stopped, Sane, TypeOK, WorkerOK
    <2>2. \A k \in Keys : HeldNow'[k] \in {HeldNow[k], NoValue}
      BY <1>2 DEF Stopped, HeldNow
    <2> QED BY <1>0, <2>1, <2>2 DEF Abstract!Stop, HeldNow, OfferedNow
  <1>3. ASSUME NEW q \in Keys, Others(q), NEW v, Held(q)' = v
        PROVE  HeldNow' = [HeldNow EXCEPT ![q] = v]
    BY <1>3 DEF Others, HeldNow
  <1>4. ASSUME NEW q \in Keys, NEW t \in Clients, call[t].op = "Store", call[t].key = q
        PROVE  <<q, call[t].value>> \in OfferedNow /\ call[t].value \in Values /\ t \in Threads
    BY <1>4, CallShape DEF OfferedNow, Threads
  <1>5. ASSUME NEW q \in Keys, Accepted(q)
        PROVE  \E v \in Values : Abstract!Accept(q, v)
    <2>1. PICK t \in Clients : call[t].op = "Store" /\ call[t].key = q /\ Held(q)' = call[t].value
      BY <1>5 DEF Accepted
    <2>2. PICK v \in Values : v = call[t].value
      BY <1>4, <2>1
    <2>3. /\ <<q, v>> \in OfferedNow /\ HeldNow[q] = NoValue
          /\ HeldNow' = [HeldNow EXCEPT ![q] = v] /\ UNCHANGED <<popped, running>>
      BY <1>3, <1>4, <1>5, <2>1, <2>2 DEF Accepted, HeldNow
    <2>4. Abstract!Accept(q, v)
      BY <1>0, <2>3 DEF Abstract!Accept, HeldNow, OfferedNow
    <2> QED BY <2>4
  <1>6. ASSUME NEW q \in Keys, Lost(q) PROVE Abstract!Lose(q)
    <2>1. /\ q \in condemned \cup popped \/ ~running
          /\ HeldNow' = [HeldNow EXCEPT ![q] = NoValue] /\ UNCHANGED <<popped, running>>
      BY <1>3, <1>6 DEF Lost
    <2> QED BY <1>0, <2>1 DEF Abstract!Lose, HeldNow, OfferedNow
  <1>7. ASSUME NEW q \in Keys, Popped(q) PROVE Abstract!Pop(q)
    <2>1. HeldNow' \in {HeldNow, [HeldNow EXCEPT ![q] = NoValue]}
      <3>1. CASE Held(q)' = NoValue
        BY <1>3, <1>7, <3>1 DEF Popped
      <3>2. CASE Held(q)' = Held(q)
        BY <1>7, <3>2 DEF Popped, Others, HeldNow
      <3> QED BY <1>7, <3>1, <3>2 DEF Popped
    <2>2. OfferedNow' = OfferedNow
      BY <1>7 DEF Popped, OfferedNow
    <2>3. HeldNow[q] # NoValue /\ popped' = popped \cup {q} /\ running' = running
      BY <1>7 DEF Popped, HeldNow
    <2> QED BY <2>1, <2>2, <2>3 DEF Abstract!Pop, HeldNow, OfferedNow
  <1>8. ASSUME NEW q \in Keys, Retracted(q)
        PROVE  \E v \in Values : Abstract!Retract(q, v)
    <2>1. PICK t \in Clients : call[t].op = "Store" /\ call[t].key = q /\ call'[t] = NoCall
      BY <1>8 DEF Retracted
    <2>2. PICK v \in Values : v = call[t].value
      BY <1>4, <2>1
    <2>3. /\ <<q, v>> \in OfferedNow
          /\ HeldNow' = [HeldNow EXCEPT ![q] = NoValue] /\ UNCHANGED <<popped, running>>
      BY <1>3, <1>4, <1>8, <2>1, <2>2 DEF Retracted
    <2>4. <<q, v>> \notin OfferedNow'
      <3> SUFFICES ASSUME NEW u \in Clients, call'[u].op = "Store", call'[u].key = q PROVE FALSE
        BY DEF OfferedNow
      <3>1. u # t /\ call'[u] = call[u]
        BY <2>1 DEF ClientsKept, NoCall
      <3>2. u \in Storers(q) /\ t \in Storers(q)
        BY <2>1, <3>1 DEF Storers, Threads
      <3> QED BY <3>1, <3>2 DEF Sane, AllCoherent, Coherent
    <2>5. Abstract!Retract(q, v)
      BY <1>0, <2>3, <2>4 DEF Abstract!Retract, HeldNow, OfferedNow
    <2> QED BY <2>5
  <1> QED BY <1>1, <1>2, <1>5, <1>6, <1>7, <1>8 DEF Served, Abstract!Next

LEMMA ContractStep ==
  ASSUME ~ReuseKeys, Sane, TypeOK', [Next]_vars
  PROVE  [Abstract!Next]_(Abstract!vars)
PROOF
  <1> TypeOK
    BY DEF Sane
  <1>1. Served
    BY ServedStep
  <1>2. ASSUME ClientsKept PROVE [Abstract!Next]_(Abstract!vars)
    BY <1>1, <1>2, ServedIsAllowed
  <1>3. ASSUME NEW t \in Clients, NEW c \in Requests, Call(t, c)
        PROVE  [Abstract!Next]_(Abstract!vars)
    <2>1. /\ HeldNow' = HeldNow /\ UNCHANGED <<popped, running>>
          /\ OfferedNow \subseteq OfferedNow' /\ condemned \subseteq condemned'
      BY <1>3, CallsHold
    <2>2. Abstract!CallOrReturn
      BY <2>1 DEF Abstract!CallOrReturn, HeldNow, OfferedNow
    <2> QED BY <2>2 DEF Abstract!Next
  <1>4. ASSUME DestructorStep \/ UNCHANGED vars PROVE ClientsKept
    BY <1>4 DEF DestructorStep, Destroy, NotifyWorker, EndDestroy, vars, clientVars, threadVars,
                ClientsKept
  <1> QED BY <1>2, <1>3, <1>4, ClientKeeps, WorkerKeeps DEF Next, Destroyed

LEMMA ContractInit ==
  ASSUME Init
  PROVE  AllCoherent /\ Abstract!Init
PROOF
  <1> mem.index = <<>> /\ disk.index = <<>>
    BY DEF Init, EmptyStorage
  <1>1. ASSUME NEW k \in Keys PROVE Coherent(k) /\ Held(k) = NoValue
    <2>1. InMemory(k) = {} /\ OnDisk(k) = {} /\ Once(mem.index, k) /\ Once(disk.index, k)
      BY DEF InMemory, OnDisk, ElementsOf, Once
    <2>2. Storers(k) = {}
      BY DEF Init, NoCall, Storers
    <2>3. HeldBy(Held(k), InMemory(k), OnDisk(k), files[k], Storing(k), call)
      BY <2>1, TypeInit, HeldIs
    <2> QED BY <2>1, <2>2, <2>3 DEF Coherent, HeldBy
  <1>2. HeldNow = [k \in Keys |-> NoValue]
    BY <1>1 DEF HeldNow
  <1>3. OfferedNow = {}
    BY DEF Init, OfferedNow, NoCall, Threads
  <1> QED BY <1>1, <1>2, <1>3 DEF Abstract!Init, Init, HeldNow, OfferedNow, AllCoherent

\* DataBuffer implements BufferContract: of a key that is stored once, a Get finds the value of
\* one Store and goes on finding it, while the worker copies the element, an eviction removes it from
\* memory and other threads store, delete and pop other keys, until a Delete of the key, a pop of
\* it, the failure of its own Store or the end of the buffer.
THEOREM ImplementsContract ==
  ASSUME ~ReuseKeys
  PROVE  Spec => Contract
PROOF
  <1>1. Init => Sane /\ Abstract!Init
    BY TypeInit, MutexInit, OneWayInit, ContractInit DEF Sane
  <1>2. Sane /\ [Next]_vars => Sane' /\ [Abstract!Next]_(Abstract!vars)
    <2> SUFFICES ASSUME Sane, [Next]_vars PROVE Sane' /\ [Abstract!Next]_(Abstract!vars)
      OBVIOUS
    <2>1. TypeOK'
      BY TypeStep DEF Sane
    <2>2. AllCoherent'
      BY <2>1, ServedStep DEF Served
    <2> QED BY <2>1, <2>2, MutexStep, OneWayStep, ContractStep DEF Sane
  <1> QED BY <1>1, <1>2, PTL DEF Spec, Contract, Abstract!Spec

-----------------------------------------------------------------------------
(* What a Get or a Delete finds of a key that was held when it was called. *)

\* A step of one thread: the others stay in their calls, and it stays in its own or ends it.
Alone(t) ==
  /\ used' = used
  /\ t # Worker => pc'[Worker] = pc[Worker] /\ call'[Worker] = call[Worker]
  /\ \A u \in Clients \ {t} :
       pc'[u] = pc[u] /\ call'[u] = call[u] /\ due'[u] = due[u] /\ outcome'[u] = outcome[u]
  /\ t \in Clients => \/ call'[t] = call[t] /\ due'[t] = due[t]
                      \/ call'[t] = NoCall /\ due'[t] = NoValue

LEMMA MovesAlone ==
  ASSUME ThreadsOK, NEW t \in Threads, used' = used,
         \/ \E label : Goto(t, label)
         \/ \E result : Return(t, result)
         \/ Throw(t) \/ AfterDelete(t) \/ AfterStoreOnDisk(t) \/ ThrowFromStoreOnDisk(t)
  PROVE  Alone(t)
PROOF
  <1>1. CASE \E label : Goto(t, label)
    BY <1>1 DEF Goto, Alone, ThreadsOK, Threads
  <1>2. CASE \E result : Return(t, result)
    BY <1>2 DEF Return, Alone, ThreadsOK, Threads
  <1>3. CASE t = Worker /\ ThrowFromStoreOnDisk(t)
    BY <1>3, ThreadsAssumption DEF ThrowFromStoreOnDisk, Alone, ThreadsOK, Threads
  <1> QED BY <1>1, <1>2, <1>3 DEF Throw, AfterDelete, AfterStoreOnDisk, ThrowFromStoreOnDisk

LEMMA StoreOnDiskAlone ==
  ASSUME TypeOK, NEW t \in Threads, StoreOnDiskStep(t)
  PROVE  Alone(t)
PROOF
  <1> ThreadsOK
    BY DEF TypeOK
  <1>1. used' = used
    BY DEF StoreOnDiskStep, BeginStoreOnDisk, EndWaitForSpaceOnDisk, NoticeCancelled, PopOldest,
           DecideToWaitOnDisk, WaitOnDisk, WakeOnDisk, WriteSucceeds, WriteFails, EndCancelled,
           AbandonStoreOnDisk, clientVars
  <1>2. \/ \E label : Goto(t, label)
        \/ AfterStoreOnDisk(t) \/ ThrowFromStoreOnDisk(t)
    BY DEF StoreOnDiskStep, BeginStoreOnDisk, EndWaitForSpaceOnDisk, NoticeCancelled, PopOldest,
           DecideToWaitOnDisk, WaitOnDisk, WakeOnDisk, WriteSucceeds, WriteFails, EndCancelled,
           AbandonStoreOnDisk
  <1> QED BY <1>1, <1>2, MovesAlone

LEMMA ClientAlone ==
  ASSUME TypeOK, NEW t \in Clients, ClientStep(t)
  PROVE  Alone(t)
PROOF
  <1> ThreadsOK /\ t \in Threads
    BY ClientAt DEF TypeOK
  <1>1. CASE StoreOnDiskStep(t)
    BY <1>1, StoreOnDiskAlone
  <1>2. CASE \/ CheckWorkerIsStillRunning(t)
             \/ LockMemoryToStore(t) \/ StoreInMemory(t) \/ WaitForSpaceInMemory(t)
             \/ GiveUpStoring(t) \/ JoinWorker(t)
             \/ WaitOnMemory(t) \/ WakeOnMemory(t)
    <2>1. used' = used
      BY <1>2 DEF CheckWorkerIsStillRunning, LockMemoryToStore, StoreInMemory,
         WaitForSpaceInMemory, GiveUpStoring, JoinWorker, WaitOnMemory, WakeOnMemory, clientVars
    <2>2. Throw(t) \/ (\E label : Goto(t, label)) \/ (\E result : Return(t, result))
      BY <1>2 DEF CheckWorkerIsStillRunning, LockMemoryToStore, StoreInMemory,
         WaitForSpaceInMemory, GiveUpStoring, JoinWorker, WaitOnMemory, WakeOnMemory
    <2> QED BY <2>1, <2>2, MovesAlone
  <1>3. CASE \/ GetFromMemory(t) \/ GetSettled(t) \/ GetStarted(t)
             \/ CheckDiskMax(t) \/ SetMaxMemoryUsage(t)
             \/ CheckMemMax(t) \/ SetMaxDiskUsage(t)
    <2>1. used' = used
      BY <1>3 DEF GetFromMemory, GetSettled, GetStarted, CheckDiskMax, SetMaxMemoryUsage,
         CheckMemMax, SetMaxDiskUsage, clientVars
    <2>2. (\E label : Goto(t, label)) \/ (\E result : Return(t, result))
      BY <1>3 DEF GetFromMemory, GetSettled, GetStarted, ReadFile, CheckDiskMax,
         SetMaxMemoryUsage, CheckMemMax, SetMaxDiskUsage
    <2> QED BY <2>1, <2>2, MovesAlone
  <1>4. CASE \/ DeleteFromMemory(t) \/ DeleteFromDisk(t)
             \/ DeleteIfFromMemory(t) \/ DeleteIfFromDisk(t)
    <2>1. used' = used
      BY <1>4 DEF DeleteFromMemory, DeleteFromDisk, DeleteIfFromMemory, DeleteIfFromDisk, clientVars
    <2>2. \/ Throw(t) \/ AfterDelete(t)
          \/ (\E label : Goto(t, label)) \/ (\E result : Return(t, result))
      BY <1>4 DEF DeleteFromMemory, DeleteFromDisk, DeleteIfFromMemory, DeleteIfFromDisk
    <2> QED BY <2>1, <2>2, MovesAlone
  <1> QED BY <1>1, <1>2, <1>3, <1>4 DEF ClientStep

LEMMA WorkerAlone ==
  ASSUME TypeOK, WorkerStep
  PROVE  Alone(Worker)
PROOF
  <1> ThreadsOK /\ Worker \in Threads
    BY DEF TypeOK, Threads
  <1>1. CASE StoreOnDiskStep(Worker)
    BY <1>1, StoreOnDiskAlone
  <1>2. CASE WaitOnMemory(Worker) \/ WakeOnMemory(Worker) \/ WorkerReturns
    <2>1. used' = used /\ \E label : Goto(Worker, label)
      BY <1>2 DEF WaitOnMemory, WakeOnMemory, WorkerReturns, clientVars
    <2> QED BY <2>1, MovesAlone
  <1>3. CASE TakeOldest \/ MarkStored
    <2>1. used' = used /\ outcome' = outcome /\ due' = due
      BY <1>3 DEF TakeOldest, MarkStored, clientVars, Goto
    <2>2. /\ \E label : pc' = [pc EXCEPT ![Worker] = label]
          /\ call' = call \/ \E c : call' = [call EXCEPT ![Worker] = c]
      BY <1>3 DEF TakeOldest, MarkStored, Goto
    <2> QED BY <2>1, <2>2, ThreadsAssumption DEF Alone, ThreadsOK, Threads
  <1> QED BY <1>1, <1>2, <1>3 DEF WorkerStep

\* A key that was stored, and that no client is about to put into the buffer.
Past(k) == k \in used /\ \A t \in Storers(k) : t # Worker => Stage(t) # "before"

\* A client that has begun to write goes on, or its call ends.
LEMMA WriterGoesOn ==
  ASSUME TypeOK, NEW t \in Clients, ClientStep(t), Stage(t) # "before", call'[t].op = "Store"
  PROVE  Stage(t)' # "before"
PROOF
  <1> ThreadsOK /\ t \in Threads /\ t # Worker
    BY ClientAt DEF TypeOK
  <1>1. pc[t] \in {"spaceOnDisk", "waitOnDisk", "waitingOnDisk", "writeFile", "cancelled"}
    <2>1. pc[t] # "relockMemory"
      BY DEF ThreadsOK, LabelsOf, ClientLabels, StoreOnDiskLabels
    <2> QED BY <2>1, EarlyLabels DEF Stage
  <1>2. StoreOnDiskStep(t) /\ ~BeginStoreOnDisk(t)
    BY <1>1 DEF ClientStep, CheckWorkerIsStillRunning, LockMemoryToStore, StoreInMemory,
       WaitForSpaceInMemory, GiveUpStoring, JoinWorker, WaitOnMemory, WakeOnMemory,
       GetFromMemory, GetSettled, GetStarted, CheckDiskMax, SetMaxMemoryUsage, CheckMemMax,
       SetMaxDiskUsage, DeleteFromMemory, DeleteFromDisk, DeleteIfFromMemory, DeleteIfFromDisk,
       BeginStoreOnDisk
  <1>3. \/ \E label \in {"spaceOnDisk", "waitOnDisk", "waitingOnDisk", "writeFile", "cancelled"} :
             Goto(t, label)
        \/ \E result : Return(t, result)
    BY <1>2 DEF StoreOnDiskStep, EndWaitForSpaceOnDisk, NoticeCancelled, PopOldest,
       DecideToWaitOnDisk, WaitOnDisk, WakeOnDisk, WriteSucceeds, WriteFails, EndCancelled,
       AbandonStoreOnDisk, AfterStoreOnDisk, ThrowFromStoreOnDisk
  <1>4. ~\E result : Return(t, result)
    BY DEF Return, NoCall, ThreadsOK
  <1>5. pc'[t] \in {"spaceOnDisk", "waitOnDisk", "waitingOnDisk", "writeFile", "cancelled"}
    BY <1>3, <1>4 DEF Goto, ThreadsOK
  <1> QED BY <1>5 DEF Stage, StageAt

\* Once it is past, it stays so: nobody stores it again.
LEMMA PastStaysPast ==
  ASSUME ~ReuseKeys, TypeOK, NEW k \in Keys, Past(k), [Next]_vars
  PROVE  Past(k)'
PROOF
  <1> ThreadsOK
    BY DEF TypeOK
  <1>1. ASSUME NEW t \in Clients, NEW c \in Requests, Call(t, c) PROVE Past(k)'
    <2>1. /\ k \in used'
          /\ c.op = "Store" => c.key # k
          /\ pc' = [pc EXCEPT ![t] = FirstLabel(c)] /\ call' = [call EXCEPT ![t] = c]
      BY <1>1 DEF Call, Past
    <2>2. c.op # "Copy"
      BY EnvironmentAssumption DEF AllCalls, StoreCalls, KeyCalls, DeleteIfCalls, SetMaxCalls
    <2>3. ASSUME NEW u \in Storers(k)', u # Worker PROVE Stage(u)' # "before"
      <3>1. u \in Threads /\ call'[u].op \in {"Store", "Copy"} /\ call'[u].key = k
        BY DEF Storers
      <3>2. t \in Threads /\ call'[t] = c /\ (u # t => pc'[u] = pc[u] /\ call'[u] = call[u])
        BY <2>1, <3>1 DEF ThreadsOK, Threads
      <3>3. u # t
        BY <2>1, <2>2, <3>1, <3>2
      <3> QED BY <2>3, <3>1, <3>2, <3>3 DEF Past, Storers, Stage
    <2> QED BY <2>1, <2>3 DEF Past
  <1>2. ASSUME NEW t \in Clients, ClientStep(t) PROVE Past(k)'
    <2>1. Alone(t)
      BY <1>2, ClientAlone
    <2>2. ASSUME NEW u \in Storers(k)', u # Worker PROVE Stage(u)' # "before"
      <3>1. u \in Clients /\ call'[u].op = "Store" /\ call'[u] = call[u]
        <4>1. u \in Clients /\ call'[u] = call[u]
          BY <2>1, <2>2 DEF Storers, Threads, Alone, NoCall
        <4>2. call[u].op # "Copy"
          <5>1. pc[u] \in ClientLabels /\ u # Worker /\ call[u].op \in OpsAt(u, pc[u])
            BY <4>1, ClientAt DEF ThreadsOK, LabelsOf
          <5> QED BY <5>1 DEF OpsAt, ClientLabels, StoreOnDiskLabels
        <4> QED BY <4>1, <4>2 DEF Storers
      <3>2. Stage(u) # "before"
        BY <2>2, <3>1 DEF Past, Storers
      <3>3. CASE u = t
        BY <1>2, <3>1, <3>2, <3>3, WriterGoesOn
      <3>4. CASE u # t
        BY <2>1, <3>1, <3>2, <3>4 DEF Alone, Stage
      <3> QED BY <3>3, <3>4
    <2> QED BY <2>1, <2>2 DEF Past, Alone
  <1>3. ASSUME used' = used, \A u \in Clients : pc'[u] = pc[u] /\ call'[u] = call[u] PROVE Past(k)'
    BY <1>3 DEF Past, Storers, Stage, Threads
  <1>4. ASSUME WorkerStep PROVE Past(k)'
    BY <1>3, <1>4, WorkerAlone, ThreadsAssumption DEF Alone
  <1>5. ASSUME DestructorStep \/ UNCHANGED vars PROVE Past(k)'
    BY <1>3, <1>5 DEF DestructorStep, Destroy, NotifyWorker, EndDestroy, vars, clientVars, threadVars
  <1> QED BY <1>1, <1>2, <1>4, <1>5 DEF Next, Destroyed

\* A key that is not in memory stays out of it, unless an element with it is appended.
LEMMA StaysOut ==
  ASSUME TypeOK, NEW k, Once(mem.index, k), InMemory(k) = {},
         \/ mem'.index = mem.index
         \/ \E i \in 1 .. Len(mem.index) : mem'.index = RemoveAt(mem.index, i)
         \/ \E i \in 1 .. Len(mem.index) : \E e : Changed(mem.index, mem'.index, i, e)
         \/ \E e : Longer(mem.index, mem'.index, e) /\ e.key # k
  PROVE  InMemory(k)' = {}
PROOF
  <1>1. mem.index \in Seq(MemElements)
    BY DEF TypeOK, StoresOK, Storage
  <1>2. CASE mem'.index = mem.index
    BY <1>2 DEF InMemory
  <1>3. ASSUME NEW i \in 1 .. Len(mem.index), mem'.index = RemoveAt(mem.index, i)
        PROVE  InMemory(k)' = {}
    <2>1. ElementsOf(RemoveAt(mem.index, i), k) = {}
      BY <1>1, RemoveElement DEF InMemory
    <2> QED BY <1>3, <2>1 DEF InMemory
  <1>4. ASSUME NEW i \in 1 .. Len(mem.index), NEW e, Changed(mem.index, mem'.index, i, e)
        PROVE  InMemory(k)' = {}
    <2>1. e.key # k
      BY <1>4 DEF Changed, InMemory, ElementsOf
    <2> QED BY <1>4, <2>1, ChangeElement DEF InMemory
  <1>5. ASSUME NEW e, Longer(mem.index, mem'.index, e), e.key # k PROVE InMemory(k)' = {}
    <2>1. ElementsOf(mem'.index, k) = ElementsOf(mem.index, k)
      BY <1>5, AppendElement
    <2> QED BY <2>1 DEF InMemory
  <1> QED BY <1>2, <1>3, <1>4, <1>5

\* What evicting and deleting from memory do to the index.
LEMMA ErasedIndex ==
  ASSUME StoresOK, NEW i \in 1 .. Len(mem.index), NEW t \in Threads
  PROVE  LET r == RemoveAt(mem.index, i) IN
         /\ Erased(i).index = r /\ Locked(Erased(i), t).index = r
         /\ Notified(Erased(i)).index = r /\ Notified(Locked(Erased(i), t)).index = r
PROOF
  <1>1. Erased(i).index = RemoveAt(mem.index, i)
    BY DEF Erased, StoresOK, Storage
  <1>2. Erased(i) \in Storage(MemElements) /\ Locked(Erased(i), t) \in Storage(MemElements)
    BY ErasedType, MutexType
  <1> QED BY <1>1, <1>2, IndexKept

\* Nothing enters memory but what a Store puts there.
LEMMA NoneEnters ==
  ASSUME TypeOK, NEW k, Once(mem.index, k), InMemory(k) = {}, [Next]_vars,
         \A t \in Clients : StoreInMemory(t) => call[t].key # k
  PROVE  InMemory(k)' = {}
PROOF
  <1> /\ ThreadsOK /\ StoresOK /\ mem.index \in Seq(MemElements) /\ Worker \in Threads
      /\ \A t \in Clients : t \in Threads /\ t # Worker
    BY ClientAt DEF TypeOK, StoresOK, Storage, Threads
  <1>1. ASSUME \/ mem' \in {mem, Unlocked(mem), Notified(mem), Notified(Unlocked(mem))}
               \/ \E t \in Threads : mem' \in {Locked(mem, t), Waiting(mem, t)}
        PROVE  InMemory(k)' = {}
    <2>1. mem'.index = mem.index
      BY <1>1, MutexType, IndexKept, SMTT(30) DEF StoresOK
    <2> QED BY <2>1, StaysOut
  <1>2. ASSUME NEW i \in 1 .. Len(mem.index),
               \/ mem' \in {Erased(i), Notified(Erased(i))}
               \/ \E t \in Threads : mem' \in {Locked(Erased(i), t), Notified(Locked(Erased(i), t))}
        PROVE  InMemory(k)' = {}
    <2>1. mem'.index = RemoveAt(mem.index, i)
      BY <1>2, ErasedIndex
    <2> QED BY <2>1, StaysOut
  <1>3. ASSUME NEW t \in Threads, StoreOnDiskStep(t) PROVE InMemory(k)' = {}
    <2>1. mem' \in {mem, Unlocked(mem), Notified(mem), Notified(Unlocked(mem))}
      BY <1>3 DEF StoreOnDiskStep, BeginStoreOnDisk, EndWaitForSpaceOnDisk, NoticeCancelled,
         PopOldest, DecideToWaitOnDisk, WaitOnDisk, WakeOnDisk, WriteSucceeds, WriteFails,
         EndCancelled, AbandonStoreOnDisk
    <2> QED BY <1>1, <2>1
  <1>4. ASSUME NEW t \in Threads, WakeOnMemory(t) \/ WaitOnMemory(t) \/ WaitForSpaceInMemory(t)
        PROVE  InMemory(k)' = {}
    <2> DEFINE i == FindMemoryRemovalCandidate
    <2>1. i # 0 => i \in 1 .. Len(mem.index)
      BY SearchResults
    <2>2. \/ mem' \in {mem, Locked(mem, t), Waiting(mem, t)}
          \/ i # 0 /\ mem' \in {Erased(i), Locked(Erased(i), t)}
      BY <1>4 DEF WakeOnMemory, WaitOnMemory, WaitForSpaceInMemory
    <2> HIDE DEF i
    <2> QED BY <1>1, <1>2, <2>1, <2>2
  <1>5. ASSUME NEW t \in Clients, DeleteFromMemory(t) \/ DeleteIfFromMemory(t)
        PROVE  InMemory(k)' = {}
    <2>1. CASE DeleteFromMemory(t)
      <3> DEFINE i == Find(mem.index, call[t].key)
      <3>1. i # 0 => i \in 1 .. Len(mem.index)
        BY FindResult
      <3>2. mem' = IF i = 0 THEN mem ELSE Notified(Erased(i))
        BY <2>1 DEF DeleteFromMemory
      <3> HIDE DEF i
      <3> QED BY <1>1, <1>2, <3>1, <3>2
    <2>2. CASE DeleteIfFromMemory(t)
      <3> DEFINE i == FindAnyOf(mem.index, call[t].keys)
      <3>1. i # 0 => i \in 1 .. Len(mem.index)
        BY FindAnyElement
      <3>2. mem' = Unlocked(mem) \/ (i # 0 /\ mem' = Notified(Locked(Erased(i), t)))
        BY <2>2 DEF DeleteIfFromMemory
      <3> HIDE DEF i
      <3> QED BY <1>1, <1>2, <3>1, <3>2
    <2> QED BY <1>5, <2>1, <2>2
  <1>6. ASSUME NEW t \in Clients, StoreInMemory(t) PROVE InMemory(k)' = {}
    <2>1. call[t].op = "Store" /\ call[t].key \in Keys /\ call[t].value \in Values
      BY <1>6, ClientAt, CallShape DEF StoreInMemory
    <2>2. Inserted(t) \in Storage(MemElements) /\ Unlocked(Inserted(t)) \in Storage(MemElements)
      BY <1>6, InsertedType, MutexType DEF StoreInMemory
    <2>3. mem'.index = Inserted(t).index
      BY <1>6, <2>2, IndexKept DEF StoreInMemory
    <2>4. PICK e : e = [key |-> call[t].key, value |-> call[t].value, state |-> "notStarted"]
      OBVIOUS
    <2>5. mem'.index = Append(mem.index, e)
      BY <2>3, <2>4 DEF Inserted, StoresOK, Storage
    <2>6. e.key # k
      BY <1>6, <2>4
    <2>7. e \in MemElements
      BY <2>1, <2>4 DEF MemElements, States
    <2>8. Longer(mem.index, mem'.index, e)
      BY <2>5, <2>7 DEF Longer
    <2> QED BY <2>6, <2>8, StaysOut
  <1>7. ASSUME NEW t \in Clients,
               \/ CheckWorkerIsStillRunning(t) \/ LockMemoryToStore(t) \/ GiveUpStoring(t)
               \/ JoinWorker(t) \/ GetFromMemory(t) \/ GetSettled(t) \/ GetStarted(t)
               \/ DeleteFromDisk(t) \/ DeleteIfFromDisk(t)
               \/ CheckDiskMax(t) \/ CheckMemMax(t) \/ SetMaxDiskUsage(t)
        PROVE  InMemory(k)' = {}
    <2>1. mem' \in {mem, Unlocked(mem), Locked(mem, t)}
      BY <1>7 DEF CheckWorkerIsStillRunning, LockMemoryToStore, GiveUpStoring, JoinWorker,
         GetFromMemory, GetSettled, GetStarted, DeleteFromDisk, DeleteIfFromDisk, CheckDiskMax,
         CheckMemMax, SetMaxDiskUsage
    <2> QED BY <1>1, <2>1
  <1>8. ASSUME NEW t \in Clients, SetMaxMemoryUsage(t) PROVE InMemory(k)' = {}
    <2>1. mem'.index = mem.index
      BY <1>8 DEF SetMaxMemoryUsage, Notified, Unlocked, StoresOK, Storage
    <2> QED BY <2>1, StaysOut
  <1>9. ASSUME TakeOldest \/ MarkStored PROVE InMemory(k)' = {}
    <2>1. PICK i \in 0 .. Len(mem.index), state \in States :
            mem' \in {Locked(Marked(mem, i, state), Worker), Notified(Marked(mem, i, state))}
      BY <1>9, SearchResults, FindResult DEF TakeOldest, MarkStored, States
    <2>2. mem'.index = Marked(mem, i, state).index
      BY <2>1, MarkedType, IndexKept DEF StoresOK
    <2>3. CASE i = 0
      BY <2>2, <2>3, StaysOut DEF Marked
    <2>4. CASE i # 0
      <3>1. i \in 1 .. Len(mem.index)
        BY <2>4
      <3>2. \E e : Changed(mem.index, mem'.index, i, e)
        BY <2>2, <3>1, MarkElement DEF StoresOK
      <3> QED BY <3>1, <3>2, StaysOut
    <2> QED BY <2>3, <2>4
  <1>10. ASSUME NEW t \in Clients, ClientStep(t) PROVE InMemory(k)' = {}
    BY <1>3, <1>4, <1>5, <1>6, <1>7, <1>8, <1>10 DEF ClientStep
  <1>11. ASSUME WorkerStep PROVE InMemory(k)' = {}
    BY <1>1, <1>3, <1>4, <1>9, <1>11 DEF WorkerStep, WorkerReturns
  <1>12. ASSUME DestructorStep \/ UNCHANGED vars PROVE InMemory(k)' = {}
    BY <1>1, <1>12 DEF DestructorStep, Destroy, NotifyWorker, EndDestroy, vars
  <1>13. ASSUME NEW t \in Clients, NEW c \in Requests, Call(t, c) PROVE InMemory(k)' = {}
    BY <1>1, <1>13 DEF Call
  <1> QED BY <1>10, <1>11, <1>12, <1>13 DEF Next, Destroyed

\* A key out of memory that is past stays out of it.
LEMMA PastStaysOut ==
  ASSUME Sane, NEW k \in Keys, Past(k), InMemory(k) = {}, [Next]_vars
  PROVE  InMemory(k)' = {}
PROOF
  <1> TypeOK /\ ThreadsOK /\ Once(mem.index, k)
    BY DEF Sane, TypeOK, AllCoherent, Coherent
  <1>1. ASSUME NEW t \in Clients, StoreInMemory(t) PROVE call[t].key # k
    <2>1. t \in Threads /\ t # Worker /\ pc[t] = "spaceInMemory" /\ call[t].op = "Store"
      BY <1>1, ClientAt DEF StoreInMemory
    <2>2. Stage(t) = "before"
      BY <2>1, EarlyLabels DEF Stage
    <2> QED BY <2>1, <2>2 DEF Past, Storers
  <1> QED BY <1>1, NoneEnters

\* A key that is held is past.
LEMMA HeldIsPast ==
  ASSUME TypeOK, NEW k \in Keys, Coherent(k), Held(k) # NoValue
  PROVE  Past(k)
PROOF
  <1>1. HeldBy(Held(k), InMemory(k), OnDisk(k), files[k], Storing(k), call)
    BY HeldIs DEF Coherent
  <1>2. InMemory(k) # {} \/ OnDisk(k) # {}
    BY <1>1 DEF HeldBy
  <1>3. k \in used
    BY <1>2 DEF Coherent
  <1>4. ASSUME NEW t \in Storers(k), t # Worker, Stage(t) = "before" PROVE FALSE
    BY <1>2, <1>4 DEF Coherent
  <1> QED BY <1>3, <1>4 DEF Past

\* Past the memory index.
Beyond == {"getFromDisk", "waitingToGet", "deleteFromDisk"}

\* What is known of the key of a Get or a Delete that found it held when it was called.
DueOf(t, k) ==
  /\ Past(k)
  /\ pc[t] \in Beyond => InMemory(k) = {}
  /\ call[t].op = "Get" /\ running /\ ~DiskMayFail /\ k \notin condemned \cup popped =>
       Held(k) # NoValue
DueOK ==
  \A t \in Clients, k \in Keys :
    due[t] # NoValue => /\ call[t].op \in {"Get", "Delete"}
                        /\ call[t].key = k => DueOf(t, k)
\* The worker's future is ready only once it has ended.
Ended == future # "active" => pc[Worker] = "exited"

\* Only in two ways does a call go past the memory index.
LEMMA GoesBeyond ==
  ASSUME ThreadsOK, NEW t \in Clients, ClientStep(t), pc'[t] \in Beyond
  PROVE  GetFromMemory(t) \/ GetStarted(t) \/ DeleteFromMemory(t)
PROOF
  <1> t \in Threads /\ t # Worker
    BY ClientAt
  <1>1. ASSUME NEW label, Goto(t, label), label \notin Beyond PROVE FALSE
    BY <1>1 DEF Goto, ThreadsOK
  <1>2. ASSUME NEW result, Return(t, result) PROVE FALSE
    BY <1>2 DEF Return, ThreadsOK, Beyond
  <1>3. ASSUME StoreOnDiskStep(t) PROVE FALSE
    <2>1. \/ \E label \in {"spaceOnDisk", "writeFile", "cancelled", "waitOnDisk", "waitingOnDisk"} :
               Goto(t, label)
          \/ \E result : Return(t, result)
      BY <1>3 DEF StoreOnDiskStep, BeginStoreOnDisk, EndWaitForSpaceOnDisk, NoticeCancelled,
         PopOldest, DecideToWaitOnDisk, WaitOnDisk, WakeOnDisk, WriteSucceeds, WriteFails,
         EndCancelled, AbandonStoreOnDisk, AfterStoreOnDisk, ThrowFromStoreOnDisk
    <2> QED BY <1>1, <1>2, <2>1 DEF Beyond
  <1>4. ASSUME \/ CheckWorkerIsStillRunning(t)
               \/ LockMemoryToStore(t) \/ StoreInMemory(t) \/ WaitForSpaceInMemory(t)
               \/ GiveUpStoring(t) \/ JoinWorker(t)
               \/ WaitOnMemory(t) \/ WakeOnMemory(t)
        PROVE  FALSE
    <2>1. \/ \E label \in {"recheck", "lockMemory", "deleteFromMemory", "deleteIfFromMemory",
                           "getFromMemory", "lockDisk", "spaceInMemory", "waitOnMemory",
                           "joinWorker", "waitingOnMemory", "findOldest"} : Goto(t, label)
          \/ \E result : Return(t, result)
      BY <1>4 DEF CheckWorkerIsStillRunning, AfterCheck, Throw, LockMemoryToStore, StoreInMemory,
         WaitForSpaceInMemory, GiveUpStoring, JoinWorker, WaitOnMemory, WakeOnMemory
    <2> QED BY <1>1, <1>2, <2>1 DEF Beyond
  <1>5. ASSUME \/ GetSettled(t) \/ DeleteFromDisk(t)
               \/ DeleteIfFromMemory(t) \/ DeleteIfFromDisk(t)
               \/ CheckDiskMax(t) \/ SetMaxMemoryUsage(t)
               \/ CheckMemMax(t) \/ SetMaxDiskUsage(t)
        PROVE  FALSE
    <2>1. \/ \E label \in {"recheck", "deleteIfFromMemory", "deleteIfFromDisk", "setMemMax",
                           "setDiskMax"} : Goto(t, label)
          \/ \E result : Return(t, result)
      BY <1>5 DEF GetSettled, ReadFile, DeleteFromDisk, Throw, AfterDelete, DeleteIfFromMemory,
         DeleteIfFromDisk, CheckDiskMax, SetMaxMemoryUsage, CheckMemMax, SetMaxDiskUsage
    <2> QED BY <1>1, <1>2, <2>1 DEF Beyond
  <1> QED BY <1>3, <1>4, <1>5 DEF ClientStep

\* Going past the memory index leaves nothing behind in it.
LEMMA NothingBehind ==
  ASSUME Sane, NEW t \in Clients, ClientStep(t), pc'[t] \in Beyond,
         NEW k \in Keys, call[t].key = k, pc[t] \in Beyond => InMemory(k)' = {}
  PROVE  InMemory(k)' = {}
PROOF
  <1> /\ TypeOK /\ ThreadsOK /\ StoresOK /\ Coherent(k) /\ mem.index \in Seq(MemElements)
      /\ t \in Threads
    BY ClientAt DEF Sane, TypeOK, StoresOK, Storage, AllCoherent
  <1>1. CASE GetStarted(t)
    BY <1>1 DEF GetStarted, Beyond
  <1>2. CASE GetFromMemory(t)
    <2>1. Find(mem.index, k) = 0 /\ mem' = mem
      BY <1>2 DEF GetFromMemory, Return, ThreadsOK, Beyond
    <2> QED BY <2>1, FindElement DEF InMemory
  <1>3. CASE DeleteFromMemory(t)
    <2> DEFINE i == Find(mem.index, k)
    <2>1. mem' = IF i = 0 THEN mem ELSE Notified(Erased(i))
      BY <1>3 DEF DeleteFromMemory
    <2>2. i # 0 => i \in 1 .. Len(mem.index) /\ mem.index[i].key = k
      BY FindResult
    <2>3. i = 0 => InMemory(k) = {}
      BY FindElement DEF InMemory
    <2> HIDE DEF i
    <2>4. CASE i = 0
      BY <2>1, <2>3, <2>4 DEF InMemory
    <2>5. CASE i # 0
      <3>1. mem'.index = RemoveAt(mem.index, i)
        BY <2>1, <2>2, <2>5, ErasedIndex
      <3>2. ElementsOf(RemoveAt(mem.index, i), k) = {}
        BY <2>2, <2>5, RemoveElement DEF Coherent
      <3> QED BY <3>1, <3>2 DEF InMemory
    <2> QED BY <2>4, <2>5
  <1> QED BY <1>1, <1>2, <1>3, GoesBeyond

\* What is held stays held, unless it is deleted or popped or the buffer is stopped.
LEMMA HeldStays ==
  ASSUME Served, ~DiskMayFail, condemned \subseteq condemned', running',
         NEW k \in Keys, k \notin condemned' \cup popped', Held(k) # NoValue
  PROVE  running /\ k \notin condemned \cup popped /\ Held(k)' # NoValue
PROOF
  <1>1. StillHeld \/ \E q \in Keys : Accepted(q) \/ Lost(q) \/ Popped(q)
    BY DEF Served, Stopped, Retracted
  <1>2. CASE StillHeld
    BY <1>2 DEF StillHeld
  <1>3. ASSUME NEW q \in Keys, Accepted(q)
        PROVE  running /\ k \notin condemned \cup popped /\ Held(k)' # NoValue
    BY <1>3 DEF Accepted, Others
  <1>4. ASSUME NEW q \in Keys, Lost(q)
        PROVE  running /\ k \notin condemned \cup popped /\ Held(k)' # NoValue
    BY <1>4 DEF Lost, Others
  <1>5. ASSUME NEW q \in Keys, Popped(q)
        PROVE  running /\ k \notin condemned \cup popped /\ Held(k)' # NoValue
    BY <1>5 DEF Popped, Others
  <1> QED BY <1>1, <1>2, <1>3, <1>4, <1>5

\* A client's call, of a key that is held.
LEMMA DueAtCall ==
  ASSUME ~ReuseKeys, Sane, TypeOK', NEW t \in Clients, NEW c \in Requests, Call(t, c),
         [Next]_vars, due'[t] # NoValue, NEW k \in Keys
  PROVE  call'[t].op \in {"Get", "Delete"} /\ (call'[t].key = k => DueOf(t, k)')
PROOF
  <1> TypeOK /\ ThreadsOK /\ t \in Threads
    BY ClientAt DEF Sane, TypeOK
  <1>1. call'[t] = c /\ pc'[t] = FirstLabel(c) /\ mem' = mem
    BY DEF Call, ThreadsOK
  <1>2. due'[t] = IF c.op \in {"Get", "Delete"} THEN Held(c.key) ELSE NoValue
    BY DEF Call, ThreadsOK
  <1>3. c.op \in {"Get", "Delete"}
    BY <1>2
  <1>4. ASSUME c.key = k PROVE DueOf(t, k)'
    <2>1. Held(k) # NoValue /\ Held(k)' = Held(k)
      <3>1. HeldNow'[k] = HeldNow[k]
        BY CallsHold
      <3> QED BY <1>2, <1>3, <1>4, <3>1 DEF HeldNow
    <2>2. Past(k)'
      BY <2>1, HeldIsPast, PastStaysPast DEF Sane, AllCoherent
    <2>3. pc'[t] \notin Beyond
      BY <1>1, <1>3 DEF FirstLabel, Beyond
    <2> QED BY <2>1, <2>2, <2>3 DEF DueOf
  <1> QED BY <1>1, <1>3, <1>4

\* A step of its own or of another thread, in a call that goes on.
LEMMA DueGoesOn ==
  ASSUME ~ReuseKeys, Sane, TypeOK', NEW t \in Clients, NEW k \in Keys, [Next]_vars,
         condemned \subseteq condemned', call'[t] = call[t], call[t].key = k, DueOf(t, k),
         pc'[t] = pc[t] \/ ClientStep(t)
  PROVE  DueOf(t, k)'
PROOF
  <1>1. Past(k)'
    BY PastStaysPast DEF DueOf, Sane
  <1>2. pc[t] \in Beyond => InMemory(k)' = {}
    BY PastStaysOut DEF DueOf
  <1>3. pc'[t] \in Beyond => InMemory(k)' = {}
    BY <1>2, NothingBehind
  <1>4. ASSUME call[t].op = "Get", running', ~DiskMayFail, k \notin condemned' \cup popped'
        PROVE  Held(k)' # NoValue
    <2>1. Served
      BY ServedStep
    <2>2. Held(k) # NoValue
      <3>1. running /\ k \notin condemned \cup popped
        <4>1. StillHeld \/ \E q \in Keys : Accepted(q) \/ Lost(q) \/ Popped(q) \/ Retracted(q)
          BY <1>4, <2>1 DEF Served, Stopped
        <4>2. running = running' /\ popped \subseteq popped'
          BY <4>1 DEF StillHeld, Accepted, Lost, Popped, Retracted
        <4> QED BY <1>4, <4>2
      <3> QED BY <1>4, <3>1 DEF DueOf
    <2> QED BY <1>4, <2>1, <2>2, HeldStays
  <1> QED BY <1>1, <1>3, <1>4 DEF DueOf

LEMMA DueStep ==
  ASSUME ~ReuseKeys, Sane, TypeOK', DueOK, [Next]_vars
  PROVE  DueOK'
PROOF
  <1> /\ TypeOK /\ ThreadsOK /\ due \in [Clients -> Values \cup {NoValue}]
      /\ \A t \in Clients : t \in Threads /\ t # Worker
    BY ClientAt DEF Sane, TypeOK, ThreadsOK
  <1> SUFFICES ASSUME NEW t \in Clients, NEW k \in Keys, due'[t] # NoValue
               PROVE  call'[t].op \in {"Get", "Delete"} /\ (call'[t].key = k => DueOf(t, k)')
    BY DEF DueOK
  <1>1. ASSUME condemned \subseteq condemned', call'[t] = call[t], due'[t] = due[t],
               pc'[t] = pc[t] \/ ClientStep(t)
        PROVE  call'[t].op \in {"Get", "Delete"} /\ (call'[t].key = k => DueOf(t, k)')
    BY <1>1, DueGoesOn DEF DueOK
  <1>2. ASSUME NEW u \in Clients, NEW c \in Requests, Call(u, c)
        PROVE  call'[t].op \in {"Get", "Delete"} /\ (call'[t].key = k => DueOf(t, k)')
    <2>1. CASE u = t
      BY <1>2, <2>1, DueAtCall
    <2>2. CASE u # t
      <3>1. /\ condemned \subseteq condemned'
            /\ call'[t] = call[t] /\ due'[t] = due[t] /\ pc'[t] = pc[t]
        BY <1>2, <2>2 DEF Call, ThreadsOK
      <3> QED BY <1>1, <3>1
    <2> QED BY <2>1, <2>2
  <1>3. ASSUME NEW u \in Clients, ClientStep(u)
        PROVE  call'[t].op \in {"Get", "Delete"} /\ (call'[t].key = k => DueOf(t, k)')
    <2>1. Alone(u) /\ condemned' = condemned
      BY <1>3, ClientAlone, ClientKeeps DEF ClientsKept
    <2>2. call'[t] = call[t] /\ due'[t] = due[t] /\ (pc'[t] = pc[t] \/ u = t)
      BY <2>1 DEF Alone
    <2> QED BY <1>1, <1>3, <2>1, <2>2
  <1>4. ASSUME WorkerStep
        PROVE  call'[t].op \in {"Get", "Delete"} /\ (call'[t].key = k => DueOf(t, k)')
    <2>1. Alone(Worker) /\ condemned' = condemned
      BY <1>4, WorkerAlone, WorkerKeeps DEF ClientsKept
    <2> QED BY <1>1, <2>1 DEF Alone
  <1>5. ASSUME DestructorStep \/ UNCHANGED vars
        PROVE  call'[t].op \in {"Get", "Delete"} /\ (call'[t].key = k => DueOf(t, k)')
    <2>1. condemned' = condemned /\ UNCHANGED threadVars
      BY <1>5 DEF DestructorStep, Destroy, NotifyWorker, EndDestroy, vars, clientVars
    <2> QED BY <1>1, <2>1 DEF threadVars
  <1> QED BY <1>2, <1>3, <1>4, <1>5 DEF Next, Destroyed

\* No thread moves the worker, and it does not move from where it ended.
LEMMA EndedStep ==
  ASSUME TypeOK, Ended, [Next]_vars
  PROVE  Ended'
PROOF
  <1> ThreadsOK /\ Worker \in Threads /\ \A u \in Clients : u \in Threads /\ u # Worker
    BY ClientAt DEF TypeOK, Threads
  <1>1. ASSUME NEW t \in Threads, StoreOnDiskStep(t)
        PROVE  \/ future' = future /\ pc[t] # "exited"
               \/ t = Worker /\ pc'[Worker] = "exited"
    <2>1. pc[t] # "exited"
      BY <1>1 DEF StoreOnDiskStep, BeginStoreOnDisk, EndWaitForSpaceOnDisk, NoticeCancelled,
         PopOldest, DecideToWaitOnDisk, WaitOnDisk, WakeOnDisk, WriteSucceeds, WriteFails,
         EndCancelled, AbandonStoreOnDisk
    <2>2. future' = future \/ ThrowFromStoreOnDisk(t)
      BY <1>1 DEF StoreOnDiskStep, BeginStoreOnDisk, EndWaitForSpaceOnDisk, NoticeCancelled,
         PopOldest, DecideToWaitOnDisk, WaitOnDisk, WakeOnDisk, WriteSucceeds, WriteFails,
         EndCancelled, AbandonStoreOnDisk, workerVars
    <2> QED BY <2>1, <2>2 DEF ThrowFromStoreOnDisk, ThreadsOK
  <1>2. ASSUME NEW t \in Clients, ClientStep(t) PROVE Ended'
    <2>1. pc'[Worker] = pc[Worker]
      BY <1>2, ClientAlone DEF Alone
    <2>2. future' = future \/ future # "active"
      <3>1. CASE StoreOnDiskStep(t)
        BY <1>1, <3>1
      <3>2. CASE ~StoreOnDiskStep(t)
        BY <1>2, <3>2 DEF ClientStep, CheckWorkerIsStillRunning, LockMemoryToStore, StoreInMemory,
           WaitForSpaceInMemory, GiveUpStoring, JoinWorker, WaitOnMemory, WakeOnMemory,
           GetFromMemory, GetSettled, GetStarted, CheckDiskMax, SetMaxMemoryUsage, CheckMemMax,
           SetMaxDiskUsage, DeleteFromMemory, DeleteFromDisk, DeleteIfFromMemory,
           DeleteIfFromDisk, workerVars
      <3> QED BY <3>1, <3>2
    <2> QED BY <2>1, <2>2 DEF Ended
  <1>3. ASSUME WorkerStep PROVE Ended'
    <2>1. CASE StoreOnDiskStep(Worker)
      BY <1>1, <2>1 DEF Ended
    <2>2. CASE TakeOldest \/ MarkStored \/ WaitOnMemory(Worker) \/ WakeOnMemory(Worker)
      <3>1. future' = future /\ pc[Worker] # "exited"
        BY <2>2 DEF TakeOldest, MarkStored, WaitOnMemory, WakeOnMemory, workerVars
      <3> QED BY <3>1 DEF Ended
    <2>3. CASE WorkerReturns
      BY <2>3 DEF WorkerReturns, Goto, ThreadsOK, Ended
    <2> QED BY <1>3, <2>1, <2>2, <2>3 DEF WorkerStep
  <1>4. ASSUME NEW t \in Clients, NEW c \in Requests, Call(t, c) PROVE Ended'
    <2>1. future' = future /\ pc'[Worker] = pc[Worker]
      BY <1>4 DEF Call, workerVars, ThreadsOK
    <2> QED BY <2>1 DEF Ended
  <1>5. ASSUME DestructorStep \/ UNCHANGED vars PROVE Ended'
    <2>1. pc' = pc /\ (future' = future \/ future # "active")
      BY <1>5 DEF DestructorStep, Destroy, NotifyWorker, EndDestroy, vars, workerVars, threadVars
    <2> QED BY <2>1 DEF Ended
  <1> QED BY <1>2, <1>3, <1>4, <1>5 DEF Next, Destroyed

\* A call returns by a step of its own client, where its operation has it.
LEMMA ReturnsWhere ==
  ASSUME TypeOK, [Next]_vars, NEW t \in Clients, NEW op \in {"Get", "Delete"}, Returning(t, op)
  PROVE  /\ call[t].key \in Keys
         /\ op = "Get" => \/ CheckWorkerIsStillRunning(t)
                          \/ GetFromMemory(t) \/ GetSettled(t) \/ GetStarted(t)
         /\ op = "Delete" => \/ CheckWorkerIsStillRunning(t)
                             \/ DeleteFromMemory(t) \/ DeleteFromDisk(t)
PROOF
  <1> /\ ThreadsOK /\ t \in Threads /\ t # Worker
      /\ call[t].op = op /\ pc[t] # "idle" /\ pc'[t] = "idle"
    BY ClientAt DEF TypeOK, Returning
  <1>1. call[t].key \in Keys
    BY CallShape
  <1>2. /\ op = "Get" => pc[t] \in {"check", "getFromMemory", "getFromDisk", "waitingToGet"}
        /\ op = "Delete" => pc[t] \in {"check", "deleteFromMemory", "deleteFromDisk"}
    <2>1. op \in OpsAt(t, pc[t]) /\ pc[t] \in ClientLabels
      BY ClientAt DEF ThreadsOK, LabelsOf
    <2> QED BY <2>1 DEF OpsAt, ClientLabels, StoreOnDiskLabels
  <1>3. ClientStep(t)
    <2>1. ASSUME NEW u \in Clients, NEW c \in Requests, Call(u, c) PROVE FALSE
      <3>1. pc[u] = "idle" /\ pc' = [pc EXCEPT ![u] = FirstLabel(c)]
        BY <2>1 DEF Call
      <3> QED BY <3>1 DEF ThreadsOK
    <2>2. ASSUME NEW u \in Clients, ClientStep(u) PROVE u = t
      BY <2>2, ClientAlone DEF Alone
    <2>3. ~WorkerStep
      BY WorkerAlone DEF Alone
    <2>4. ~(DestructorStep \/ UNCHANGED vars)
      BY DEF DestructorStep, Destroy, NotifyWorker, EndDestroy, vars, threadVars
    <2> QED BY <2>1, <2>2, <2>3, <2>4 DEF Next, Destroyed
  <1>4. ~StoreOnDiskStep(t)
    BY <1>2 DEF StoreOnDiskStep, BeginStoreOnDisk, EndWaitForSpaceOnDisk, NoticeCancelled,
       PopOldest, DecideToWaitOnDisk, WaitOnDisk, WakeOnDisk, WriteSucceeds, WriteFails,
       EndCancelled, AbandonStoreOnDisk
  <1>5. ~ \/ LockMemoryToStore(t) \/ StoreInMemory(t) \/ WaitForSpaceInMemory(t)
          \/ GiveUpStoring(t) \/ JoinWorker(t) \/ WaitOnMemory(t) \/ WakeOnMemory(t)
          \/ DeleteIfFromMemory(t) \/ DeleteIfFromDisk(t) \/ CheckDiskMax(t)
          \/ SetMaxMemoryUsage(t) \/ CheckMemMax(t) \/ SetMaxDiskUsage(t)
    BY <1>2 DEF LockMemoryToStore, StoreInMemory, WaitForSpaceInMemory, GiveUpStoring, JoinWorker,
       WaitOnMemory, WakeOnMemory, DeleteIfFromMemory, DeleteIfFromDisk, CheckDiskMax,
       SetMaxMemoryUsage, CheckMemMax, SetMaxDiskUsage
  <1>6. /\ op = "Get" => ~DeleteFromMemory(t) /\ ~DeleteFromDisk(t)
        /\ op = "Delete" => ~GetFromMemory(t) /\ ~GetSettled(t) /\ ~GetStarted(t)
    BY <1>2 DEF GetFromMemory, GetSettled, GetStarted, DeleteFromMemory, DeleteFromDisk
  <1> QED BY <1>1, <1>3, <1>4, <1>5, <1>6 DEF ClientStep

\* CheckWorkerIsStillRunning ends a call only with an exception, of a buffer that was stopped
\* or of a worker that ended with one.
LEMMA CheckReturns ==
  ASSUME ThreadsOK, NEW t \in Clients, CheckWorkerIsStillRunning(t), pc'[t] = "idle"
  PROVE  outcome'[t] = "threw" /\ (future = "threw" \/ ~running)
PROOF
  <1>1. t \in DOMAIN pc /\ t \in DOMAIN outcome
    BY ClientAt DEF ThreadsOK
  <1>2. ~Goto(t, AfterCheck(t)) /\ ~Goto(t, "recheck")
    BY <1>1 DEF Goto, AfterCheck
  <1>3. Throw(t) /\ (future = "threw" \/ ~running)
    BY <1>2 DEF CheckWorkerIsStillRunning
  <1> QED BY <1>1, <1>2, <1>3 DEF Throw, Return

\* A Get of a key that is held does not throw.
LEMMA GetFinds ==
  ASSUME Sane, DueOK, Ended, [Next]_vars, NEW t \in Clients, Returning(t, "Get"),
         due[t] # NoValue, call[t].key \notin condemned \cup popped,
         ~DiskMayFail, running, pc[Worker] # "exited"
  PROVE  outcome'[t] # "threw"
PROOF
  <1> TypeOK /\ ThreadsOK /\ t \in DOMAIN pc /\ t \in DOMAIN outcome
    BY ClientAt DEF Sane, TypeOK, ThreadsOK
  <1> SUFFICES ASSUME outcome'[t] = "threw" PROVE FALSE
    OBVIOUS
  <1>1. pc'[t] = "idle" /\ call[t].op = "Get"
    BY DEF Returning
  <1>2. PICK k \in Keys : call[t].key = k
    BY ReturnsWhere
  <1>3. Coherent(k) /\ DueOf(t, k) /\ Held(k) # NoValue
    <2>1. DueOf(t, k)
      BY <1>2 DEF DueOK
    <2> QED BY <1>1, <1>2, <2>1 DEF DueOf, Sane, AllCoherent
  <1>4. "threw" \notin Values
    BY DataAssumption
  <1>5. CASE CheckWorkerIsStillRunning(t)
    BY <1>1, <1>5, CheckReturns DEF Ended
  <1>6. CASE GetFromMemory(t)
    <2> DEFINE i == Find(mem.index, k)
    <2>1. i # 0 /\ outcome'[t] = mem.index[i].value
      BY <1>1, <1>2, <1>6 DEF GetFromMemory, Goto, Return
    <2>2. i \in 1 .. Len(mem.index) /\ mem.index \in Seq(MemElements)
      BY <2>1, FindResult DEF TypeOK, StoresOK, Storage
    <2>3. mem.index[i] \in MemElements
      BY <2>2
    <2> HIDE DEF i
    <2> QED BY <1>4, <2>1, <2>3 DEF MemElements
  <1>7. CASE GetSettled(t)
    <2> DEFINE i == Find(disk.index, k)
    <2>1. InMemory(k) = {} /\ disk.index \in Seq(DiskElements)
      BY <1>3, <1>7 DEF DueOf, GetSettled, Beyond, TypeOK, StoresOK, Storage
    <2>2. HeldBy(Held(k), InMemory(k), OnDisk(k), files[k], Storing(k), call)
      BY <1>3, HeldIs DEF Coherent
    <2>3. (i = 0 => OnDisk(k) = {}) /\ (i # 0 => disk.index[i] \in OnDisk(k))
      BY <2>1, FindElement DEF OnDisk
    <2>4. i # 0 /\ disk.index[i].state # "cancelled"
      BY <1>3, <2>1, <2>2, <2>3 DEF HeldBy
    <2>5. disk.index[i].state = "completed" /\ ReadFile(t)
      BY <1>2, <1>7, <2>4 DEF GetSettled
    <2>6. files[k] # NoValue /\ files[k] \in Values
      BY <1>3, <2>3, <2>4, <2>5 DEF Coherent, TypeOK, DirectoryOK
    <2>7. outcome'[t] = files[k]
      BY <1>2, <2>5, <2>6 DEF ReadFile, Return
    <2> QED BY <1>4, <2>6, <2>7
  <1>8. CASE GetStarted(t)
    <2>1. moving[k] # NoValue /\ outcome'[t] = moving[k]
      BY <1>1, <1>2, <1>8 DEF GetStarted, Goto, Return
    <2> QED BY <1>4, <2>1 DEF TypeOK, DirectoryOK
  <1> QED BY <1>5, <1>6, <1>7, <1>8, ReturnsWhere

\* A Delete that is done with a key that was held leaves nothing of it.
LEMMA DeleteLeaves ==
  ASSUME Sane, TypeOK', AllCoherent', DueOK, [Next]_vars, NEW t \in Clients,
         Returning(t, "Delete"), due[t] # NoValue, outcome'[t] = "done",
         NEW k \in Keys, call[t].key = k
  PROVE  Held(k)' = NoValue
PROOF
  <1> /\ TypeOK /\ ThreadsOK /\ StoresOK /\ mem.index \in Seq(MemElements)
      /\ disk.index \in Seq(DiskElements) /\ t \in DOMAIN pc /\ t \in DOMAIN outcome
      /\ t \in Threads
    BY ClientAt DEF Sane, TypeOK, ThreadsOK, StoresOK, Storage
  <1>1. pc'[t] = "idle" /\ call[t].op = "Delete"
    BY DEF Returning
  <1>2. Coherent(k) /\ DueOf(t, k)
    BY DEF DueOK, Sane, AllCoherent
  <1>3. HeldBy(Held(k)', InMemory(k)', OnDisk(k)', files'[k], Storing(k)', call')
    BY HeldIs DEF AllCoherent, Coherent
  <1>4. ~CheckWorkerIsStillRunning(t) /\ ~Throw(t)
    BY <1>1, CheckReturns DEF Throw, Return
  <1>5. CASE DeleteFromMemory(t)
    <2> DEFINE i == Find(mem.index, k)
    <2>1. OnlyInMemory(i) /\ mem' = Notified(Erased(i)) /\ disk' = disk
      BY <1>1, <1>5 DEF DeleteFromMemory, Goto, OnlyInMemory
    <2>2. i \in 1 .. Len(mem.index) /\ mem.index[i].key = k /\ mem.index[i] \in InMemory(k)
      BY <2>1, FindResult, FindElement DEF OnlyInMemory, InMemory
    <2> HIDE DEF i
    <2>3. OnDisk(k)' = {}
      BY <1>2, <2>1, <2>2 DEF Coherent, OnlyInMemory, OnDisk
    <2>4. InMemory(k)' = {}
      <3>1. mem'.index = RemoveAt(mem.index, i)
        BY <2>1, <2>2, ErasedIndex
      <3>2. ElementsOf(RemoveAt(mem.index, i), k) = {}
        BY <1>2, <2>2, RemoveElement DEF Coherent
      <3> QED BY <3>1, <3>2 DEF InMemory
    <2> QED BY <1>3, <2>3, <2>4 DEF HeldBy
  <1>6. CASE DeleteFromDisk(t)
    <2> DEFINE i == Find(disk.index, k)
    <2>1. InMemory(k)' = {}
      BY <1>2, <1>6 DEF DueOf, Beyond, DeleteFromDisk, InMemory
    <2>2. \/ i # 0 /\ disk' = Notified(Marked(disk, i, "cancelled"))
          \/ i # 0 /\ files[k] # NoValue /\ disk' = Notified(WithoutFile(i))
      BY <1>4, <1>6 DEF DeleteFromDisk
    <2>3. i \in 1 .. Len(disk.index) /\ disk.index[i].key = k
      BY <2>2, FindResult
    <2> HIDE DEF i
    <2>4. CASE disk' = Notified(Marked(disk, i, "cancelled"))
      <3>1. disk'.index = Marked(disk, i, "cancelled").index
        BY <2>3, <2>4, MarkedType, IndexKept DEF StoresOK, States
      <3>2. PICK e : e = [disk.index[i] EXCEPT !.state = "cancelled"]
        OBVIOUS
      <3>3. e.key = k /\ e.state = "cancelled"
        <4>1. disk.index[i] \in DiskElements
          BY <2>3
        <4> QED BY <2>3, <3>2, <4>1 DEF DiskElements
      <3>4. Changed(disk.index, disk'.index, i, e)
        BY <2>3, <3>1, <3>2, MarkElement DEF StoresOK
      <3>5. OnDisk(k)' = {e}
        BY <1>2, <3>3, <3>4, ChangeElement DEF OnDisk, Coherent
      <3> QED BY <1>3, <2>1, <3>3, <3>5 DEF HeldBy
    <2>5. CASE files[k] # NoValue /\ disk' = Notified(WithoutFile(i))
      <3>1. WithoutFile(i) \in Storage(DiskElements)
        BY <2>3, <2>5, WithoutFileType DEF TypeOK
      <3>2. WithoutFile(i).index = RemoveAt(disk.index, i)
        BY DEF WithoutFile, StoresOK, Storage
      <3>3. disk'.index = RemoveAt(disk.index, i)
        BY <2>5, <3>1, <3>2, IndexKept
      <3>4. ElementsOf(RemoveAt(disk.index, i), k) = {}
        BY <1>2, <2>3, RemoveElement DEF Coherent
      <3>5. OnDisk(k)' = {}
        BY <3>3, <3>4 DEF OnDisk
      <3> QED BY <1>3, <2>1, <3>5 DEF HeldBy
    <2> QED BY <2>2, <2>4, <2>5
  <1> QED BY <1>4, <1>5, <1>6, ReturnsWhere

\* What both theorems are proved from.
DueSane == Sane /\ DueOK /\ Ended

LEMMA DueSaneInit == Init => DueSane
PROOF
  <1> SUFFICES ASSUME Init PROVE DueSane
    OBVIOUS
  <1>1. DueOK /\ Ended
    BY DEF Init, DueOK, Ended
  <1>2. AllCoherent
    BY ContractInit
  <1> QED BY <1>1, <1>2, TypeInit, MutexInit, OneWayInit DEF DueSane, Sane

LEMMA DueSaneStep ==
  ASSUME ~ReuseKeys, DueSane, [Next]_vars
  PROVE  DueSane' /\ TypeOK' /\ AllCoherent'
PROOF
  <1>1. TypeOK'
    BY TypeStep DEF DueSane, Sane
  <1>2. AllCoherent'
    BY <1>1, ServedStep DEF DueSane, Served
  <1>3. DueOK' /\ Ended'
    BY <1>1, DueStep, EndedStep DEF DueSane, Sane
  <1> QED BY <1>1, <1>2, <1>3, MutexStep, OneWayStep DEF DueSane, Sane

\* A Get finds a key that was held when it was called, for any numbers of clients, keys and
\* values and any limits, when no key is stored twice and unless the key is deleted or popped, a
\* file cannot be read or the buffer has ended: what the worker copies does not leave the
\* memory index before it can be found on disk.
THEOREM HeldIsFound ==
  ASSUME ~ReuseKeys
  PROVE  Spec => GetFindsHeld
PROOF
  <1> DEFINE Found ==
        \A t \in Clients :
          Returning(t, "Get") /\ due[t] # NoValue /\ outcome'[t] = "threw" =>
            \/ call[t].key \in condemned \cup popped
            \/ DiskMayFail \/ ~running \/ pc[Worker] = "exited"
  <1>1. DueSane /\ [Next]_vars => DueSane' /\ [Found]_vars
    <2> SUFFICES ASSUME DueSane, [Next]_vars PROVE DueSane' /\ Found
      OBVIOUS
    <2> QED BY DueSaneStep, GetFinds DEF DueSane
  <1> QED BY <1>1, DueSaneInit, PTL DEF Spec, GetFindsHeld

\* A Delete that succeeds leaves nothing of a key that was held when it was called, under the
\* same conditions, and whatever else happens to the buffer: a copy that has begun is cancelled.
THEOREM DeletedIsGone ==
  ASSUME ~ReuseKeys
  PROVE  Spec => DeleteLeavesNothing
PROOF
  <1> DEFINE Gone ==
        \A t \in Clients, k \in Keys :
          /\ Returning(t, "Delete") /\ call[t].key = k /\ outcome'[t] = "done"
          /\ due[t] # NoValue
          => Held(k)' = NoValue
  <1>1. DueSane /\ [Next]_vars => DueSane' /\ [Gone]_vars
    <2> SUFFICES ASSUME DueSane, [Next]_vars PROVE DueSane' /\ Gone
      OBVIOUS
    <2>1. DueSane' /\ TypeOK' /\ AllCoherent'
      BY DueSaneStep
    <2> QED BY <2>1, DeleteLeaves DEF DueSane
  <1> QED BY <1>1, DueSaneInit, PTL DEF Spec, DeleteLeavesNothing
=============================================================================

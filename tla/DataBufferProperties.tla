------------------------ MODULE DataBufferProperties ------------------------
(***************************************************************************)
(* What DataBuffer is meant to guarantee, and what its documentation says  *)
(* that it does not.                                                       *)
(***************************************************************************)
EXTENDS DataBuffer

MemHolds == {"spaceInMemory", "waitOnMemory", "joinWorker", "lockDisk",
             "setMemMax"}
DiskHolds == {"spaceOnDisk", "cancelled", "writeFile", "waitOnDisk",
              "setDiskMax"}
StoreOnDiskLabels == {"lockDisk", "spaceOnDisk", "cancelled", "waitOnDisk",
  "waitingOnDisk", "writeFile"}
WorkerLabels == StoreOnDiskLabels \cup
  {"findOldest", "waitOnMemory", "waitingOnMemory", "relockMemory", "exited"}
ClientLabels == StoreOnDiskLabels \cup
  {"idle", "check", "recheck", "lockMemory", "spaceInMemory", "joinWorker",
   "waitOnMemory", "waitingOnMemory", "getFromMemory", "getFromDisk",
   "waitingToGet", "deleteFromMemory", "deleteFromDisk", "deleteIfFromMemory",
   "deleteIfFromDisk", "checkDiskMax", "setMemMax", "checkMemMax", "setDiskMax"}
LabelsOf(t) == IF t = Worker THEN WorkerLabels ELSE ClientLabels

CopyCalls == [op : {"Copy"}, key : Keys, value : Values]
Calls == AllCalls \cup CopyCalls \cup {NoCall}

\* What a thread at a label is doing.
OpsAt(t, label) ==
  CASE label \in {"checkDiskMax", "setMemMax"} -> {"SetMaxMemoryUsage"}
    [] label \in {"checkMemMax", "setDiskMax"} -> {"SetMaxDiskUsage"}
    [] label \in {"getFromMemory", "getFromDisk", "waitingToGet"} -> {"Get"}
    [] label \in {"deleteIfFromMemory", "deleteIfFromDisk"} -> {"DeleteIf"}
    [] label \in {"deleteFromMemory", "deleteFromDisk"} -> {"Store", "Delete"}
    [] label = "check" -> {"Store", "Get", "Delete", "DeleteIf"}
    [] label \in {"recheck", "lockMemory", "spaceInMemory", "joinWorker"} ->
         {"Store"}
    [] label \in StoreOnDiskLabels -> IF t = Worker THEN {"Copy"} ELSE {"Store"}
    [] label = "relockMemory" -> {"Copy"}
    [] label \in {"waitOnMemory", "waitingOnMemory"} ->
         IF t = Worker THEN {"None"} ELSE {"Store"}
    [] OTHER -> {"None"}

StoresOK == mem \in Storage(MemElements) /\ disk \in Storage(DiskElements)
DirectoryOK ==
  /\ moving \in [Keys -> Values \cup {NoValue}]
  /\ files \in [Keys -> Values \cup {NoValue}]
  /\ popped \subseteq Keys
WorkerOK ==
  /\ running \in BOOLEAN
  /\ future \in {"active", "returned", "threw", "consumed"}
ThreadsOK ==
  /\ pc \in [Threads -> WorkerLabels \cup ClientLabels]
  /\ call \in [Threads -> Calls]
  /\ \A t \in Threads : pc[t] \in LabelsOf(t) /\ call[t].op \in OpsAt(t, pc[t])
  /\ outcome \in [Clients -> {"none", "done", "threw"} \cup Values]
  /\ due \in [Clients -> Values \cup {NoValue}]
ClientsOK ==
  /\ callsLeft \in [Clients -> Nat]
  /\ used \subseteq Keys /\ condemned \subseteq Keys
  /\ life \in {"alive", "stopping", "destroyed"}

\* Every variable keeps the type of the C++ member or local it stands for,
\* and no thread runs code of another operation than the one it called.
TypeOK == StoresOK /\ DirectoryOK /\ WorkerOK /\ ThreadsOK /\ ClientsOK

-----------------------------------------------------------------------------
(* Mutual exclusion.                                                       *)

Owned(store, holds, mayHold) ==
  \A t \in Threads :
    /\ pc[t] \in holds => store.owner = t
    /\ store.owner = t => pc[t] \in mayHold
\* Each mutex is held by exactly the thread whose position in the code says
\* so: a thread inside a critical section owns its mutex (so no two are
\* inside one), and a thread that owns a mutex is where it will release it.
MutualExclusion ==
  /\ Owned(mem, MemHolds, MemHolds \cup {"deleteIfFromMemory", "findOldest"})
  /\ Owned(disk, DiskHolds, DiskHolds \cup {"deleteIfFromDisk", "relockMemory"})

-----------------------------------------------------------------------------
(* Accounting and limits.                                                  *)

\* The bytes of each element of the memory index, and of each file in the directory.
MemoryBytes == [i \in DOMAIN mem.index |-> Size[mem.index[i].value]]
FileBytes == [k \in {f \in Keys : files[f] # NoValue} |-> Size[files[k]]]

\* Each store's `current` is the number of bytes it really holds, whichever of a pop, a
\* Delete, an eviction or a cancellation came between the store and its file; neither
\* exceeds its limit, however many threads waited for the same space; and every file
\* belongs to a completed element, so that a Delete or a pop can give its space back.
Accounting ==
  /\ mem.current = SumFunction(MemoryBytes) /\ mem.current <= mem.max
  /\ disk.current = SumFunction(FileBytes) /\ disk.current <= disk.max
  /\ \A k \in Keys : files[k] # NoValue =>
       \E i \in DOMAIN disk.index :
         disk.index[i].key = k /\ disk.index[i].state = "completed"

-----------------------------------------------------------------------------
(* Copying, evicting, popping, deleting.                                   *)

\* An element marked kCompleted in memory, which the next store short of
\* space evicts, really is in the directory, unless it was popped from there
\* or a Delete of its key has been called.
CompletedIsOnDisk ==
  running => \A i \in DOMAIN mem.index :
    LET e == mem.index[i]
        j == Find(disk.index, e.key)
    IN e.state = "completed" =>
         \/ e.key \in popped \cup condemned
         \/ files[e.key] = e.value /\ j # 0 /\ disk.index[j].state = "completed"

Abstract == INSTANCE BufferContract WITH
  held <- [k \in Keys |-> Held(k)],
  offered <- {<<call[t].key, call[t].value>> :
                t \in {u \in Clients : call[u].op = "Store"}}

\* The two indexes, the worker and the evictions implement BufferContract:
\* moving an element from memory to disk and evicting it are invisible.
Contract == Abstract!Spec

Returning(t, op) == call[t].op = op /\ pc[t] # "idle" /\ pc'[t] = "idle"

\* A key held when Get was called is found, unless a Delete or a pop of it
\* intervenes, a file cannot be read, or the worker has failed: the element
\* cannot slip from memory to disk behind the back of a Get.
GetFindsHeld ==
  [][\A t \in Clients :
       Returning(t, "Get") /\ due[t] # NoValue /\ outcome'[t] = "threw" =>
         \/ call[t].key \in condemned \cup popped
         \/ DiskMayFail \/ ~running \/ pc[Worker] = "exited"]_vars

\* A Delete that succeeds leaves nothing of a key that was held when it was
\* called, whether the element was in memory, on its way to disk or on disk.
DeleteLeavesNothing ==
  [][\A t \in Clients, k \in Keys :
       /\ Returning(t, "Delete") /\ call[t].key = k /\ outcome'[t] = "done"
       /\ due[t] # NoValue
       => Held(k)' = NoValue]_vars

-----------------------------------------------------------------------------
(* Waiting and stopping.                                                   *)

\* Once the worker has ended, a call that reaches CheckWorkerIsStillRunning
\* throws there instead of going on (data_buffer.h:68, 74, 78: "Throws if the
\* background worker has thrown").
DeadWorkerIsReported ==
  [][\A t \in Clients :
       pc[t] \in {"check", "recheck"} /\ pc'[t] # pc[t] /\ pc[Worker] = "exited"
         => \/ pc'[t] = "idle" /\ outcome'[t] = "threw"
            \/ pc'[t] = "recheck"]_vars

\* A client never waits for the worker to end while holding a mutex that the
\* worker waits for.
NoWaitingForEachOther ==
  \A t \in Clients :
    ~ /\ pc[t] = "joinWorker" /\ mem.owner = t
      /\ \/ pc[Worker] = "relockMemory"
         \/ pc[Worker] = "waitingOnMemory"

\* Every call returns: with a pop functor no store waits for a Delete.
EveryCallReturns == \A t \in Clients : pc[t] # "idle" ~> pc[t] = "idle"

\* No wait outlives its reason: space made by somebody else's Delete, or by a higher limit,
\* reaches the stores that wait for it, and the destructor returns, since its loop makes up
\* for a notification that the worker missed (cond_var, StopRunning).
WaitsEnd ==
  /\ \A t \in Threads :
       pc[t] = "waitingOnDisk" /\ HasSpaceOnDisk(t)
         ~> pc[t] # "waitingOnDisk" \/ ~HasSpaceOnDisk(t)
  /\ life = "stopping" ~> life = "destroyed"
=============================================================================

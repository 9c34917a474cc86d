----------------------------- MODULE DataBuffer -----------------------------
(***************************************************************************)
(* maidsafe::DataBuffer (src/maidsafe/common/data_buffer.cc): a two-tier   *)
(* key-value buffer.  Client threads store into a bounded memory index; a  *)
(* worker thread copies every element to a bounded directory, after which  *)
(* the memory copy may be evicted.  A full directory either pops its       *)
(* oldest file through a functor or makes the storing thread wait for      *)
(* somebody to delete.                                                     *)
(*                                                                         *)
(* Two mutexes (memory, disk), their condition variables and an atomic     *)
(* flag are shared by all the threads.  A step is what one thread does     *)
(* between two points at which another can interfere: taking a mutex,      *)
(* reading running, blocking on a condition variable.  A critical section  *)
(* that can do none of those is one step and never shows as an owner.  A   *)
(* notification sent just after an unlock is part of the unlocking step:   *)
(* what it wakes still has to win the mutex.                               *)
(***************************************************************************)
EXTENDS Integers, SequencesExt

CONSTANTS
  Clients,       \* threads that call the public interface
  Worker,        \* the thread running CopyQueueToDisk
  NoThread,      \* owner of a free mutex
  Keys,
  Values,
  NoValue,       \* no such file, no such value
  Size,          \* Size[v]: bytes of value v
  MaxMemory,     \* initial limit of the memory index
  MaxDisk,       \* initial limit of the directory
  HasPopFunctor, \* was a pop functor given to the constructor?
  DiskMayFail,   \* may reading, writing or removing a file fail?
  Requests,      \* the calls clients make
  ReuseKeys,     \* do clients store a key a second time?
  MaxCalls       \* bound: calls per client

StoreCalls == [op : {"Store"}, key : Keys, value : Values]
KeyCalls == [op : {"Get", "Delete"}, key : Keys]
DeleteIfCalls == [op : {"DeleteIf"}, keys : SUBSET Keys]
SetMaxCalls == [op : {"SetMaxMemoryUsage", "SetMaxDiskUsage"}, limit : Nat]
AllCalls == StoreCalls \cup KeyCalls \cup DeleteIfCalls \cup SetMaxCalls
NoCall == [op |-> "None"]

ASSUME ThreadsAssumption ==
  /\ Worker \notin Clients
  /\ NoThread \notin Clients \cup {Worker}
ASSUME DataAssumption ==
  /\ NoValue \notin Values
  /\ {"none", "done", "threw"} \cap Values = {} \* a value found is no other outcome
  /\ Size \in [Values -> Nat \ {0}]
ASSUME LimitsAssumption ==
  MaxMemory \in Nat /\ MaxDisk \in Nat /\ MaxMemory <= MaxDisk
ASSUME EnvironmentAssumption ==
  /\ {HasPopFunctor, DiskMayFail, ReuseKeys} \subseteq BOOLEAN
  /\ MaxCalls \in Nat
  /\ \A c \in Requests : c \in AllCalls

Threads == Clients \cup {Worker}

VARIABLES
  mem,       \* memory_store_: Storage of elements with their values
  disk,      \* disk_store_: Storage of elements whose values are in files
  moving,    \* elements_being_moved_to_disk_
  files,     \* contents of kDiskBuffer_
  running,   \* running_
  future,    \* worker_: "active", "returned", "threw" or "consumed"
  pc,        \* where each thread is
  call,      \* the call a client is in; what the worker is copying
  outcome,   \* how a client's last call ended
  due,       \* what the buffer held for a Get's or Delete's key at its call
  callsLeft, \* calls a client may still make
  used,      \* keys passed to Store so far
  condemned, \* keys a Delete has been called for so far
  popped,    \* keys handed to kPopFunctor_ so far
  life       \* "alive", "stopping" (in the destructor) or "destroyed"

directory == <<moving, files, popped>>
workerVars == <<running, future>>
threadVars == <<pc, call, outcome, due>>
clientVars == <<callsLeft, used, condemned, life>>
vars == <<mem, disk, directory, workerVars, threadVars, clientVars>>

States == {"notStarted", "started", "cancelled", "completed"}
MemElements == [key : Keys, value : Values, state : States]
DiskElements == [key : Keys, state : States]

\* owner is the mutex, waiting the condition variable.
Storage(elements) ==
  [max : Nat, current : Int, index : Seq(elements),
   owner : Threads \cup {NoThread}, waiting : SUBSET Threads]
EmptyStorage(max) ==
  [max |-> max, current |-> 0, index |-> <<>>,
   owner |-> NoThread, waiting |-> {}]

Init ==
  /\ mem = EmptyStorage(MaxMemory) /\ disk = EmptyStorage(MaxDisk)
  /\ moving = [k \in Keys |-> NoValue] /\ files = [k \in Keys |-> NoValue]
  /\ running = TRUE /\ future = "active"
  /\ pc = [t \in Threads |-> IF t = Worker THEN "findOldest" ELSE "idle"]
  /\ call = [t \in Threads |-> NoCall]
  /\ outcome = [t \in Clients |-> "none"]
  /\ due = [t \in Clients |-> NoValue]
  /\ callsLeft = [t \in Clients |-> MaxCalls]
  /\ used = {} /\ condemned = {} /\ popped = {}
  /\ life = "alive"

-----------------------------------------------------------------------------
(* An operator introduced as "Faulty:" is a wrong version of the one after *)
(* it; nothing uses it.  It says which mistake the properties exclude.     *)

(* Mutexes and condition variables.                                        *)

\* Faulty: does not wait for the mutex.
NeedNotBeFree(store) == TRUE
Free(store) == store.owner = NoThread
Locked(store, t) == [store EXCEPT !.owner = t]
Unlocked(store) == [store EXCEPT !.owner = NoThread]

\* Faulty: notifies nobody.
NotNotified(store) == store
Notified(store) == [store EXCEPT !.waiting = {}]
\* Faulty: polls, letting go of the mutex for a moment only.
Polling(store, t) == Unlocked(store)
Waiting(store, t) == [Unlocked(store) EXCEPT !.waiting = @ \cup {t}]

(* Searching an index: the position of the first match, 0 for end().       *)

Find(index, k) == SelectInSeq(index, LAMBDA e : e.key = k)
FindAnyOf(index, keys) == SelectInSeq(index, LAMBDA e : e.key \in keys)
FindOldestInMemoryOnly ==
  SelectInSeq(mem.index, LAMBDA e : e.state = "notStarted")
\* Faulty: evicts the oldest element, copied or not.
FindOldestInMemory == IF mem.index = <<>> THEN 0 ELSE 1
FindMemoryRemovalCandidate ==
  SelectInSeq(mem.index, LAMBDA e : e.state = "completed")
\* Faulty: looks for an element in the state it had before it was stored.
FindUnstartedToStoreOnDisk(k) ==
  SelectInSeq(disk.index, LAMBDA e : e.state = "notStarted" /\ e.key = k)
FindStartedToStoreOnDisk(k) ==
  SelectInSeq(disk.index, LAMBDA e : e.state = "started" /\ e.key = k)

\* A limit lowered below the space required wraps around in uint64_t, and
\* the comparison then succeeds (the assertion is compiled out by NDEBUG).
HasSpace(store, required) ==
  required > store.max \/ store.current <= store.max - required

Required(t) == Size[call[t].value]

(* Changes to a store.                                                     *)

Erased(i) ==
  [mem EXCEPT !.current = @ - Size[mem.index[i].value],
              !.index = RemoveAt(@, i)]
Inserted(t) ==
  [mem EXCEPT !.current = @ + Required(t),
              !.index = Append(@, [key |-> call[t].key,
                                   value |-> call[t].value,
                                   state |-> "notStarted"])]
Marked(store, i, state) ==
  IF i = 0 THEN store ELSE [store EXCEPT !.index[i].state = state]

\* Faulty: forgets the file, and not the bytes it took.
LeaveSpace(i) == [disk EXCEPT !.index = RemoveAt(@, i)]
\* RemoveFile and the erase(itr) that follows it.
RemoveFile(k) == files' = [files EXCEPT ![k] = NoValue]
WithoutFile(i) ==
  [disk EXCEPT !.current = @ - Size[files[disk.index[i].key]],
               !.index = RemoveAt(@, i)]
\* RemoveFile throws, leaving everything as it was.
CannotRemoveFile(k) == files[k] = NoValue \/ DiskMayFail

(* What a Get could find: the element in memory; else the first one in the *)
(* disk index, settled or with its store under way.                        *)

Storing(k) == {t \in Threads :
  /\ pc[t] \in {"spaceOnDisk", "waitOnDisk", "waitingOnDisk", "writeFile"}
  /\ call[t].key = k}

Held(k) ==
  LET i == Find(mem.index, k)
      j == Find(disk.index, k)
  IN CASE i # 0 -> mem.index[i].value
       [] i = 0 /\ j # 0 /\ disk.index[j].state = "completed" -> files[k]
       [] i = 0 /\ j # 0 /\ disk.index[j].state = "started" /\ Storing(k) # {} ->
            call[CHOOSE t \in Storing(k) : TRUE].value
       [] OTHER -> NoValue

(* Where a thread goes next.                                               *)

Goto(t, label) ==
  /\ pc' = [pc EXCEPT ![t] = label]
  /\ UNCHANGED <<call, outcome, due>>
Return(t, result) ==
  /\ pc' = [pc EXCEPT ![t] = "idle"]
  /\ call' = [call EXCEPT ![t] = NoCall]
  /\ outcome' = [outcome EXCEPT ![t] = result]
  /\ due' = [due EXCEPT ![t] = NoValue]

\* Store catches whatever the Delete it begins with throws.
Throw(t) ==
  IF call[t].op = "Store" /\ pc[t] \in {"check", "deleteFromDisk"}
  THEN Goto(t, "recheck")
  ELSE Return(t, "threw")
AfterDelete(t) ==
  IF call[t].op = "Store" THEN Goto(t, "recheck") ELSE Return(t, "done")

\* An exception out of StoreOnDisk ends the client's Store, or the worker:
\* its future then holds the exception.
ThrowFromStoreOnDisk(t) ==
  IF t = Worker
  THEN /\ pc' = [pc EXCEPT ![t] = "exited"]
       /\ call' = [call EXCEPT ![t] = NoCall]
       /\ future' = "threw"
       /\ UNCHANGED <<outcome, due>>
  ELSE Return(t, "threw") /\ UNCHANGED future
AfterStoreOnDisk(t) ==
  IF t = Worker THEN Goto(t, "relockMemory") ELSE Return(t, "done")

\* Faulty: the threads are woken but the flag stays up.
KeepRunning == UNCHANGED running
\* StopRunning; its callers also notify both condition variables.
StopRunning == running' = FALSE

-----------------------------------------------------------------------------
(* Calls and CheckWorkerIsStillRunning.                                    *)

FirstLabel(c) ==
  CASE c.op = "SetMaxMemoryUsage" -> "checkDiskMax"
    [] c.op = "SetMaxDiskUsage" -> "checkMemMax"
    [] OTHER -> "check"

Call(t, c) ==
  /\ life = "alive" /\ pc[t] = "idle" /\ callsLeft[t] > 0
  /\ c.op = "Store" => ReuseKeys \/ c.key \notin used
  /\ used' = IF c.op = "Store" THEN used \cup {c.key} ELSE used
  /\ condemned' = condemned \cup CASE c.op = "Delete" -> {c.key}
                                   [] c.op = "DeleteIf" -> c.keys
                                   [] OTHER -> {}
  /\ callsLeft' = [callsLeft EXCEPT ![t] = @ - 1]
  /\ pc' = [pc EXCEPT ![t] = FirstLabel(c)]
  /\ call' = [call EXCEPT ![t] = c]
  /\ outcome' = [outcome EXCEPT ![t] = "none"]
  /\ due' = [due EXCEPT ![t] = IF c.op \in {"Get", "Delete"} THEN Held(c.key)
                                                           ELSE NoValue]
  /\ UNCHANGED <<mem, disk, directory, workerVars, life>>

AfterCheck(t) ==
  CASE pc[t] = "recheck" -> "lockMemory"
    [] pc[t] = "check" /\ call[t].op \in {"Store", "Delete"} -> "deleteFromMemory"
    [] pc[t] = "check" /\ call[t].op = "DeleteIf" -> "deleteIfFromMemory"
    [] OTHER -> "getFromMemory"

\* worker_mutex_ is only ever held across a step by a thread joining the
\* worker.  The flag is read after the future; both reads are one step, as
\* whoever clears the flag does so before the future becomes ready.
CheckWorkerIsStillRunning(t) ==
  /\ pc[t] \in {"check", "recheck"}
  /\ \A u \in Clients : pc[u] # "joinWorker"
  /\ future' = IF future \in {"returned", "threw"} THEN "consumed" ELSE future
  /\ IF future = "threw" \/ ~running THEN Throw(t) ELSE Goto(t, AfterCheck(t))
  /\ UNCHANGED <<mem, disk, directory, running, clientVars>>

-----------------------------------------------------------------------------
(* Store: into memory, or straight to disk when larger than the memory.    *)

TooLargeForMemory(t) == Required(t) > mem.max

LockMemoryToStore(t) ==
  /\ pc[t] = "lockMemory" /\ Free(mem)
  /\ mem' = Locked(mem, t)
  /\ Goto(t, IF TooLargeForMemory(t) THEN "lockDisk" ELSE "spaceInMemory")
  /\ UNCHANGED <<disk, directory, workerVars, clientVars>>

StoreInMemory(t) ==
  /\ pc[t] = "spaceInMemory" /\ running /\ HasSpace(mem, Required(t))
  /\ mem' = Notified(Unlocked(Inserted(t)))
  /\ Return(t, "done")
  /\ UNCHANGED <<disk, directory, workerVars, clientVars>>

\* One turn of the loop that finds no space: evict the first element that
\* is also on disk, or wait for one.
WaitForSpaceInMemory(t) ==
  LET i == FindMemoryRemovalCandidate IN
  /\ pc[t] = "spaceInMemory" /\ running /\ ~HasSpace(mem, Required(t))
  /\ \/ i # 0 /\ mem' = Erased(i) /\ Goto(t, "spaceInMemory")
     \/ i = 0 /\ UNCHANGED mem /\ Goto(t, "waitOnMemory")
  /\ UNCHANGED <<disk, directory, workerVars, clientVars>>

\* The buffer has been stopped: the thread takes worker_mutex_ and waits for
\* the worker's future, still holding the memory mutex.
GiveUpStoring(t) ==
  /\ pc[t] = "spaceInMemory" /\ ~running
  /\ Goto(t, "joinWorker")
  /\ UNCHANGED <<mem, disk, directory, workerVars, clientVars>>

JoinWorker(t) ==
  /\ pc[t] = "joinWorker" /\ future # "active"
  /\ future' = "consumed"
  /\ mem' = Unlocked(mem)
  /\ Return(t, IF future = "threw" THEN "threw" ELSE "done")
  /\ UNCHANGED <<disk, directory, running, clientVars>>

\* Waiting on the memory condition variable: the predicate has been found
\* false, the mutex is still held until the thread is among the waiters.
WaitOnMemory(t) ==
  /\ pc[t] = "waitOnMemory"
  /\ mem' = Waiting(mem, t)
  /\ Goto(t, "waitingOnMemory")
  /\ UNCHANGED <<disk, directory, workerVars, clientVars>>

\* The predicate looks for a candidate before it asks for space, so a client
\* evicts what it finds on waking even if there is space by now.
WakeOnMemory(t) ==
  LET i == FindMemoryRemovalCandidate
      evicts == t # Worker /\ running /\ i # 0
  IN
  /\ pc[t] = "waitingOnMemory" /\ t \notin mem.waiting /\ Free(mem)
  /\ mem' = Locked(IF evicts THEN Erased(i) ELSE mem, t)
  /\ Goto(t, IF t = Worker THEN "findOldest" ELSE "spaceInMemory")
  /\ UNCHANGED <<disk, directory, workerVars, clientVars>>

-----------------------------------------------------------------------------
(* StoreOnDisk, by the worker and by a client with a large value.  Both    *)
(* arrive holding the memory mutex and release it once they hold the disk  *)
(* mutex.                                                                  *)

BeginStoreOnDisk(t) ==
  /\ pc[t] = "lockDisk" /\ Free(disk)
  /\ \/ /\ Required(t) <= disk.max
        /\ mem' = Unlocked(mem)
        /\ disk' = [Locked(disk, t) EXCEPT
             !.index = Append(@, [key |-> call[t].key, state |-> "started"])]
        /\ Goto(t, "spaceOnDisk")
        /\ UNCHANGED workerVars
     \/ /\ Required(t) > disk.max
        /\ StopRunning
        /\ mem' = Notified(Unlocked(mem)) /\ disk' = Notified(disk)
        /\ ThrowFromStoreOnDisk(t)
  /\ UNCHANGED <<directory, clientVars>>

HasSpaceOnDisk(t) == HasSpace(disk, Required(t))
StillWanted(t) ==
  LET i == Find(disk.index, call[t].key) IN
  i # 0 /\ disk.index[i].state # "cancelled"

EndWaitForSpaceOnDisk(t) ==
  /\ pc[t] = "spaceOnDisk" /\ (HasSpaceOnDisk(t) \/ ~running)
  /\ Goto(t, "writeFile")
  /\ UNCHANGED <<mem, disk, directory, workerVars, clientVars>>

\* The first element of the index with this key is gone, or cancelled.
NoticeCancelled(t) ==
  LET i == Find(disk.index, call[t].key) IN
  /\ pc[t] = "spaceOnDisk" /\ running /\ ~HasSpaceOnDisk(t) /\ ~StillWanted(t)
  /\ disk' = IF i = 0 THEN disk ELSE [disk EXCEPT !.index = RemoveAt(@, i)]
  /\ Goto(t, "cancelled")
  /\ UNCHANGED <<mem, directory, workerVars, clientVars>>

\* With a pop functor the oldest element makes room.  When it is anything
\* but completed the assertion fails, or without it the loop spins holding
\* the disk mutex: no step of the model.
PopOldest(t) ==
  LET oldest == Head(disk.index) IN
  /\ pc[t] = "spaceOnDisk" /\ running /\ ~HasSpaceOnDisk(t) /\ StillWanted(t)
  /\ HasPopFunctor /\ oldest.state = "completed"
  /\ \/ /\ files[oldest.key] # NoValue
        /\ RemoveFile(oldest.key)
        /\ disk' = WithoutFile(1)
        /\ popped' = popped \cup {oldest.key}
        /\ Goto(t, "spaceOnDisk")
        /\ UNCHANGED future
     \/ /\ CannotRemoveFile(oldest.key)
        /\ disk' = Unlocked(disk)
        /\ ThrowFromStoreOnDisk(t)
        /\ UNCHANGED <<files, popped>>
  /\ UNCHANGED <<mem, moving, running, clientVars>>

DecideToWaitOnDisk(t) ==
  /\ pc[t] = "spaceOnDisk" /\ running /\ ~HasSpaceOnDisk(t) /\ StillWanted(t)
  /\ ~HasPopFunctor
  /\ Goto(t, "waitOnDisk")
  /\ UNCHANGED <<mem, disk, directory, workerVars, clientVars>>

\* The value is offered to Get while its store waits.
WaitOnDisk(t) ==
  /\ pc[t] = "waitOnDisk"
  /\ moving' = [moving EXCEPT ![call[t].key] = call[t].value]
  /\ disk' = Waiting(disk, t)
  /\ Goto(t, "waitingOnDisk")
  /\ UNCHANGED <<mem, files, popped, workerVars, clientVars>>

WakeOnDisk(t) ==
  /\ pc[t] = "waitingOnDisk" /\ t \notin disk.waiting /\ Free(disk)
  /\ disk' = Locked(disk, t)
  /\ moving' = [moving EXCEPT ![call[t].key] = NoValue]
  /\ Goto(t, "spaceOnDisk")
  /\ UNCHANGED <<mem, files, popped, workerVars, clientVars>>

WriteSucceeds(t) ==
  LET i == FindStartedToStoreOnDisk(call[t].key) IN
  /\ pc[t] = "writeFile" /\ running
  /\ files' = [files EXCEPT ![call[t].key] = call[t].value]
  /\ disk' = [Notified(Unlocked(Marked(disk, i, "completed"))) EXCEPT
                !.current = @ + Required(t)]
  /\ AfterStoreOnDisk(t)
  /\ UNCHANGED <<mem, moving, popped, workerVars, clientVars>>

WriteFails(t) ==
  /\ pc[t] = "writeFile" /\ running /\ DiskMayFail
  /\ StopRunning
  /\ mem' = Notified(mem) /\ disk' = Notified(Unlocked(disk))
  /\ ThrowFromStoreOnDisk(t)
  /\ UNCHANGED <<directory, clientVars>>

EndCancelled(t) ==
  /\ pc[t] = "cancelled" /\ running
  /\ disk' = Notified(Unlocked(disk))
  /\ AfterStoreOnDisk(t)
  /\ UNCHANGED <<mem, directory, workerVars, clientVars>>

\* The early return of a stopped store notifies nobody.  The mutex goes with
\* the caller's scope: at once in Store, but only at the end of the turn in
\* the worker, which therefore goes on to lock the memory mutex holding it.
AbandonStoreOnDisk(t) ==
  /\ pc[t] \in {"writeFile", "cancelled"} /\ ~running
  /\ disk' = IF t = Worker THEN disk ELSE Unlocked(disk)
  /\ AfterStoreOnDisk(t)
  /\ UNCHANGED <<mem, directory, workerVars, clientVars>>

-----------------------------------------------------------------------------
(* The worker: CopyQueueToDisk.                                            *)

TakeOldest ==
  LET i == FindOldestInMemoryOnly IN
  /\ pc[Worker] = "findOldest" /\ (Free(mem) \/ mem.owner = Worker) /\ running
  /\ mem' = Locked(Marked(mem, i, "started"), Worker)
  /\ \/ /\ i # 0
        /\ pc' = [pc EXCEPT ![Worker] = "lockDisk"]
        /\ call' = [call EXCEPT ![Worker] =
             [op |-> "Copy", key |-> mem.index[i].key,
              value |-> mem.index[i].value]]
        /\ UNCHANGED <<outcome, due>>
     \/ i = 0 /\ Goto(Worker, "waitOnMemory")
  /\ UNCHANGED <<disk, directory, workerVars, clientVars>>

WorkerReturns ==
  /\ pc[Worker] = "findOldest" /\ (Free(mem) \/ mem.owner = Worker) /\ ~running
  /\ mem' = Unlocked(mem)
  /\ future' = "returned"
  /\ Goto(Worker, "exited")
  /\ UNCHANGED <<disk, directory, running, clientVars>>

MarkStored ==
  /\ pc[Worker] = "relockMemory" /\ Free(mem)
  /\ mem' = Notified(Marked(mem, Find(mem.index, call[Worker].key), "completed"))
  /\ disk' = IF disk.owner = Worker THEN Unlocked(disk) ELSE disk
  /\ pc' = [pc EXCEPT ![Worker] = "findOldest"]
  /\ call' = [call EXCEPT ![Worker] = NoCall]
  /\ UNCHANGED <<outcome, due, directory, workerVars, clientVars>>

-----------------------------------------------------------------------------
(* Get.                                                                    *)

GetFromMemory(t) ==
  LET i == Find(mem.index, call[t].key) IN
  /\ pc[t] = "getFromMemory" /\ Free(mem)
  /\ IF i # 0 THEN Return(t, mem.index[i].value) ELSE Goto(t, "getFromDisk")
  /\ UNCHANGED <<mem, disk, directory, workerVars, clientVars>>

ReadFile(t) ==
  LET value == files[call[t].key] IN
  \/ value # NoValue /\ Return(t, value)
  \/ (value = NoValue \/ DiskMayFail) /\ Return(t, "threw")

\* The element is not being stored by anybody: FindAndThrowIfCancelled, then
\* the file.
GetSettled(t) ==
  LET i == Find(disk.index, call[t].key) IN
  /\ \/ pc[t] = "getFromDisk"
     \/ pc[t] = "waitingToGet" /\ t \notin disk.waiting
  /\ Free(disk)
  /\ \/ i = 0 /\ Return(t, "threw")
     \/ i # 0 /\ disk.index[i].state = "cancelled" /\ Return(t, "threw")
     \/ i # 0 /\ disk.index[i].state = "completed" /\ ReadFile(t)
  /\ UNCHANGED <<mem, disk, directory, workerVars, clientVars>>

\* The element is being stored: its value is on offer, or Get waits until
\* the element leaves the state kStarted, whatever becomes of running.
GetStarted(t) ==
  LET k == call[t].key
      i == Find(disk.index, k)
  IN
  /\ pc[t] \in {"getFromDisk", "waitingToGet"} /\ Free(disk)
  /\ i # 0 /\ disk.index[i].state = "started"
  /\ \/ /\ pc[t] = "getFromDisk" /\ moving[k] # NoValue
        /\ Return(t, moving[k])
        /\ UNCHANGED disk
     \/ /\ \/ pc[t] = "getFromDisk" /\ moving[k] = NoValue
           \/ pc[t] = "waitingToGet" /\ t \notin disk.waiting
        /\ disk' = Waiting(disk, t)
        /\ Goto(t, "waitingToGet")
  /\ UNCHANGED <<mem, directory, workerVars, clientVars>>

-----------------------------------------------------------------------------
(* Delete(key): from memory, then from disk unless the worker has not      *)
(* reached the element yet.                                                *)

\* Faulty: takes an element on its way to disk for one only in memory.
NotYetOnDisk(i) == i # 0 /\ mem.index[i].state # "completed"
OnlyInMemory(i) == i # 0 /\ mem.index[i].state = "notStarted"

DeleteFromMemory(t) ==
  LET i == Find(mem.index, call[t].key) IN
  /\ pc[t] = "deleteFromMemory" /\ Free(mem)
  /\ mem' = IF i = 0 THEN mem ELSE Notified(Erased(i))
  /\ IF OnlyInMemory(i) THEN AfterDelete(t) ELSE Goto(t, "deleteFromDisk")
  /\ UNCHANGED <<disk, directory, workerVars, clientVars>>

DeleteFromDisk(t) ==
  LET k == call[t].key
      i == Find(disk.index, k)
      state == disk.index[i].state
  IN
  /\ pc[t] = "deleteFromDisk" /\ Free(disk)
  /\ \/ i = 0 /\ Throw(t) /\ UNCHANGED <<disk, files>>
     \/ /\ i # 0 /\ state \in {"started", "cancelled"}
        /\ disk' = Notified(Marked(disk, i, "cancelled"))
        /\ AfterDelete(t)
        /\ UNCHANGED files
     \/ /\ i # 0 /\ state = "completed" /\ files[k] # NoValue
        /\ RemoveFile(k)
        /\ disk' = Notified(WithoutFile(i))
        /\ AfterDelete(t)
     \/ /\ i # 0 /\ state = "completed" /\ CannotRemoveFile(k)
        /\ Throw(t)
        /\ UNCHANGED <<disk, files>>
  /\ UNCHANGED <<mem, moving, popped, workerVars, clientVars>>

(* Delete(predicate): erase(remove_if(...)) on each index, one element a   *)
(* step with the mutex held throughout.  The files stay.                   *)

DeleteIfFromMemory(t) ==
  LET i == FindAnyOf(mem.index, call[t].keys) IN
  /\ pc[t] = "deleteIfFromMemory" /\ (Free(mem) \/ mem.owner = t)
  /\ \/ /\ i # 0
        /\ mem' = Notified(Locked(Erased(i), t))
        /\ Goto(t, "deleteIfFromMemory")
     \/ i = 0 /\ mem' = Unlocked(mem) /\ Goto(t, "deleteIfFromDisk")
  /\ UNCHANGED <<disk, directory, workerVars, clientVars>>

DeleteIfFromDisk(t) ==
  LET i == FindAnyOf(disk.index, call[t].keys) IN
  /\ pc[t] = "deleteIfFromDisk" /\ (Free(disk) \/ disk.owner = t)
  /\ \/ /\ i # 0
        /\ disk' = [Notified(Locked(disk, t)) EXCEPT !.index = RemoveAt(@, i)]
        /\ Goto(t, "deleteIfFromDisk")
     \/ i = 0 /\ disk' = Unlocked(disk) /\ Return(t, "done")
  /\ UNCHANGED <<mem, directory, workerVars, clientVars>>

-----------------------------------------------------------------------------
(* The limits.  Each is set under its own mutex and compared with the      *)
(* other, which that mutex does not protect.                               *)

AllowedByDisk(limit) == limit <= disk.max

CheckDiskMax(t) ==
  /\ pc[t] = "checkDiskMax" /\ Free(mem)
  /\ IF AllowedByDisk(call[t].limit)
     THEN mem' = Locked(mem, t) /\ Goto(t, "setMemMax")
     ELSE UNCHANGED mem /\ Return(t, "threw")
  /\ UNCHANGED <<disk, directory, workerVars, clientVars>>

SetMaxMemoryUsage(t) ==
  /\ pc[t] = "setMemMax"
  /\ mem' = [Notified(Unlocked(mem)) EXCEPT !.max = call[t].limit]
  /\ Return(t, "done")
  /\ UNCHANGED <<disk, directory, workerVars, clientVars>>

CheckMemMax(t) ==
  /\ pc[t] = "checkMemMax" /\ Free(disk)
  /\ IF mem.max <= call[t].limit
     THEN disk' = Locked(disk, t) /\ Goto(t, "setDiskMax")
     ELSE UNCHANGED disk /\ Return(t, "threw")
  /\ UNCHANGED <<mem, directory, workerVars, clientVars>>

SetMaxDiskUsage(t) ==
  LET store == [Unlocked(disk) EXCEPT !.max = call[t].limit] IN
  /\ pc[t] = "setDiskMax"
  /\ disk' = IF call[t].limit > disk.max THEN Notified(store) ELSE store
  /\ Return(t, "done")
  /\ UNCHANGED <<mem, directory, workerVars, clientVars>>

-----------------------------------------------------------------------------
(* The destructor, which the owner runs when no call is in progress.       *)

Destroy ==
  /\ life = "alive" /\ \A t \in Clients : pc[t] = "idle"
  /\ Free(mem) /\ Free(disk)
  /\ StopRunning
  /\ mem' = Notified(mem) /\ disk' = Notified(disk)
  /\ life' = "stopping"
  /\ UNCHANGED <<directory, future, threadVars, callsLeft, used, condemned>>

\* The destructor's loop: notify both condition variables until the future
\* is ready.
NotifyWorker ==
  /\ life = "stopping" /\ future = "active"
  /\ mem' = Notified(mem) /\ disk' = Notified(disk)
  /\ UNCHANGED <<directory, workerVars, threadVars, clientVars>>

EndDestroy ==
  /\ life = "stopping" /\ future # "active"
  /\ future' = "consumed"
  /\ life' = "destroyed"
  /\ UNCHANGED <<mem, disk, directory, running, threadVars, callsLeft, used,
                 condemned>>

Destroyed == life = "destroyed" /\ UNCHANGED vars

-----------------------------------------------------------------------------
StoreOnDiskStep(t) ==
  \/ BeginStoreOnDisk(t) \/ EndWaitForSpaceOnDisk(t) \/ NoticeCancelled(t)
  \/ PopOldest(t) \/ DecideToWaitOnDisk(t) \/ WaitOnDisk(t) \/ WakeOnDisk(t)
  \/ WriteSucceeds(t) \/ WriteFails(t) \/ EndCancelled(t)
  \/ AbandonStoreOnDisk(t)

ClientStep(t) ==
  \/ CheckWorkerIsStillRunning(t)
  \/ LockMemoryToStore(t) \/ StoreInMemory(t) \/ WaitForSpaceInMemory(t)
  \/ GiveUpStoring(t) \/ JoinWorker(t)
  \/ WaitOnMemory(t) \/ WakeOnMemory(t)
  \/ StoreOnDiskStep(t)
  \/ GetFromMemory(t) \/ GetSettled(t) \/ GetStarted(t)
  \/ DeleteFromMemory(t) \/ DeleteFromDisk(t)
  \/ DeleteIfFromMemory(t) \/ DeleteIfFromDisk(t)
  \/ CheckDiskMax(t) \/ SetMaxMemoryUsage(t)
  \/ CheckMemMax(t) \/ SetMaxDiskUsage(t)

WorkerStep ==
  \/ TakeOldest \/ WorkerReturns \/ MarkStored
  \/ WaitOnMemory(Worker) \/ WakeOnMemory(Worker)
  \/ StoreOnDiskStep(Worker)

DestructorStep == Destroy \/ NotifyWorker \/ EndDestroy

Next ==
  \/ \E t \in Clients : ClientStep(t) \/ \E c \in Requests : Call(t, c)
  \/ WorkerStep
  \/ DestructorStep
  \/ Destroyed

Spec == Init /\ [][Next]_vars

\* Every thread that can run eventually does; clients need not make calls,
\* nor the owner destroy the buffer, but a destructor once begun runs on.
Fairness ==
  /\ \A t \in Clients : WF_vars(ClientStep(t))
  /\ WF_vars(WorkerStep)
  /\ WF_vars(NotifyWorker \/ EndDestroy)

FairSpec == Spec /\ Fairness

=============================================================================

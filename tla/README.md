# A TLA+ model of MaidSafe-Common

MaidSafe-Common is the C++ library under the other MaidSafe projects.  Most of
it is conversions, wrappers and tables; its own logic is in a handful of stateful
components.  This directory models them in TLA+, checks the models with TLC and
proves what matters most with TLAPS.

Four components have the most to go wrong and are modelled in most detail, with their
own runs: `DataBuffer`, `StructuredDataVersions`, `Active` and `tcp::Connection`.  The
others share nothing with each other and have a module each, checked together in
small instances.

## The system

| Component | State | Operations | What is hard |
| --- | --- | --- | --- |
| `DataBuffer` | memory index, disk index, directory, byte counts, two limits, stop flag, worker's future | `Store`, `Get`, `Delete`, `Delete(predicate)`, the two limit setters, destructor; background copier | three kinds of thread, two mutexes, two condition variables, exceptions out of critical sections, failing files |
| `StructuredDataVersions` | map of versions with parent and children, root, orphans by missing parent, tips, two limits | `Put`, `Get`, `GetBranch`, `DeleteBranchUntilFork`, `ApplySerialised` | any order of arrival of versions; limits reached while orphans are adopted |
| `LruCache` | list in order of use, map into it | `Add`, `Get`, `Delete`, expiry | list and map have to agree; capacity and expiry together |
| `Active` | queue of functors, two mutexes, condition variable, flag, thread | `Send`, destructor | functors sent while the thread stops, and by functors |
| `SafeQueue` | queue, mutex, condition variable | `Push`, `TryPop`, `WaitAndPop` | several consumers (nothing in the repository uses it) |
| `AsioService` | pool of threads, work guard | `Stop`, destructor | `Stop` from two threads, or from a handler |
| `tcp::Connection`, `tcp::Listener` | socket, strand, send queue, callbacks | `Start`, `Send`, `Close`, accept loop | completion handlers after close, two writes at once |
| SQLite wrapper | database handle, transaction flag | `Transaction`, `Commit`, `Statement` | retries against other processes' locks, rollback |
| `DownloadManager` | versions, directories, manifest | `Update` | a download that fails half way and is retried while the server publishes |
| Logging, VLOG | options, filters, sinks, an `Active` writer | `Initialise`, `InitialiseVlog`, log | initialisation order, shutdown, who writes when |
| `Profiler` | entries, an `Active` | `AddEntry`, destructor | the entries queued when it is destroyed |
| `SipHash` | words, remainder, byte count | `Update`, `Finalize` | calls that cut words anywhere, the count modulo 256 |
| `BoundedString` | characters, `valid_` | construction, copies, moves, conversions, archives, XOR | values that are not initialised or were moved from |
| `Data`, `ImmutableData`, `MutableData` | name, value | construction, moves, `load` | an archive that fails half way |
| `SecureInputString` | encrypted pieces by position, secret, flag | `Insert`, `Remove`, `Clear`, `Finalise`, `IsValid` | gaps, edits that throw, edits after finalising |
| `LockedPageManager` | pages with counts | allocate, free | two secrets on a page |
| Crypto, RSA | none | encrypt, sign, share, compress, encode keys | which failures are refused, and how |
| Encoding | none | hexadecimal and base 64 | padding, foreign texts |
| Errors | none | `ErrorToInt`, `IntToError`, archive | sign and range of what arrives |
| `Menu` | tree of items | add, run | numbering, the way back, operations that throw |
| Address space, bootstrap file and signing tools | lists, keys, flags | their menus | steps that fail, orders nobody planned |

They meet in few places: the logger and the profiler write through an `Active`;
`tcp` runs on `AsioService`; `DataBuffer` and `StructuredDataVersions` are used by
the vaults, independently of each other.  So each is a module of its own, and only
`Listener` hands over objects of another, the `Connection`s it accepts.

What is left (program options, file and string utilities, directories, IPC, processes,
the console) is conversion or I/O without state.  `PROJECT.json` lists every component
with the reason it is left out.

What makes each one correct:

- `DataBuffer`: what was stored is found until it is deleted or popped, wherever
  it is; the byte counts are exact and within the limits; nothing waits for ever.
- `StructuredDataVersions`: root, tips and orphans are those of the graph of the
  versions put, in whatever order they came; a failed `Put` changes nothing.
- `LruCache`: never above capacity; what is evicted is what was used longest ago.
- `Active`: every functor sent before the destructor begins runs, once, in order.
- `AsioService`: `Stop` returns, and afterwards nothing runs.
- `tcp`: messages arrive whole and in order, the close callback is called once.
- SQLite: the file holds what was committed, whole, and nothing else.
- `DownloadManager`: what it reports as updated is of one version.
- Logging, `Profiler`: nothing is lost, repeated or overtaken, at the end either.
- `SipHash`: the cuts between calls make no difference, and the result is the reference's.
- Values (`BoundedString`, data, errors, encodings, cryptography): what comes back is
  what was put in, or it is refused; what says it is valid is.
- The tools: a list is not given up without asking, a shared key can be put together by
  any quorum and is not stored once it has been, bad groups are counted once.

## Plan

1. `DataBuffer`, its properties, its contract and first proofs (done).
2. `StructuredDataVersions`, with the forest of versions as its abstract
   specification (done).
3. `Active`, with its proofs (done).
4. `TcpConnection`, with the stream of messages as its abstract specification, and
   the proof that it implements it (done).
5. `TcpListener` over `AsioService`, which it extends (done).
6. `SqliteTransaction` over an external locking database, with its proof (done).
7. `LruCache`, `Logging`, `Profiler`, `DownloadManager` (done).
8. The value types, conversions and tools (done).
9. Proofs of what the listener, the download manager, the data types and the locked
   pages promise, and that `DataBuffer` evicts only what is on disk and reports a
   worker that has ended (done).
10. The proof that `DataBuffer` implements `BufferContract` (done).
11. From `AllCoherent`, which that proof rests on, `GetFindsHeld` and `DeleteLeavesNothing`
   (done).
12. The tree invariants of `StructuredDataVersions`, and that it implements
   `VersionForest` (done).
13. That `DataBuffer` accounts for every byte, with the lemmas on sums this needs (done).

## Modules

| Module | Role |
| --- | --- |
| `DataBuffer` | the component: state, one action per critical section, `Spec`, `FairSpec` |
| `DataBufferProperties` | invariants, action and liveness properties, refinement mapping |
| `BufferContract` | what a client may rely on, with no memory, disk or worker |
| `MCDataBuffer` | small instances for TLC, used by every `.cfg` |
| `DataBufferProofs` | theorems and their proofs |
| `AccountingProofs` | sums over an index, and the theorem about `Accounting`; extends `DataBufferProofs` |
| `StructuredDataVersions` | the component: the object as a record, one action per public function, `Spec` |
| `VersionForest` | what a client may rely on: each version and the parent it was put under |
| `VersionsProperties` | invariants, refinement mapping |
| `MCVersions` | small instances for TLC |
| `VersionsProofs` | theorems and their proofs, the refinement among them |
| `Active` | the object and the threads that use it: one action per critical section, `Spec`, `FairSpec` |
| `ActiveProperties` | invariants and liveness properties |
| `MCActive` | small instance for TLC |
| `ActiveProofs` | theorems and their proofs |
| `TcpConnection` | two connected ends, their strands and sockets: one action per handler, `Spec`, `FairSpec` |
| `MessageStream` | what the users of the two ends may rely on |
| `TcpProperties` | invariants, refinement mapping, liveness properties |
| `MCTcp` | small instances for TLC |
| `TcpProofs` | theorems and their proofs, the refinement among them |
| `AsioService` | the pool of threads and `Stop`: operators over a `service`, for the module that extends it |
| `TcpListener` | the accept chain on that service, `Spec`, `FairSpec`, properties |
| `SqliteTransaction` | processes with a connection each to one file, `Spec`, property |
| `ListenerProofs` | theorems about `TcpListener` and their proofs |
| `ComponentProofs` | theorems and their proofs, in a section each, about `DataTypes`, `DownloadManager`, `LockedPages`, `SqliteTransaction`, `SigningTool`, `BootstrapFileTool`, `Menu`, `Errors`, `BoundedString` and `Crypto` |
| `LruCacheProofs` | theorem about `LruCache` and its proof |
| `LruCache`, `Logging`, `Profiler`, `DownloadManager`, `SipHash`, `BoundedString`, `DataTypes`, `SecureInputString`, `LockedPages`, `Crypto`, `Encoding`, `Errors`, `Menu`, `AddressSpace`, `BootstrapFileTool`, `SigningTool` | one component each: state, actions, `Spec`, and what it promises |
| `Identity` | the XOR metric, used by `AddressSpace` |
| `MCComponents` | an instance of each of these, one per behaviour; it extends the modules that are proved about, so that what it checks of them is what the theorems state, and those name their `Init` and `Next` after themselves |

### How `DataBuffer` corresponds to the code

`mem` and `disk` are the two `Storage` structures: `max`, `current`, `index`, and
the mutex (`owner`) and condition variable (`waiting`, the set of threads blocked
on it).  `files` is the directory, `moving` is `elements_being_moved_to_disk_`,
`running` is `running_`, `future` is `worker_` (active, ready with or without an
exception, or already consumed by `get()`).  `pc` and `call` say where each
thread is; labels are named after the statement that comes next.

A step is what one thread does between two points at which another can
interfere: taking a mutex, reading `running_`, blocking on a condition variable.
`StoreOnDisk` is the same code for a client with a value larger than the memory
and for the worker, and is modelled once, for any thread.  A call to `Store` is
the `Delete` it begins with (with its exceptions swallowed), then
`CheckWorkerIsStillRunning` a second time, then `StoreInMemory` and perhaps
`StoreOnDisk`.

The history variables `used`, `condemned`, `popped` and `due` are read only by
properties and by the write-once guard of `Call`.

Approximations, all of them on the side of the code:

- A notification sent right after an unlock belongs to the unlocking step: the
  thread it wakes must still win the mutex.  `StopRunning` clears the flag and
  notifies in one step for the same reason, except that the worker may have read
  the flag before and block after it (label `waitOnMemory`): that window is kept.
- Spurious wake-ups are left out: a loop that blocks again after one adds no
  behaviour.
- `worker_mutex_` is held across a step only by a thread joining the worker.
- A limit is a 64-bit word, so the unsynchronised read of the other store's limit
  sees the value before or after, never a mixture.
- A failed write is taken to leave no file.  Only whether a file exists, and its
  value, are modelled; the key is its name.
- Not modelled: removal of the directory by the destructor, logging.

### How `StructuredDataVersions` corresponds to the code

`sdv` is one object.  The map `versions_` is two functions on the same domain,
`parent` and `children`; `root_` is `rootParent` (its `first`) and `root`;
`orphans` maps an absent parent to a non-empty set; iterators are the names they
point to, `end()` is `NoVersion`.  A `VersionName` is a record compared by index and
then by identity, as `operator<` does.

The class has no locks and each public function runs alone, so each is one
action.  What a `Put` does is the operator `PutOutcome`, because `ApplySerialised`
calls `Put` for every version it holds, on the object it has parsed, until one
throws.  `Serialise` builds the list of branches of the cereal structures and
`Parsed` consumes it as `BranchFromCereal` does; only serialisations that
`Serialise` wrote are parsed, so the parser's error paths are not modelled.

`Dangling` is the value of a parent iterator into a map that no longer exists,
which is what `swap` leaves in the orphans.  Reading it, reading the children of
`end()`, and a search that never ends make `defined` FALSE, after which nothing is
claimed.  Assertions are compiled out, as in a release build.

### How `Active` corresponds to the code

`running`, `functors` and `flags` are `running_`, `functors_` and the owner of
`flags_mutex_`; `asleep` is the wait on `condition_`.  `Send` is two steps,
`LockFlags` and `Push`, because `flags_mutex_` is held from the test of `running_`
until the notification and the worker, which takes the same mutex at the head of
its loop, can be stopped by it.  `mutex_` is only ever held within a step.  `Run` is
`TestRunning`, `Wait` or `Take`, and `RunFunctor`; between the last two the worker
makes the calls of the functor, through the same `LockFlags` and `Push` as any other
thread.  The destructor's functor is `Stop`.

What the clients send (`Script`) and what each functor sends (`Body`) are constants,
which bounds the model.  A client that calls after the destructor has returned uses
an object that is gone: nothing is claimed of it, and `Alive` stops it.  `sent`
and `ran` are history.  Not modelled: a functor that throws (the program ends) and
one that destroys its own `Active` (it would join itself).

### How `TcpConnection` corresponds to the code

`conn` holds the fields of the `Connection` at each end: `start_flag_` (`started`),
`socket_close_flag_` and who is inside it (`closer`), `send_queue_`, and the two
buffers of `receiving_message_` (`size`, `data`).  `strand` is the queue of handlers
of each strand, which may be shared by both ends; only the first can be running, and
it leaves the queue when it is done.  A public function posts a handler; a
handler is one step, with one exception.  `DoClose` closes the socket and then calls
`on_connection_closed_`, two steps (`StrandCloses`, `StrandHasClosed`), because
another thread may get between: the completion handler of `ReadSize` is not wrapped
in the strand, so it runs beside it (`reader`), and may close too (`ReaderCloses`,
`ReaderHasClosed`).  Whoever comes second waits in `std::call_once`.

The sockets are external and behave as asio documents: an operation outstanding on
a socket completes once, with an error if the socket is closed here, or closed
there and everything read; `async_write` of two buffers writes them one after the
other, and two such writes at once would mix them (`WritePart` picks any); a
peer that closes may cause what was on its way to be lost (`Reset`).
A buffer of the system holds `WireCapacity` writes.  One end may be a plain socket
of another program, which writes what it likes, as `bad_socket` in the test
`BEH_InvalidMessageSizes` does, and reads and closes when it likes.

The bounds are the messages each end sends, in order (`Outbox`), how many
both ends send together (`MaxCalls`), and one call of
`Close` at a time.  Because the calls of `Send` are bounded, `SentIsReceived` can say that in
the end each of two open connections has received just what the other has sent.  `sent` counts a message when it was sent while the socket of
its end was open: what is sent afterwards is dropped.

Not modelled: connecting the socket; the destruction of a connection that is not
used any more; `Start` assigning the callbacks while `DoClose` reads them, which
nothing orders; and two threads inside one asio socket at once, which is taken as
one before the other.

### How the other components correspond to the code

Each of these modules has one variable, a record of the object's members, and one
action per public function or per handler, unless said otherwise.  What the code
asks of a library (asio, SQLite, Crypto++, the file system, the console) is an external
definition: it may fail wherever the code handles a failure.  The behaviours named
"met" are in the model, and are not claimed to be intended.

`AsioService` and `TcpListener`.  `service` is the pool, `at` where each thread is: in
`run`, in a handler, or at a statement of `Stop`.  `Stop` is four steps, as others may
call it too, and handlers may: clearing `thread_count_`, taking `mutex_`, each join,
the return.  The listener adds the acceptor's port and the chain of accepts:
`HandleAccept` and the next `async_accept` are two steps, because `DoStopListening`,
posted past the strand, may run between them.  `DoStopListening` is two as well, the
close and the end of its `call_once`, since the close lets the cancelled accept's handler
run on another thread.  The object lives while the owner or a
handler holds it; `ListenerStaysAlive` says that the raw `this` posted by
`StopListening` finds it alive and closes its acceptor, which holds for one call of it
before the owner lets go.
Met: after the close nothing holds the object any more, so that with the owner gone
the other thread may destroy it while `call_once` still has to set its flag (the model goes
on, and `ListenerStaysAlive` claims nothing of this window); a second call of
`StopListening` may find the object dead from the start; a handler that calls `Stop` while
another thread joins waits for it for ever (`StopsBothWays`, exempted by name);
`Stop` without `StopListening` waits for ever for the outstanding accept.

`SqliteTransaction`.  Several processes, a connection each, to one file with SQLite's
rule of one writer.  `Begin`, `Step` and `ExecuteCommit` are one call of SQLite each;
`COMMIT` succeeds, fails and keeps the transaction, or fails and rolls it back by
itself.  `committed` is not initialised by the constructor (`sqlite3_wrapper.cc:64`),
so it may be anything; when it happens to be set the destructor leaves the
transaction open, where `docs/sqlite_wrapper.md:27` has it rolled back.  `Reopen` is
also the death of the process.

`LruCache`.  `order` is the list and `storage` the map, with a clock that ticks.
Met: only `Add` removes what has expired, and only from the front of the list, so that
`Get` and `Check` find what is too old, which `lru_cache.h:23` seems to exclude.

`Logging`.  `Initialise` and `InitialiseVlog` with the options of a command line and of
a file; a message is the list of places it still goes to, written one after another by
the thread that logs or by that of `background_`, whose functors run as `Active` shows.
Met: `background_` is made before the options are looked at; an unknown level is
`INT_MIN` and logs everything; TLOG does not look at the console option; what goes to the
VLOG server is queued although `log_no_async` is set; `initialised` is set before the
fields it announces.

`Profiler`.  Who holds a pointer to the `Active` decides when its thread is joined;
the durations and their sums are kept.

`DownloadManager`.  `Update` is a step per download, and between two of them the server
may publish.  What is checked is that no update mixes two versions.  Met: files that
cannot be had are passed over, and the update still succeeds with those that came;
`WriteFile` truncates, does not ask whether what it writes arrives and returns true, so
that a file may be in the list for the caller and be cut (`cut`); a failed attempt leaves
the directory it has made, so that this version is refused from then on.

`SipHash`.  A state is the words compressed into it and a message its positions, so
that what is checked is which bytes go where; `b` is eight bits wide.

`BoundedString`.  `string_` and `valid_` of some objects of three types.  Met: moving
empties `string_` and leaves `valid_`.  Release builds: no `debug_string_`.

`DataTypes`.  `ImmutableData` and `MutableData`, with a hash abstracted to the value it
is of, so that a name is right when it equals the value.  An archive may be damaged between
`Save` and `Load`.  Met: a `load` that throws has already overwritten members; an
object that was moved from still counts as initialised, where `data.h:57` speaks of
default construction only.

`SecureInputString`.  `encrypted_chars_` is a function from positions to pieces,
`secure_string_` what its encryptor was given; the ciphers are left out.  Met: inserting
at a taken position closes the gaps behind it; a `Remove` that throws has removed
already; pieces of several characters count as one before finalising, as several after.
`EditedWhereAsked` compares what each call leaves with the text edited at the position that
was asked for.

`LockedPages`.  Two threads allocate and free neighbouring bytes; the manager's mutex
makes each change of the counts a step.  Met: a lock that the system refuses
is ignored (`failed`).

`Crypto`.  Values are terms, made by one call and used by another, whole or damaged:
`made` is the set of all of them.  What is refused, and with which error, is the code's;
that a cipher can be undone only with its key is external.  `ReadBack` says what comes
back undamaged, and what happens to damage where the call notices it.  Met: `Uncompress`
may return the text although a byte was damaged, since `Gunzip` skips
bytes of the header; recovering from too
few parts gives another text, not an error; signing with an invalid key is
a `signing_error`; decoded keys are not validated, so that a damaged one may be read as
anything.  Not modelled: errors
other than `CryptoPP::Exception` out of `rsa::Decrypt` and `DecodeKey`, `SecretRecoverData`
and `RetrieveFromShares` of an empty vector (`front()` of nothing).

`Encoding`.  Digits are numbers, and foreign texts are decoded too.  Met: `AB=C` is
accepted and its last character ignored.  Not modelled: characters outside the table of
hexadecimal digits, which the code looks up past its end.

`Errors`.  Every category and value, and integers that no process here has written.
`INT_MIN`, whose negation overflows, is left out.

`Menu`.  `shown` is the item on the screen and `entered` the number that was typed, so that
what ran can be compared with what the number was shown with.  Met: going back with 99 runs
the operation of the parent again; showing a menu without items dereferences a null
parent, after which the model stops (`crashed`).

`Identity` and `AddressSpace`.  Addresses of three bits instead of 512.  Met: the
header has an address accepted only if its common bits exceed those of the group as well
("CandidiateCLB > GroupCLB", `address_space_tool.h:59-60`), and the code only asks
that they be less than those and the leeway together (`BitsAllow`), so that with the default,
`kLowest`, any address is accepted.  No property takes either side; what is checked is that
bad groups share no node (`BadGroupsAreSeparate`).  In a network of one, `kClosest` compares
with memory behind the only node (any result).  A group of one under `kMean` would divide by zero and is
excluded by the bounds.

`BootstrapFileTool`.  A save fails before the file is opened, or writes it, or leaves it
cut.  Met: the last is reported as saved, because `WriteFile` looks neither at `write` nor at
`close` (`utils.cc:341`), and the flag for unsaved changes is cleared over a damaged
file (`cut` marks it; the property exempts it); a file with an entry that does not
convert leaves the list with the entries before it, and the tool says that it is loaded;
ports are cast to 16 bits; an empty list that was saved cannot be loaded.

`SigningTool`.  Keys are numbered, a group is the sharing it belongs to; what is saved goes
to a file of its own, but for keyfiles, which are named after people.  A name is a
line: `CreateKeyGroup` takes all of it for the name of the file, `GroupSignIn` only its
first word (`FirstWord`).  Met: whoever gave a name of two words cannot be named at a
sign-in, and whoever gave an empty one neither; a keyfile of which the system cut the
write counts as given out; a key that was created in this session may be saved whole
although it was split; `have_*`
are set by creating keys only, so that keys that were loaded are not saved; a group of
two is accepted and ends the tool in `SecretShareData`.  Not modelled: names that
are paths and lead to the same file.

## Runs

| Run | Setting | Shows |
| --- | --- | --- |
| `buffer_pop` | pop functor, `FairSpec` | mutual exclusion, accounting and limits, indexes against directory, the contract, what `Get` finds and `Delete` leaves, every call returns |
| `buffer_wait` | no pop functor, files may fail, deletes by predicate, limits raised, `FairSpec` | space reaches the stores that wait for it and the destructor returns; a worker that has ended is reported |
| `versions` | seven versions, five pairs of limits, merges | parents, children, tips, orphans and root agree; serialising loses nothing; the order of arrival is irrelevant; the object implements `VersionForest` |
| `active` | two clients, seven functors, the owner may destroy, `FairSpec` | first in first out, what the destructor waits for; it returns, and what is sent before it runs |
| `tcp` | a client, which may be a plain socket, and a server, a strand each, both send, `FairSpec` | one write and one read at a time; the pair implements `MessageStream`; what is sent arrives, both ways, unless an end is closed; a close and a message that is too large are noticed, a closed connection comes to rest |
| `components` | each other component in an instance of its own, `FairSpec` of the listener | one property for each, for the listener three, of those its module states |

`DataBuffer`: two clients, three keys, values of one byte (fits the memory) and two bytes
(goes straight to disk), a memory of one byte and a disk of two, two or three
calls per client.  That is enough for a store to wait in each of the two places, for
two threads to wait for the same space, for an eviction, a pop, a cancellation
and every exception to happen; the passing runs between them take every action.
`ReuseKeys` is FALSE in the passing runs: storing a key again while its first
value is under way breaks the buffer (`stale_completion`), so the properties are
checked for write-once keys, which is how content-addressed data uses it.

`StructuredDataVersions`: seven versions (two of them with index 0), most with two
possible parents, from one version and one branch up to six and three: forks, orphans under
orphans, replacement of the root by a child and by an orphan, both limits at
once and a chain of three that has to be refused all occur.  The state is finite
without a bound.  In its requests no chain closes on the version just adopted
or past a first child; `circular_put` shows what happens when one does.

`Active`: two clients with two functors each, of which one sends two more and one
sends one.  That is enough for senders to interleave with each other, with
functors that send, and with a destructor that comes at any moment.

`TcpConnection`: messages of size one, two and three where two is the largest
allowed, one place in each system buffer, so that a writer stops half way through
a message; there are two calls of `Send` in all (`MaxCalls`): two of the server, one of each,
or two of the client, whose second message is refused, or, from a plain socket, comes
and is too large.  Two
messages in one direction are what it takes for one to wait in `send_queue_` while
another is written, and for the buffer of `receiving_message_` to be filled again
before the first is handed over.  Each end has a strand.

`components`: the instances are in `MCComponents` and its `.cfg`.  Two of whatever may
interfere with another of its kind (threads, connections, owners, allocations that can
share a page, callers of `Stop`), and enough of the rest for a case and its neighbour:

- listener: two threads in the pool, two callers of `Stop`, one handler of a user, two
  ports of which one is busy, two connections, one failed accept, one `StopListening`.
- transactions: two connections, two attempts, three rows.
- downloads: three versions with different manifests, four calls of `Update`.
- pages: two threads, three pages of two bytes, allocations of none to three bytes.
- data: two immutable objects, one mutable, two values.

- cache: three keys, two places without an age, or three with age one; five uses.
- log: two threads and a worker, two projects and a file of neither, two messages.
- profiler: three entries at two places.
- addresses: three bits, groups of two, six nodes, two bad groups.
- secret input: four pieces (an empty one, one of two characters), positions to three.
- bootstrap file: one file, three entries (one wraps, one does not convert), two endpoints.
- signing: four names, one of two words, one key created beside one of an earlier session,
  one sharing.
- errors: all categories and values, and ten integers at their edges.
- `SipHash`: calls of 0, 1, 5, 8, 11 and 100 bytes, 270 in all, past the wrap of `b`.
- menus: four items, three choices.  Strings: three objects, sizes to three, bounds 1..2 and
  2..2.  Encoding: four bytes of 0, 17 and 255.
- cryptography: two owners, nine values made from one text, levels 9 and 10.

`CHECK_DEADLOCK FALSE` stands where the system may really stop.  In `buffer_wait`
a `Store` without a pop functor may block for ever because nobody
deletes, which the header documents, and a failed write stops the buffer with
stores blocked in it.  `versions` stops where a call is undefined.  `active` is
over after the destructor, and `tcp` when both ends are closed
and all calls made.  In `components` most are over when their bound is reached, a menu
when it is left, a listener when its threads have ended.  `buffer_pop` checks deadlock.

Fairness is weak.  In `DataBuffer` and `Active` it is per thread: the operating system's
scheduler runs every thread that is ready, and a mutex that is free is eventually
given to a thread that asks.  It is enough for what is claimed because in
`DataBuffer` a waiting thread, once notified, stays among those that want the
mutex, and in `Active` only so many functors are sent, so that others cannot take
`flags_mutex_` for ever.  In `TcpConnection` it is per strand, per handler outside
a strand and per direction of a socket: threads run the `io_service`, and the system
moves what it can.  In `TcpListener` it is per thread of the pool, per call of `Stop`
that has begun, and for the system to complete an accept with a connection that is there,
or with an error when the acceptor is closed; nobody is obliged to connect.  No client is
obliged to make a call, and no owner to destroy the object; a destructor that has begun
goes on.

### Where the code and its documentation disagree

Each of these runs checks one statement of the header, an assertion or a test,
and TLC shows a behaviour of the code against it.

| Run | What happens |
| --- | --- |
| `stale_completion` | a key is stored again while its old value is copied; the new value is marked as on disk, evicted, and lost |
| `join_deadlock` | a client joins the worker while holding the mutex that the worker needs |
| `circular_put` | a version is put under its own orphan, and both drop out of every branch |
| `root_at_limit` | at the branch limit, the real root arriving late reads the children of `end()` |
| `siphash_length` | the bytes left over at the end are counted twice in the last word, which then differs from the reference (`siphash.cc:33`) |
| `swapped_orphans` | after a merge the orphans' parents point into the map that was destroyed |

Other behaviours of the code that the model shows when the constants or the
requests of a run are widened, and that the passing runs therefore exclude:

- without a pop functor, a store cancelled while it waits is written all the same
  if space appears before it looks at its state, so that a file belongs to no
  element (`Accounting` fails);
- a limit lowered below the size of a value whose store is waiting makes the
  subtraction in `HasSpace` wrap, and the store goes ahead (`Accounting` fails);
- a pop that fails ends the worker but leaves `running_` set; `CheckWorkerIsStillRunning`
  reports that once, the `Delete` that begins a `Store` may swallow even this, and later
  calls go on, where `data_buffer.h:68`, `:74` and `:78` have them throw
  (`DeadWorkerIsReported` fails with a pop functor and failing files);
- a store abandoned because the buffer stopped leaves its element `kStarted`, and
  a `Get` waiting for it never returns;
- `Delete(predicate)` erases elements of the disk index but neither their files nor
  their bytes (`Accounting` fails, which is why `buffer_pop` makes no such call), so that a
  later store may find nothing to wait for but itself, where
  the assertion at `data_buffer.cc:218` says otherwise;
- each limit setter reads the other store's limit under its own mutex alone, so that
  two of them at once leave the memory limit above the disk limit, which
  `data_buffer.h:82` and `:84` exclude; no passing run checks the order of the limits.

For `StructuredDataVersions`, the passing run includes these, none of which breaks
what it checks:

- at the branch limit, an orphan that is the missing parent of a root without
  children sets `erase_existing_root` and so trips the assertion of `Insert`
  (`.cc:464`); with children under the root it is refused with
  `cannot_exceed_limit` although the number of branches would not change;
- a root without children is succeeded by an orphan of the lowest absent parent,
  not by "the orphan with the lowest VersionName" as the header has it;
- a merge at the branch limit may erase a version of the other object and then
  take the same version again under the parent it has here, where a conflict was
  to be reported.

For `Active`: a functor sent after the destructor's own, by a client or by a functor
that was queued before it, is dropped without a word; `AllBeforeStopHaveRun` says
exactly what is not.

For `tcp::Connection`, all of them in the passing runs:

- the comment at `connection.cc:151` has the message dispatched "outside the strand",
  but it is posted to `strand_` (line 154), and the order of messages rests on that;
- a connection closed before it is started closes its socket without calling
  `on_connection_closed_`, and a later `Start` finds the close already used up;
- a write that fails leaves its message at the head of `send_queue_`, so that
  every later `Send` only makes the queue longer;
- `on_message_received_` may still be called after `on_connection_closed_` has been.

## Proofs

`DataBufferProofs` proves, for all values of the constants that satisfy the four
assumptions named in `DataBuffer` (distinct threads; `NoValue` and the outcomes of a call
that finds no value are not values; positive sizes; ordered initial limits; requests that
are calls):

- `TypeCorrect`: `Spec => []TypeOK`.  The invariant is inductive because, beside
  the types, it says which operation a thread at each label is in (`OpsAt`).
- `MutexesExclude`: `Spec => []MutualExclusion`, inductive relative to `TypeOK`.
  One lemma, `OwnedKept`, reduces a step to the label the thread goes to and the
  owners before and after; then each action is a case.

It also proves `EvictionLosesNothing`: `Spec => []CompletedIsOnDisk` for
clients that store a key once (`~ReuseKeys`; for others the run `stale_completion`
shows what goes wrong).  The property relates the two indexes and the directory at one
moment; the strengthening `OneWay` follows a key all the way, as long as the buffer runs
and the key was neither popped nor condemned by a Delete: it is nowhere, or in the call
of one `Store`, or in memory, or in the hands of the worker (`StoredSoFar` says what has
got where at each stage), or settled (`StateIsTrue`).  `DeletesAreKnown` keeps the
Deletes away from such a key.  Each index is seen as the set of its elements with a key
(`ElementsOf`), at most one (`Once`); three lemmas say what removing, appending and
marking do to that set, one (`KeptWay`) that a step about another key, or an eviction of a
settled element, changes nothing, and then each action is a lemma.

And it proves `DeadWorkerIsNoticed`, `Spec => DeadWorkerIsReported` for a buffer without a
pop functor: whatever ends the worker there clears `running_` first (`DeadIsStopped`).  With
one it does not, as said above.

It proves `ImplementsContract`, `Spec => Contract` for clients that store a key once: every
behaviour of the two indexes, the directory, the worker and the clients is one of
`BufferContract`.  Here a Delete, a pop, a failing file or a stop may come between any two
steps, where `OneWay` says nothing any more; `AllCoherent` is what stays true of a key then
(at most one element in each index, one thread that stores it, a completed element with a
file, the same value everywhere).  `Served` sums up what a step makes a Get find: the same
of every key, or, of one key, a value that a client is storing (`Accepted`), nothing any
more of a key that was condemned or popped (`Lost`), a pop (`Popped`), or the end of a Store
that a failing pop cuts off (`Retracted`).  The last is an action of the contract because
without it the refinement is false: with a pop functor whose file cannot be
removed, a large value that a Get already finds is gone when its Store throws; the attempt
to prove it showed this, and TLC confirms it on a small instance.

From the same invariant it proves `HeldIsFound`, `Spec => GetFindsHeld`, and
`DeletedIsGone`, `Spec => DeleteLeavesNothing`, again for clients that store a key once.
Both are about a call that looks into memory, lets go of its mutex and looks on disk
later.  What is known in between is `DueOK`: a key that was held when the call began is
`Past`, that is nobody will put it into memory again (`PastStaysOut`), so once the call has
found it missing from memory or removed it from there, it is on disk, in a store under way or
nowhere; and for a `Get`, by `Served`, it is still held if it was neither
condemned nor popped and the buffer still runs.  `GetFindsHeld` also needs that the
worker's future is ready only when the worker has ended (`Ended`).

The searches of an index are `SelectInSeq`, whose result is a least element; the
lemmas `LeastExists` and `LeastOrZero` derive what is needed of it from
well-founded induction on the naturals.

`AccountingProofs` proves `SpaceIsAccountedFor`, `Spec => []Accounting`: for any number of
clients, keys and values, `current` of either store is the sum of the sizes of what
its index or its directory holds, counting what a thread has taken but not yet listed, and
is no more than `max`.

- The sums are `SumFunction`, a fold over a set.  What such a fold computes is not within
  reach of induction theorems that take an operator, so the module shows by the least
  counterexample that it does not depend on the order of the set (`SumBesides`: the
  sum is that of one element and that of those besides it); adding, removing and
  marking one element follow.
- The invariant has four parts.  `Sane`: what is waited for or written
  fits its store, and belongs to the thread that says so.  `Plain`: nothing is condemned by a
  predicate.  `MemoryAccounted` and `DiskAccounted`: the sums.  The parts that had
  to be found are `Fits` (a client that waits wants no more than the limit, so that the
  subtraction in `HasSpace` never wraps), `Writes` (a thread that makes room on the disk pops
  and never waits, so that until its write has ended nobody takes its started element or
  the space it has found) and `Belongs` (a file has a completed element).
- It assumes a pop functor, keys stored once and clients that only store, get and
  delete.  Each hypothesis is one without which the code itself fails the property, as
  said under "Where the code and its documentation disagree": a cancelled store that waits for the disk may
  write a file of no element, a second store overwrites the file of the first, `DeleteIf`
  leaves files, and a limit may be set below what is waited for.  `buffer_pop` checks the
  same setting.

`VersionsProofs` proves, for any set of names, any limits and any requests that satisfy the
three assumptions named in `StructuredDataVersions`:

- `StaysWellFormed`: `Spec => []WellFormed`.  The invariant `Sound` is one simulation relation:
  there is a forest `c`, a map from each version to the one it was put under,
  such that every field of the object is what `c` makes of it (`Keeps(d, c)`: parents and
  children are each other's inverse, the root is the one version without a parent
  that is not an orphan, `orphans` are those whose parent is absent, grouped by it),
  and `c` is within the limits (`Small`).  A search up or down the map ends because the
  indexes rise (`Lineage`), which is the well-founded relation of the proofs.
- `ImplementsTheForest`: `Spec => Forest`.  A `Put` that succeeds adds one edge to `c`, or
  replaces the root; a deleted branch takes away the versions that only its tip leads to;
  everything else is a stutter.  All is read off `Keeps` before and after.
- `OrderIsIrrelevant`: `Spec => []ArrivalOrderIsIrrelevant`.  What a `Put` that returns makes of
  the forest is one of three things (`Took`), which two requests may do in either order as long as
  nothing is lost (`TookInAnyOrder`); and an object that keeps a forest and has a root without
  a parent is determined by it, field by field (`SameForestSameObject`), since without a merge no
  iterator is `Dangling` (`Clean`).

All three assume `Numbered` (a version is put under one with a lower index) and that no other
object is merged in.  The first is what a client of the class is meant to do and the code does not
test: `CheckVersionNotInBranch` compares only the first child of each version, so that a
chain may close otherwise (`circular_put`).  The second excludes `ApplySerialised`, whose parser is
a recursion over nested branches; with it the properties stay with TLC.

`ActiveProofs` proves, for any clients, scripts and bodies that satisfy the two
assumptions named in `Active` (distinct threads; `Stop` is not one of the functors,
and what is sent are finite sequences of functors):

- `TypeCorrect`: `Spec => []TypeOK`, inductive as it stands: it says who holds
  `flags_mutex_` at which label and when the worker has a functor in hand.
- `FunctorsRunInOrder`: `Spec => []FirstInFirstOut`, inductive relative to `TypeOK`:
  each action moves a functor from the head of one sequence to the end of the next.
- `DestructorWaitsForAll`: `Spec => []AllBeforeStopHaveRun`.  The property only speaks
  of the state after the destructor; the strengthening `StopIsLast` follows the
  worker there: `running_` is set exactly until `Stop` has run, nothing runs after
  it, and the thread ends only with `running_` clear.

`TcpProofs` proves, for any two ends that are each other's peers, any strands, even one
for both, any messages and any capacity of the wire (the two assumptions named in
`TcpConnection`; a plain socket may be at either end):

- `OneOperationAtATime`: `Spec => []OneAtATime`, which is what asio asks of a socket and
  nothing in `connection.cc` tests.  The inductive invariant `IInv` is `TypeOK`, what
  the handlers in a strand look like (`Posts`), and, per end, `EndOK`: who closes
  (`Closing`), what is queued and written (`WriterOK`), and what is being
  read (`ReaderOK`).  A read under way, its completion handler beside the strand and the
  handlers in the strand that lead to the next are counted together (`Links`), as the
  sizes of the sets of places in the strand where they are (`Where`, `Behind`): there is
  one as long as the connection is started and open, and never two.
- `ImplementsStream`: `Spec => MessagesStream`, every behaviour of two connections is one of
  `MessageStream`.  The parts of `EndOK` that carry it are `Queued`, `Chain` and
  `Wire`: the messages handed over, the one in `receiving_message_`, what is on
  the wire and what `send_queue_` holds are together what was sent, in order and without a
  gap.  Sending, closing, the close callback and the message callback are steps of
  `MessageStream`, one lemma each; every other handler is a stutter.

The other proof modules have a theorem or two each, an inductive invariant and a lemma per
action.  Instead of the type of the record, most of their invariants say which
fields it has, since that is all a step needs to know of the fields it leaves alone.

Their assumptions are those that the modules they extend name for their constants.

- `ComponentProofs`, `AllOrNothing`: `Spec => []CommittedOrNothing`.  What is pending belongs to
  the one connection in a transaction, and is what its `Transaction` has written
  (`OwnRowsPend`).  Assumes that `Nobody` is not a connection.
- `ListenerProofs`, `QuietWhenStopped`: `Spec => []QuietAfterStop`.  `Joining` says that who
  joins holds `mutex_`, that
  whom it has joined has ended, and that all have when `mutex_` is free again with the
  work gone, which is why the next caller need not join.  Assumes
  that callers and threads of the pool are different, and `Nobody` is neither.
- `ListenerProofs`, `AcceptsKeepTheListener`: `Spec => []ListenerStaysAlive` if
  `StopListening` is called at most once (a second call after the owner has let go may
  find the object gone, as said above).  It is about the object up to the close of its
  acceptor, not about the end of `DoStopListening` after it.  `Chain` says that there is exactly one accept,
  outstanding, ready or running, as long as the acceptor is open, and that only what
  `StopListening` posted closes it; that accept holds the object.  Needs the
  pool to be finite.
- `ComponentProofs`, `EveryUpdateIsOneVersion`: `Spec => UpdatesAreOneVersion`.  The versions
  `Update` has in its variables are one (`OneVersionAtATime`), and the directory was
  made by the attempt under way (`OwnDirectory`), so that no file in it is of an earlier one.
  That an update is whole is not claimed, since it need not be.  Assumes that
  versions are numbers.
- `ComponentProofs`, `OnlyErrorsSpoil`: `Spec => SpoiltOnlyByAnError`.  What is
  saved, or damaged afterwards, is never read as an uninitialised member
  (`SavedIsInitialised`).  Assumes
  that the marks for values that are not there are not values, and that no object is
  of both types.
- `ComponentProofs`, `AllSecretsAreLocked`: `Spec => []SecretsAreLocked`.  The strengthening
  `Counted` says that the count of a page is the number of allocations on it.
  The lemmas `Quotient` and `RangeIsPages` show that the pages which `LockRange`
  computes from the first and the last byte are those of all the bytes.  Assumes a
  positive page size and finitely many threads.
- `ComponentProofs`, `GroupsHoldTheirKeys`: `SigningSpec => []GroupHoldsItsKey`.  `Given` says
  that the parts handed out and the people of the group who have a keyfile go together one
  by one, so that a complete group has as many people as parts; `KeyIsSecret`, that
  whoever has the key of an earlier session is signed in, for whom the tool
  does not save.  Of a quorum, those can sign in whose keyfile was not cut and
  whose name is one word.  The statement does not say that fewer people cannot get the key, which is
  the external secret sharing's promise.  Assumes finitely many names.
- `ComponentProofs`, `EditsAreAskedAbout`: `BootstrapSpec => []GivenUpOnlyIfSaved`.  `ListIInv` adds
  that every port in the list is below 65536: it was checked when it was entered or cast
  when it was read, which is why saving the list and reading it again changes nothing
  (`SavedIsRead`), whatever the file held before.  It excepts a list whose save was cut (`cut`), of which the tool
  knows nothing.  Assumes that the two marks for a file that
  is not there or does not parse are not addresses.
- `ComponentProofs`, `OptionsMeanWhatIsShown`: `MenuSpec => []WhatIsShownIsChosen`.  `MenuTree`
  says that parents and children name each other, so that the parent shown in place of an item
  without children has one at least; `Means`, that what ran last is what the number
  entered was shown with (`TargetIsShown`).  A menu without items crashes when it is shown;
  the theorem is about what is on the screen.
- `ComponentProofs`, `ErrorsArriveAsThemselves`: `ErrorSpec => []ErrorsTravel`, for the mathematical
  integers (for `INT_MIN`, see above).  The codes of every category are below `kMultiple` (`Codes`),
  so that quotient and remainder of what is written give number and code back
  (`WrittenIsRead`), and nothing else is read as them (`RefusedOrTheSame`).
- `ComponentProofs`, `AnyStringIsAKey`: `BoundedSpec => []StringsAreKeys`.  That the strings stay
  within their bounds is inductive by itself.  That the comparisons order them needs that
  comparing lexicographically does (`BeforeIsATotalOrder`): of two different strings one
  is before the other from a place on (`BeforeFrom`), the least of those where they differ.
  Assumes that bounds are natural numbers.
- `ComponentProofs`, `WhatIsMadeIsReadBack`: `CryptoSpec => []ReadBack`, for any owners, levels
  and sharings.  `KnownTerm` says of every value which call made it, of texts that are still at
  hand, and where it may be damaged; enough parts of one text put together give that text (`PartsAreRead`), and others
  `another`.  What is proved is how the code combines the calls and what it refuses; that
  ciphers and signatures have one key each is in the terms, and external.
- `LruCacheProofs`, `OldestIsThrownOut`: `CacheSpec => EvictsByUse`.  The invariant `CacheOK` says
  that the list holds the keys of the map in the order of their last use, which makes every key
  appear once (`OnceEach`).  What `RemoveOldestElement` and the loop over expired entries leave is
  the list from some place on with the map cut to it, whichever of them ran (`CutIsOK`,
  `CutAgain`); `Get` and `Delete` take a key out of the middle (`UnlinkedReads`).  Assumes a
  positive capacity: with 0 the first `Add` would take from an empty list, which the code asserts
  not to happen.

Only model-checked: `RoundTrip` of `StructuredDataVersions` and all that involves
`ApplySerialised`; the hand-over of space in `DataBuffer` for the settings that
`SpaceIsAccountedFor` excludes; the other properties of the components; and every liveness
property (fairness and `ENABLED` are beyond the prover).  `RoundTrip`, the encodings and
`SipHash` compute by recursion over sequences of any length, about which nothing can be
proved by induction with the provers in use.

## Not modelled

- `SafeQueue`: no part of the repository uses it, and each call is one critical section.
- Version and size conversions, file utilities, program options (`utils.cc`, `convert.h`): no
  state that lasts; formatting and I/O.
- The command-line prompts (`cli.cc`), `qa_tool.cc` and the SQLite benchmark: prompts that repeat
  until they are satisfied, and a menu as it is in `Menu`.
- IPC and processes (`ipc.cc`, `process.cc`): segments and handles of the operating system.
- The application environment (`config.cc`, `clock.cc`, test support): switches and directories.
- In components that are modelled in part: binding and reading columns and checkpoints of
  SQLite; `GetBootstrapInfo`; colours, layout, the help text and the server connection of the logs; the
  overloads of `hash_append`; the report of the address space tool; `TaggedValue` and the macros; the
  derivation of credentials; hashing of files and key strength; the archive templates;
  the messages of errors.  None of them has state of its own or waits for anything.

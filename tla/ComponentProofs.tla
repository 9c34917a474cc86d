---------------------------- MODULE ComponentProofs ----------------------------
(***************************************************************************)
(* Proofs about ten of the smaller components, one section each: the data  *)
(* objects (OnlyErrorsSpoil), the downloads of new versions                *)
(* (EveryUpdateIsOneVersion), the pages under the secure strings           *)
(* (AllSecretsAreLocked), the SQLite transactions (AllOrNothing), the      *)
(* signing tool (GroupsHoldTheirKeys), the bootstrap file tool             *)
(* (EditsAreAskedAbout), the menus (OptionsMeanWhatIsShown), the errors    *)
(* (ErrorsArriveAsThemselves), the bounded strings (AnyStringIsAKey) and   *)
(* the cryptography (WhatIsMadeIsReadBack).                                *)
(* The components share no variable; each section has its own invariant    *)
(* and stands by itself.                                                   *)
(***************************************************************************)
EXTENDS DataTypes, DownloadManager, LockedPages, SqliteTransaction,
        SigningTool, BootstrapFileTool, Menu, Errors, BoundedString, Crypto,
        FiniteSetTheorems, FunctionTheorems, WellFoundedInduction, NaturalsInduction, TLAPS

-----------------------------------------------------------------------------
(* Proofs about DataTypes, for any objects and contents: OnlyErrorsSpoil.  *)
(* An object that was read is whole because what an archive holds can be   *)
(* unreadable, but never uninitialised: SavedIsInitialised.                *)

Members(x) == {"name", "value"} \subseteq DOMAIN x
DataShape ==
  /\ {"objects", "archive", "failed"} \subseteq DOMAIN data
  /\ DOMAIN data.objects = Objects
  /\ \A o \in Objects : Members(At(o))
  /\ Members(data.archive)

\* What is saved, or damaged afterwards, is not taken for an uninitialised member.
SavedIsInitialised == None \notin {data.archive.name, data.archive.value}

DataIInv == DataShape /\ SavedIsInitialised

LEMMA DataInitIInv == DataInit => DataIInv
PROOF
  <1> SUFFICES ASSUME DataInit PROVE DataIInv
    OBVIOUS
  <1>1. /\ {"objects", "archive", "failed"} \subseteq DOMAIN data
        /\ data.objects = [o \in Objects |-> [name |-> None, value |-> None]]
        /\ data.archive = [name |-> Bad, value |-> Bad]
    BY DEF DataInit
  <1>2. DataShape
    BY <1>1 DEF DataShape, Members, At
  <1>3. SavedIsInitialised
    <2>1. data.archive.name = Bad /\ data.archive.value = Bad
      BY <1>1
    <2>2. None # Bad
      BY DEF None, Bad
    <2> QED
      BY <2>1, <2>2 DEF SavedIsInitialised
  <1> QED
    BY <1>2, <1>3 DEF DataIInv

LEMMA ThrowsStep == ASSUME DataIInv, Throws PROVE DataIInv' /\ AnErrorSpoils
PROOF
  BY DEF Throws, DataIInv, DataShape, SavedIsInitialised, Members, At, AnErrorSpoils

\* A new content for one object, in a call that does not throw.
LEMMA PutStep ==
  ASSUME DataIInv, NEW o \in Objects, NEW x, Members(x), data' = Put(o, x),
         Whole(o, x) \/ \E p \in Objects : ~Whole(p, At(p)) /\ x = At(p)
  PROVE  DataIInv' /\ AnErrorSpoils
PROOF
  <1> USE DEF DataIInv, DataShape, SavedIsInitialised, At, Put
  <1>1. data'.objects = [data.objects EXCEPT ![o] = x] /\ data'.archive = data.archive
    OBVIOUS
  <1>2. {"objects", "archive", "failed"} \subseteq DOMAIN data'
    OBVIOUS
  <1>3. data'.objects[o] = x /\ \A p \in Objects \ {o} : data'.objects[p] = At(p)
    BY <1>1
  <1>4. DataIInv'
    BY <1>1, <1>2, <1>3
  <1>5. AnErrorSpoils
    BY <1>3 DEF AnErrorSpoils
  <1> QED
    BY <1>4, <1>5

LEMMA MakeSteps ==
  ASSUME DataIInv,
         \/ \E o \in Objects : Default(o)
         \/ \E o \in Immutables, value \in Values \cup {None} : MakeImmutable(o, value)
         \/ \E o \in Mutables, name, value \in Values \cup {None} : MakeMutable(o, name, value)
  PROVE  DataIInv' /\ AnErrorSpoils
PROOF
  <1>1. ASSUME NEW o \in Objects, Default(o) PROVE DataIInv' /\ AnErrorSpoils
    BY <1>1, PutStep DEF Default, Whole, Members
  <1>2. ASSUME NEW o \in Immutables, NEW value, MakeImmutable(o, value)
        PROVE  DataIInv' /\ AnErrorSpoils
    BY <1>2, PutStep, ThrowsStep DEF MakeImmutable, Whole, Members, Objects
  <1>3. ASSUME NEW o \in Mutables, NEW name, NEW value, MakeMutable(o, name, value)
        PROVE  DataIInv' /\ AnErrorSpoils
    BY <1>3, PutStep, ThrowsStep, ObjectsAssumption DEF MakeMutable, Whole, Members, Objects
  <1> QED
    BY <1>1, <1>2, <1>3

LEMMA CopyStep ==
  ASSUME DataIInv, NEW o \in Objects, NEW p \in Objects, Copy(o, p)
  PROVE  DataIInv' /\ AnErrorSpoils
PROOF
  <1>1. Members(At(p)) /\ data' = Put(o, At(p))
    BY DEF Copy, DataIInv, DataShape
  <1>2. Whole(p, At(p)) => Whole(o, At(p))
    BY DEF Copy, SameType, Whole
  <1> QED
    BY <1>1, <1>2, PutStep

\* What is moved from loses its members both or neither.
LEMMA MoveStep ==
  ASSUME DataIInv, NEW o \in Objects, NEW p \in Objects, Move(o, p)
  PROVE  DataIInv' /\ AnErrorSpoils
PROOF
  <1> DEFINE left == [name |-> Left(At(p).name), value |-> Left(At(p).value)]
  <1>1. /\ o # p /\ data'.archive = data.archive
        /\ {"objects", "archive", "failed"} \subseteq DOMAIN data'
        /\ DOMAIN data'.objects = Objects
        /\ data'.objects[o] = At(p) /\ data'.objects[p] = left
        /\ \A q \in Objects \ {o, p} : data'.objects[q] = At(q)
    BY DEF Move, SameType, Put, DataIInv, DataShape, At
  <1>2. Members(left)
    BY DEF Members
  <1>3. DataIInv'
    BY <1>1, <1>2 DEF DataIInv, DataShape, SavedIsInitialised, At
  <1>4. Whole(p, At(p)) => Whole(p, left)
    BY DEF Whole, Left, None, Emptied
  <1>5. Whole(p, At(p)) => Whole(o, At(p))
    BY DEF Move, SameType, Whole
  <1>6. AnErrorSpoils
    BY <1>1, <1>4, <1>5 DEF AnErrorSpoils
  <1> QED
    BY <1>3, <1>6

LEMMA ArchiveSteps ==
  ASSUME DataIInv,
         \/ \E o \in Objects : Save(o)
         \/ \E name, value \in Values \cup {Bad} : Damage(name, value)
  PROVE  DataIInv' /\ AnErrorSpoils
PROOF
  <1> USE DEF DataIInv, DataShape, SavedIsInitialised, Members, At, AnErrorSpoils
  <1>1. ASSUME NEW o \in Objects, Save(o) PROVE DataIInv' /\ AnErrorSpoils
    <2> DEFINE written(member) == IF member = Emptied THEN Bad ELSE member
               saved == [name |-> written(At(o).name), value |-> written(At(o).value)]
    <2>1. CASE None \in {At(o).name, At(o).value}
      BY <1>1, <2>1, ThrowsStep DEF Save
    <2>2. CASE None \notin {At(o).name, At(o).value}
      <3>1. data' = [data EXCEPT !.archive = saved, !.failed = FALSE]
        BY <1>1, <2>2 DEF Save
      <3>2. /\ data'.objects = data.objects /\ data'.archive = saved
            /\ {"objects", "archive", "failed"} \subseteq DOMAIN data'
        BY <3>1
      <3>3. saved.name # None /\ saved.value # None /\ {"name", "value"} \subseteq DOMAIN saved
        BY <2>2 DEF None, Bad
      <3> HIDE DEF saved
      <3> QED
        BY <3>2, <3>3
    <2> QED
      BY <2>1, <2>2
  <1>2. ASSUME NEW name \in Values \cup {Bad}, NEW value \in Values \cup {Bad}, Damage(name, value)
        PROVE  DataIInv' /\ AnErrorSpoils
    BY <1>2, ValuesAssumption DEF Damage, None, Bad
  <1> QED
    BY <1>1, <1>2

\* A load that fails half way has thrown, and one that does not has read two members.
LEMMA LoadStep ==
  ASSUME DataIInv, NEW o \in Objects, Load(o)
  PROVE  DataIInv' /\ AnErrorSpoils
PROOF
  <1> USE DEF DataIInv, DataShape, SavedIsInitialised, Members, At, Put
  <1>1. CASE data.archive.name = Bad
    BY <1>1 DEF Load, AnErrorSpoils
  <1>2. CASE data.archive.name # Bad /\ data.archive.value = Bad
    BY <1>2 DEF Load, AnErrorSpoils
  <1>3. CASE data.archive.name # Bad /\ data.archive.value # Bad
    BY <1>3 DEF Load, AnErrorSpoils, Accepted, Whole
  <1> QED
    BY <1>1, <1>2, <1>3

\* Whatever is copied, moved, saved, damaged and read, an object stops being whole only in
\* a call that throws, or as a copy: for any number of objects and contents.
THEOREM OnlyErrorsSpoil == DataSpec => SpoiltOnlyByAnError
PROOF
  <1>1. DataIInv /\ [DataNext]_data => DataIInv' /\ [AnErrorSpoils]_data
    <2> SUFFICES ASSUME DataIInv, [DataNext]_data PROVE DataIInv' /\ [AnErrorSpoils]_data
      OBVIOUS
    <2>1. CASE UNCHANGED data
      BY <2>1 DEF DataIInv, DataShape, SavedIsInitialised, At
    <2>2. CASE DataNext
      BY <2>2, MakeSteps, CopyStep, MoveStep, ArchiveSteps, LoadStep DEF DataNext
    <2> QED
      BY <2>1, <2>2
  <1> QED
    BY <1>1, DataInitIInv, PTL DEF DataSpec, SpoiltOnlyByAnError

-----------------------------------------------------------------------------
(* Proofs about DownloadManager, for any manifests and any number of       *)
(* updates: EveryUpdateIsOneVersion.  UpdatesAreOneVersion speaks of the   *)
(* step that ends an update; OneVersionAtATime follows what was fetched    *)
(* until then, and OwnDirectory says why nothing else can be among it.     *)

\* The members of manager that the argument is about are there; versions are numbers.
DownloadShape ==
  /\ {"published", "local", "remote", "path", "directories", "files", "stage", "todo",
      "updated", "cut"} \subseteq DOMAIN manager
  /\ manager.published \in Versions /\ manager.local \in Nat

FilesOf(v) == {file \in manager.files : file[1] = v}

\* What an update is about is one version, newer than the local one, from the file that
\* names it to the last of its files.
OneVersionAtATime ==
  /\ manager.stage \in {"version", "directory", "manifest"} => manager.updated = {}
  /\ manager.stage \in {"directory", "manifest", "files"} =>
       manager.path = manager.remote /\ manager.remote \in Versions /\ manager.remote > manager.local
  /\ manager.stage = "files" =>
       /\ manager.todo \subseteq Manifests[manager.remote]
       /\ manager.updated = FilesOf(manager.remote)

\* A version has files, of its manifest, only after a directory was made for it; and one
\* that is being fetched has a new directory.
OwnDirectory ==
  /\ \A file \in manager.files : file[1] \in manager.directories /\ file[2] \in Manifests[file[1]]
  /\ manager.stage \in {"manifest", "files"} => manager.remote \in manager.directories
  /\ manager.stage = "manifest" => FilesOf(manager.remote) = {}

DownloadIInv == DownloadShape /\ OneVersionAtATime /\ OwnDirectory

LEMMA DownloadInitIInv == ASSUME DownloadInit PROVE DownloadIInv
PROOF
  BY VersionsAssumption DEF DownloadInit, Invalid, DownloadIInv, DownloadShape, FilesOf, OneVersionAtATime, OwnDirectory

\* Nothing is fetched, and the local version stays.
Waits == manager'.local = manager.local

LEMMA BeginningSteps ==
  ASSUME DownloadIInv, Publish \/ Update \/ GetVersion \/ CreateDirectory
  PROVE  DownloadIInv' /\ Waits
PROOF
  <1> USE VersionsAssumption DEF DownloadIInv, DownloadShape, FilesOf, OneVersionAtATime, OwnDirectory, Waits, Returns
  <1>1. CASE Publish
    BY <1>1 DEF Publish
  <1>2. CASE Update
    BY <1>2 DEF Update
  <1>3. CASE GetVersion
    <2> DEFINE m == [manager EXCEPT !.remote = manager.published, !.path = manager.published]
    <2>1. ASSUME manager' = [manager EXCEPT !.remote = 0, !.stage = "idle",
                                            !.result = "kInvalidVersion"]
          PROVE  DownloadIInv' /\ Waits
      BY <1>3, <2>1 DEF GetVersion
    <2>2. ASSUME manager' = [m EXCEPT !.stage = "idle", !.result = "kNoVersionChange"]
          PROVE  DownloadIInv' /\ Waits
      BY <1>3, <2>2 DEF GetVersion
    <2>3. ASSUME manager.published > manager.local, manager' = [m EXCEPT !.stage = "directory"]
          PROVE  DownloadIInv' /\ Waits
      BY <1>3, <2>3 DEF GetVersion
    <2> QED
      BY <1>3, <2>1, <2>2, <2>3 DEF GetVersion, Invalid
  <1>4. CASE CreateDirectory
    <2>1. ASSUME manager.remote \notin manager.directories,
                 manager' = [manager EXCEPT !.directories = @ \cup {manager.remote},
                                            !.stage = "manifest"]
          PROVE  DownloadIInv' /\ Waits
      <3>1. FilesOf(manager.remote) = {}
        BY <2>1
      <3>2. DownloadShape' /\ OneVersionAtATime' /\ Waits
        BY <1>4, <2>1 DEF CreateDirectory
      <3>3. /\ manager'.files = manager.files
            /\ manager'.remote = manager.remote /\ manager'.stage = "manifest"
            /\ manager'.directories = manager.directories \cup {manager.remote}
        BY <2>1
      <3>4. OwnDirectory'
        BY <3>1, <3>3
      <3> QED
        BY <3>2, <3>4
    <2>2. ASSUME manager' = Returns(manager, "kLocalFailure") PROVE DownloadIInv' /\ Waits
      BY <2>2
    <2> QED
      BY <1>4, <2>1, <2>2 DEF CreateDirectory, CanBeCreated
  <1> QED
    BY <1>1, <1>2, <1>3, <1>4

LEMMA GetManifestStep == ASSUME DownloadIInv, GetManifest PROVE DownloadIInv' /\ Waits
PROOF
  <1> USE VersionsAssumption DEF DownloadIInv, DownloadShape, FilesOf, OneVersionAtATime, OwnDirectory, Waits, GetManifest
  <1>1. CASE manager' = [manager EXCEPT !.todo = Manifests[manager.path], !.stage = "files"]
    BY <1>1
  <1>2. CASE manager' = Returns(manager, "kManifestFailure")
    BY <1>2 DEF Returns
  <1> QED
    BY <1>1, <1>2

LEMMA GetFileStep == ASSUME DownloadIInv, NEW f, GetFile(f) PROVE DownloadIInv' /\ Waits
PROOF
  <1> USE VersionsAssumption DEF DownloadIInv, DownloadShape, OneVersionAtATime, OwnDirectory, Waits, GetFile
  <1>1. CASE manager' = [manager EXCEPT !.todo = @ \ {f}]
    BY <1>1 DEF FilesOf
  <1> DEFINE file == <<manager.remote, f>>
             got == [manager EXCEPT !.todo = @ \ {f}, !.files = @ \cup {file}, !.updated = @ \cup {file}]
  <1>2. CASE manager' = got \/ manager' = [got EXCEPT !.cut = @ \cup {file}]
    <2>1. file[1] = manager.remote /\ file[2] = f
      OBVIOUS
    <2> HIDE DEF file
    <2>2. /\ DOMAIN manager' = DOMAIN manager /\ manager'.files = manager.files \cup {file}
          /\ manager'.updated = manager.updated \cup {file} /\ manager'.todo = manager.todo \ {f}
          /\ manager'.published = manager.published /\ manager'.local = manager.local
          /\ manager'.remote = manager.remote /\ manager'.path = manager.path
          /\ manager'.directories = manager.directories /\ manager'.stage = "files"
      BY <1>2
    <2>3. DownloadShape' /\ Waits
      BY <2>2
    <2>4. FilesOf(manager.remote)' = FilesOf(manager.remote) \cup {file}
      BY <2>1, <2>2 DEF FilesOf
    <2>5. OneVersionAtATime'
      BY <2>2, <2>4
    <2>6. OwnDirectory'
      BY <2>1, <2>2
    <2> QED
      BY <2>3, <2>5, <2>6
  <1> QED
    BY <1>1, <1>2

LEMMA FinishStep == ASSUME DownloadIInv, FinishUpdate PROVE DownloadIInv' /\ OneVersion
PROOF
  <1> USE VersionsAssumption DEF DownloadIInv, DownloadShape, FilesOf, OneVersionAtATime, OwnDirectory,
              OneVersion, FinishUpdate, Returns
  <1>1. CASE manager.updated = {}
    BY <1>1
  <1>2. CASE manager.updated # {}
    BY <1>2 DEF Fetched
  <1> QED
    BY <1>1, <1>2

\* No update mixes versions, and the caller is told of all the files of the one that is taken:
\* for any manifests, however often the server publishes and whatever fails.
THEOREM EveryUpdateIsOneVersion == DownloadSpec => UpdatesAreOneVersion
PROOF
  <1>1. DownloadIInv /\ [DownloadNext]_manager => DownloadIInv' /\ [OneVersion]_manager
    <2> SUFFICES ASSUME DownloadIInv, [DownloadNext]_manager PROVE DownloadIInv' /\ [OneVersion]_manager
      OBVIOUS
    <2>1. CASE UNCHANGED manager
      BY <2>1 DEF DownloadIInv, DownloadShape, FilesOf, OneVersionAtATime, OwnDirectory
    <2>2. ASSUME DownloadIInv', Waits PROVE OneVersion
      BY <2>2 DEF DownloadIInv, OwnDirectory, Waits, OneVersion
    <2>3. CASE DownloadNext
      BY <2>2, <2>3, BeginningSteps, GetManifestStep, GetFileStep, FinishStep DEF DownloadNext
    <2> QED
      BY <2>1, <2>3
  <1> QED
    BY <1>1, DownloadInitIInv, PTL DEF DownloadSpec, UpdatesAreOneVersion

-----------------------------------------------------------------------------
(* Proofs about LockedPages, for any number of threads, any memory and any *)
(* size of a page: AllSecretsAreLocked.  SecretsAreLocked compares pages   *)
(* with the bytes on them; the strengthening Counted says that the count   *)
(* of a page is the number of secrets on it, by the arithmetic of pages    *)
(* that the first lemmas give.                                             *)

-----------------------------------------------------------------------------
(* Pages.                                                                  *)

LEMMA TimesMonotone ==
  ASSUME NEW n \in Nat \ {0}, NEW p \in Int, NEW q \in Int, p < q
  PROVE  n * p + n <= n * q
PROOF
  <1>1. q - p - 1 \in Nat
    OBVIOUS
  <1>2. n * (q - p - 1) >= 0
    BY <1>1
  <1>3. n * (q - p - 1) = n * q - n * p - n
    OBVIOUS
  <1> QED
    BY <1>2, <1>3

LEMMA Quotient ==
  ASSUME NEW n \in Nat \ {0}, NEW a \in Nat
  PROVE  a \div n \in Int /\ n * (a \div n) <= a /\ a < n * (a \div n) + n
PROOF
  OBVIOUS

LEMMA QuotientIs ==
  ASSUME NEW n \in Nat \ {0}, NEW a \in Nat, NEW p \in Int, n * p <= a, a < n * p + n
  PROVE  a \div n = p
PROOF
  <1> DEFINE q == a \div n
  <1>1. q \in Int /\ n * q <= a /\ a < n * q + n
    BY Quotient
  <1> HIDE DEF q
  <1>2. n * q \in Int /\ n * p \in Int
    BY <1>1
  <1>3. CASE q < p
    BY <1>1, <1>2, <1>3, TimesMonotone
  <1>4. CASE p < q
    BY <1>1, <1>2, <1>4, TimesMonotone
  <1> QED
    BY <1>1, <1>3, <1>4 DEF q

\* The pages from the first byte's to the last byte's are those of all bytes.
LEMMA RangeIsPages ==
  ASSUME NEW m, m.at \in Nat, m.size \in Nat
  PROVE  PagesOf(m) = {b \div PageSize : b \in BytesOf(m)}
PROOF
  <1> USE SizesAssumption
  <1>1. CASE m.size = 0
    BY <1>1 DEF PagesOf, BytesOf
  <1>2. CASE m.size > 0
    <2> DEFINE first == m.at  last == m.at + m.size - 1
    <2>1. first \in Nat /\ last \in Nat /\ first <= last
      BY <1>2
    <2>2. PagesOf(m) = (first \div PageSize)..(last \div PageSize) /\ BytesOf(m) = first..last
      BY <1>2 DEF PagesOf, BytesOf
    <2> HIDE DEF first, last
    <2>3. ASSUME NEW b \in first..last
          PROVE  b \div PageSize \in (first \div PageSize)..(last \div PageSize)
      <3> DEFINE p == b \div PageSize  low == first \div PageSize  high == last \div PageSize
      <3>1. b \in Nat
        BY <2>1
      <3>2. /\ p \in Int /\ PageSize * p <= b /\ b < PageSize * p + PageSize
            /\ low \in Int /\ PageSize * low <= first
            /\ high \in Int /\ last < PageSize * high + PageSize
        BY <2>1, <3>1, Quotient
      <3> HIDE DEF p, low, high
      <3>3. PageSize * p \in Int /\ PageSize * low \in Int /\ PageSize * high \in Int
        BY <3>2
      <3>4. ~(p < low)
        BY <2>1, <2>3, <3>1, <3>2, <3>3, TimesMonotone
      <3>5. ~(high < p)
        BY <2>1, <2>3, <3>1, <3>2, <3>3, TimesMonotone
      <3> QED
        BY <3>2, <3>4, <3>5 DEF p, low, high
    <2>4. ASSUME NEW p \in (first \div PageSize)..(last \div PageSize)
          PROVE  \E b \in first..last : b \div PageSize = p
      <3> DEFINE low == first \div PageSize  high == last \div PageSize
      <3>1. /\ low \in Int /\ PageSize * low <= first /\ first < PageSize * low + PageSize
            /\ high \in Int /\ PageSize * high <= last
        BY <2>1, Quotient
      <3>2. p \in Int /\ low <= p /\ p <= high
        BY <3>1
      <3>3. CASE p = low
        BY <2>1, <3>3
      <3>4. CASE low < p
        <4> HIDE DEF low, high
        <4>1. PageSize * p \in Int /\ PageSize * low \in Int /\ PageSize * high \in Int
          BY <3>1, <3>2
        <4>2. first <= PageSize * p
          BY <2>1, <3>1, <3>2, <3>4, <4>1, TimesMonotone
        <4>3. PageSize * p <= PageSize * high
          BY <3>1, <3>2, <4>1, TimesMonotone
        <4>4. PageSize * p \in first..last
          BY <2>1, <3>1, <4>1, <4>2, <4>3
        <4>5. (PageSize * p) \div PageSize = p
          BY <2>1, <3>2, <4>1, <4>2, QuotientIs
        <4> QED
          BY <4>4, <4>5
      <3> QED
        BY <3>1, <3>2, <3>3, <3>4
    <2> QED
      BY <2>2, <2>3, <2>4
  <1> QED
    BY <1>1, <1>2

-----------------------------------------------------------------------------
(* The counts.                                                             *)

Stages == {"free", "allocated", "secret", "wiped", "unlocked"}
PagesTypeOK ==
  /\ {"histogram", "locked", "failed", "memory"} \subseteq DOMAIN pages
  /\ pages.memory \in [Threads -> [stage : Stages, at : Nat, size : Nat]]

\* The threads that have a secret on a page, from the lock to the unlock.
OnPage(p) ==
  {t \in Threads : pages.memory[t].stage \in {"secret", "wiped"} /\ p \in PagesOf(pages.memory[t])}

\* The pages counted are those with a secret on them, each with the number of its secrets.
Counted ==
  /\ \A p : p \in DOMAIN pages.histogram <=> OnPage(p) # {}
  /\ \A p \in DOMAIN pages.histogram : pages.histogram[p] = Cardinality(OnPage(p))
  /\ pages.locked \cup pages.failed = DOMAIN pages.histogram

PagesIInv == PagesTypeOK /\ Counted

LEMMA PagesInitIInv == PagesInit => PagesIInv
PROOF
  BY DEF PagesInit, PagesIInv, PagesTypeOK, Stages, Counted, OnPage, Free

LEMMA OnPageIsFinite ==
  ASSUME NEW p PROVE IsFiniteSet(OnPage(p)) /\ IsFiniteSet(OnPage(p)')
PROOF
  BY FS_Subset, ThreadsAssumption DEF OnPage

\* A step of a thread without a secret before and after, and of one that only wipes it.
LEMMA CountsAreKept ==
  ASSUME PagesIInv, PagesTypeOK', \A p : OnPage(p)' = OnPage(p),
         pages'.histogram = pages.histogram, pages'.locked = pages.locked,
         pages'.failed = pages.failed
  PROVE  PagesIInv'
PROOF
  BY DEF PagesIInv, Counted

LEMMA OtherSteps ==
  ASSUME PagesIInv, NEW t \in Threads,
         \/ \E at \in 0..(MemorySize - 1), size \in 0..MaxSize : Allocate(t, at, size)
         \/ Wipe(t) \/ Deallocate(t)
  PROVE  PagesIInv'
PROOF
  <1> USE DEF PagesIInv, PagesTypeOK, Stages, IsAt
  <1>1. ASSUME NEW at \in 0..(MemorySize - 1), NEW size \in 0..MaxSize, Allocate(t, at, size)
        PROVE  PagesIInv'
    <2>1. at \in Nat /\ size \in Nat
      BY SizesAssumption
    <2>2. PagesTypeOK'
      BY <1>1, <2>1 DEF Allocate
    <2>3. \A p : OnPage(p)' = OnPage(p)
      BY <1>1 DEF Allocate, OnPage
    <2> QED
      BY <1>1, <2>2, <2>3, CountsAreKept DEF Allocate
  <1>2. ASSUME Wipe(t) PROVE PagesIInv'
    <2>1. PagesTypeOK'
      BY <1>2 DEF Wipe
    <2>2. \A p : OnPage(p)' = OnPage(p)
      BY <1>2 DEF Wipe, OnPage, PagesOf
    <2> QED
      BY <1>2, <2>1, <2>2, CountsAreKept DEF Wipe
  <1>3. ASSUME Deallocate(t) PROVE PagesIInv'
    <2>1. PagesTypeOK'
      BY <1>3 DEF Deallocate, Free
    <2>2. \A p : OnPage(p)' = OnPage(p)
      BY <1>3 DEF Deallocate, OnPage, Free
    <2> QED
      BY <1>3, <2>1, <2>2, CountsAreKept DEF Deallocate
  <1> QED
    BY <1>1, <1>2, <1>3

\* The thread that locks is one more on each page of its range.
LEMMA LockRangeStep == ASSUME PagesIInv, NEW t \in Threads, LockRange(t) PROVE PagesIInv'
PROOF
  <1> DEFINE range == PagesOf(pages.memory[t])
             new == range \ DOMAIN pages.histogram
  <1>1. PICK failed \in SUBSET new :
          pages' = [pages EXCEPT
            !.memory[t].stage = "secret", !.locked = @ \cup (new \ failed), !.failed = @ \cup failed,
            !.histogram = [p \in DOMAIN @ \cup range |->
                             IF p \in new THEN 1 ELSE IF p \in range THEN @[p] + 1 ELSE @[p]]]
    BY ZenonT(60) DEF LockRange
  <1>2. pages.memory[t].stage = "allocated"
    BY DEF LockRange, IsAt
  <1>3. /\ PagesTypeOK'
        /\ pages'.memory[t].at = pages.memory[t].at /\ pages'.memory[t].size = pages.memory[t].size
        /\ pages'.memory[t].stage = "secret"
        /\ \A u \in Threads \ {t} : pages'.memory[u] = pages.memory[u]
        /\ pages'.locked = pages.locked \cup (new \ failed)
        /\ pages'.failed = pages.failed \cup failed
        /\ pages'.histogram =
             [p \in DOMAIN pages.histogram \cup range |->
                IF p \in new THEN 1
                ELSE IF p \in range THEN pages.histogram[p] + 1 ELSE pages.histogram[p]]
    BY <1>1, SMTT(30) DEF PagesIInv, PagesTypeOK, Stages
  <1>4. PagesOf(pages'.memory[t]) = range
    BY <1>3 DEF PagesOf
  <1> HIDE DEF range
  <1>5. /\ \A p : t \notin OnPage(p)
        /\ \A p \in range : OnPage(p)' = OnPage(p) \cup {t}
        /\ \A p : p \notin range => OnPage(p)' = OnPage(p)
    BY <1>2, <1>3, <1>4 DEF OnPage
  <1>6. \A p : IsFiniteSet(OnPage(p))
    BY OnPageIsFinite
  <1>7. \A p \in range : Cardinality(OnPage(p)') = Cardinality(OnPage(p)) + 1
    BY <1>5, <1>6, FS_AddElement
  <1>8. \A p \in new : Cardinality(OnPage(p)') = 1
    BY <1>5, <1>6, <1>7, FS_EmptySet DEF PagesIInv, Counted
  <1>9. /\ \A p : p \in DOMAIN pages'.histogram <=> OnPage(p)' # {}
        /\ pages'.locked \cup pages'.failed = DOMAIN pages'.histogram
    BY <1>3, <1>5 DEF PagesIInv, Counted
  <1>10. \A p \in DOMAIN pages'.histogram : pages'.histogram[p] = Cardinality(OnPage(p)')
    BY <1>3, <1>5, <1>7, <1>8 DEF PagesIInv, Counted
  <1> QED
    BY <1>3, <1>9, <1>10, ZenonT(60) DEF PagesIInv, Counted

\* The thread that unlocks is one less; where it was the only one, nobody is left.
LEMMA UnlockRangeStep == ASSUME PagesIInv, NEW t \in Threads, UnlockRange(t) PROVE PagesIInv'
PROOF
  <1> DEFINE range == PagesOf(pages.memory[t])
             last == {p \in range : pages.histogram[p] = 1}
  <1>1. /\ pages.memory[t].stage = "wiped"
        /\ pages' = [pages EXCEPT
             !.memory[t].stage = "unlocked", !.locked = @ \ last, !.failed = @ \ last,
             !.histogram = [p \in DOMAIN @ \ last |-> IF p \in range THEN @[p] - 1 ELSE @[p]]]
    BY DEF UnlockRange, IsAt, LastOn
  <1>2. /\ PagesTypeOK'
        /\ pages'.memory[t].stage = "unlocked"
        /\ \A u \in Threads \ {t} : pages'.memory[u] = pages.memory[u]
        /\ pages'.locked = pages.locked \ last /\ pages'.failed = pages.failed \ last
        /\ pages'.histogram =
             [p \in DOMAIN pages.histogram \ last |->
                IF p \in range THEN pages.histogram[p] - 1 ELSE pages.histogram[p]]
    BY <1>1 DEF PagesIInv, PagesTypeOK, Stages
  <1> HIDE DEF range
  <1>3. /\ \A p \in range : t \in OnPage(p) /\ OnPage(p)' = OnPage(p) \ {t}
        /\ \A p : p \notin range => OnPage(p)' = OnPage(p)
    BY <1>1, <1>2 DEF OnPage, range
  <1>4. \A p : IsFiniteSet(OnPage(p)) /\ IsFiniteSet(OnPage(p)')
    BY OnPageIsFinite
  <1>5. \A p \in range : /\ p \in DOMAIN pages.histogram
                         /\ pages.histogram[p] = Cardinality(OnPage(p))
    BY <1>3 DEF PagesIInv, Counted
  <1>6. \A p \in range : Cardinality(OnPage(p)') = Cardinality(OnPage(p)) - 1
    BY <1>3, <1>4, FS_RemoveElement
  <1>7. \A p \in range : p \in last <=> OnPage(p)' = {}
    <2> TAKE p \in range
    <2>1. Cardinality(OnPage(p)) \in Nat
      BY <1>4, FS_CardinalityType
    <2>2. p \in last <=> Cardinality(OnPage(p)') = 0
      BY <1>5, <1>6, <2>1
    <2> QED
      BY <1>4, <2>2, FS_EmptySet
  <1>8. /\ \A p : p \in DOMAIN pages'.histogram <=> OnPage(p)' # {}
        /\ pages'.locked \cup pages'.failed = DOMAIN pages'.histogram
    BY <1>2, <1>3, <1>7 DEF PagesIInv, Counted
  <1>9. \A p \in DOMAIN pages'.histogram : pages'.histogram[p] = Cardinality(OnPage(p)')
    BY <1>2, <1>3, <1>5, <1>6 DEF PagesIInv, Counted
  <1> QED
    BY <1>2, <1>8, <1>9 DEF PagesIInv, Counted

-----------------------------------------------------------------------------
LEMMA CountedIsEnough == ASSUME PagesIInv PROVE SecretsAreLocked
PROOF
  <1> DEFINE held == UNION {{b \div PageSize : b \in BytesOf(pages.memory[t])} :
                              t \in {u \in Threads : pages.memory[u].stage \in {"secret", "wiped"}}}
  <1>1. \A t \in Threads :
          PagesOf(pages.memory[t]) = {b \div PageSize : b \in BytesOf(pages.memory[t])}
    <2>1. \A t \in Threads : pages.memory[t].at \in Nat /\ pages.memory[t].size \in Nat
      BY DEF PagesIInv, PagesTypeOK, Stages
    <2> QED
      BY <2>1, RangeIsPages
  <1>2. \A p : p \in held <=> OnPage(p) # {}
    BY <1>1 DEF OnPage
  <1>3. held = DOMAIN pages.histogram
    BY <1>2 DEF PagesIInv, Counted
  <1> QED
    BY <1>3 DEF SecretsAreLocked, PagesIInv, Counted

\* While a secret is in memory every page of it is locked, or the system refused the lock,
\* and no other page stays locked: for any threads that allocate and free side by side.
THEOREM AllSecretsAreLocked == PagesSpec => []SecretsAreLocked
PROOF
  <1>1. PagesIInv /\ [PagesNext]_pages => PagesIInv'
    <2> SUFFICES ASSUME PagesIInv, [PagesNext]_pages PROVE PagesIInv'
      OBVIOUS
    <2>1. CASE UNCHANGED pages
      BY <2>1 DEF PagesIInv, PagesTypeOK, Counted, OnPage
    <2>2. CASE PagesNext
      BY <2>2, OtherSteps, LockRangeStep, UnlockRangeStep DEF PagesNext
    <2> QED
      BY <2>1, <2>2
  <1>2. PagesIInv => SecretsAreLocked
    BY CountedIsEnough
  <1> QED
    BY <1>1, <1>2, PagesInitIInv, PTL DEF PagesSpec

-----------------------------------------------------------------------------
(* Proofs about SqliteTransaction, for any number of connections, of       *)
(* attempts and of rows: AllOrNothing.  CommittedOrNothing compares the    *)
(* file with what was written through a transaction; the strengthening     *)
(* OwnRowsPend follows those rows from BEGIN to COMMIT.                    *)

Labels == {"idle", "beginning", "open", "committing", "failed", "committed"}

\* The fields of db have the types that the code and SQLite give them.
SqliteTypeOK ==
  db \in [content : SUBSET Nat, writer : Connections \cup {NoConnection}, pending : SUBSET Nat,
          at : [Connections -> Labels], tries : [Connections -> Nat],
          committed : [Connections -> BOOLEAN], mine : [Connections -> SUBSET Nat],
          rows : Nat, done : SUBSET Nat]

\* An open Transaction is the one SQLite has begun; what SQLite keeps for the
\* connection that commits is what was written through that Transaction, although a
\* destroyed one may have left its rows behind, by a committed that was never set.
OwnRowsPend ==
  /\ db.writer = NoConnection => db.pending = {}
  /\ \A c \in Connections :
       /\ db.at[c] = "open" => db.writer = c
       /\ db.at[c] = "beginning" => db.mine[c] = {}
       /\ db.at[c] \in {"open", "committing"} /\ db.writer = c => db.pending = db.mine[c]

SqliteIInv == SqliteTypeOK /\ OwnRowsPend /\ CommittedOrNothing

LEMMA SqliteInitIInv == SqliteInit => SqliteIInv
PROOF
  BY DEF SqliteInit, Each, SqliteIInv, SqliteTypeOK, OwnRowsPend, CommittedOrNothing, Labels

LEMMA MakeTransactionStep ==
  ASSUME SqliteIInv, NEW c \in Connections, MakeTransaction(c) PROVE SqliteIInv'
PROOF
  BY DEF SqliteIInv, SqliteTypeOK, OwnRowsPend, CommittedOrNothing, Labels, MakeTransaction, ConnectionGoes

\* An attempt that fails: it is tried again, or given up.
LEMMA RetryStep ==
  ASSUME SqliteIInv, NEW c \in Connections, db.at[c] \in {"beginning", "committing"},
         db' = Retry(db, c)
  PROVE  SqliteIInv'
PROOF
  <1>1. CASE db.tries[c] + 1 < kAttempts
    BY <1>1, SMTT(30) DEF SqliteIInv, SqliteTypeOK, OwnRowsPend, CommittedOrNothing, Labels, Retry
  <1>2. CASE ~(db.tries[c] + 1 < kAttempts)
    BY <1>2 DEF SqliteIInv, SqliteTypeOK, OwnRowsPend, CommittedOrNothing, Labels, Retry, ConnectionGoes
  <1> QED
    BY <1>1, <1>2

LEMMA BeginStep ==
  ASSUME SqliteIInv, NEW c \in Connections, Begin(c) PROVE SqliteIInv'
PROOF
  <1>1. ASSUME NEW garbage \in BOOLEAN, db.at[c] = "beginning", db.writer = NoConnection,
               db' = [ConnectionGoes(db, c, "open") EXCEPT !.writer = c, !.committed[c] = garbage]
        PROVE  SqliteIInv'
    BY <1>1, ConnectionsAssumption, ZenonT(30) DEF SqliteIInv, SqliteTypeOK, OwnRowsPend, CommittedOrNothing, Labels, ConnectionGoes
  <1>2. ASSUME db.at[c] = "beginning", db' = ConnectionGoes(db, c, "idle") PROVE SqliteIInv'
    BY <1>2 DEF SqliteIInv, SqliteTypeOK, OwnRowsPend, CommittedOrNothing, Labels, ConnectionGoes
  <1> QED
    BY <1>1, <1>2, RetryStep DEF Begin

LEMMA StepStep ==
  ASSUME SqliteIInv, NEW c \in Connections, Step(c) PROVE SqliteIInv'
PROOF
  <1> USE DEF SqliteIInv, SqliteTypeOK, OwnRowsPend, CommittedOrNothing, Labels
  <1>1. SqliteTypeOK' /\ CommittedOrNothing'
    <2>1. db.pending \cup {db.rows + 1} \in SUBSET Nat /\ db.mine[c] \cup {db.rows + 1} \in SUBSET Nat
      OBVIOUS
    <2> QED
      BY <2>1 DEF Step
  <1>2. db.at[c] = "open" /\ db.writer = c /\ db.pending = db.mine[c]
    BY DEF Step
  <1>3. /\ db'.writer = c /\ db'.at = db.at
        /\ db'.pending = db'.mine[c]
        /\ \A d \in Connections \ {c} : db'.mine[d] = db.mine[d]
    BY <1>2 DEF Step
  <1>4. ASSUME NEW d \in Connections
        PROVE  /\ db'.at[d] = "open" => db'.writer = d
               /\ db'.at[d] = "beginning" => db'.mine[d] = {}
               /\ db'.at[d] \in {"open", "committing"} /\ db'.writer = d => db'.pending = db'.mine[d]
    <2>1. CASE d = c
      BY <1>2, <1>3, <2>1
    <2>2. CASE d # c
      BY <1>2, <1>3, <2>2
    <2> QED
      BY <2>1, <2>2
  <1>5. OwnRowsPend'
    BY <1>2, <1>3, <1>4, ConnectionsAssumption
  <1> QED
    BY <1>1, <1>5

LEMMA CommitStep ==
  ASSUME SqliteIInv, NEW c \in Connections, Commit(c) PROVE SqliteIInv'
PROOF
  BY DEF SqliteIInv, SqliteTypeOK, OwnRowsPend, CommittedOrNothing, Labels, Commit, ConnectionGoes

LEMMA ExecuteCommitStep ==
  ASSUME SqliteIInv, NEW c \in Connections, ExecuteCommit(c) PROVE SqliteIInv'
PROOF
  <1> USE DEF SqliteIInv, SqliteTypeOK, OwnRowsPend, CommittedOrNothing, Labels
  <1>1. ASSUME db.at[c] = "committing", db.writer = c, db' = CommitIfActive(db, c)
        PROVE  SqliteIInv'
    <2>1. SqliteTypeOK'
      <3>1. db' = [db EXCEPT !.at = [@ EXCEPT ![c] = "committed"], !.tries = [@ EXCEPT ![c] = 0],
                             !.committed = [@ EXCEPT ![c] = TRUE], !.done = @ \cup db.mine[c],
                             !.content = @ \cup db.pending, !.writer = NoConnection, !.pending = {}]
        BY <1>1 DEF CommitIfActive, ConnectionGoes
      <3>2. /\ [db.at EXCEPT ![c] = "committed"] \in [Connections -> Labels]
            /\ [db.tries EXCEPT ![c] = 0] \in [Connections -> Nat]
            /\ [db.committed EXCEPT ![c] = TRUE] \in [Connections -> BOOLEAN]
            /\ db.done \cup db.mine[c] \in SUBSET Nat
            /\ db.content \cup db.pending \in SUBSET Nat
        BY <1>1
      <3> QED
        BY <3>1, <3>2
    <2>2. OwnRowsPend'
      BY <1>1, ConnectionsAssumption DEF CommitIfActive, ConnectionGoes
    <2>3. CommittedOrNothing'
      BY <1>1 DEF CommitIfActive, ConnectionGoes
    <2> QED
      BY <2>1, <2>2, <2>3
  <1>2. ASSUME db.at[c] = "committing", db.writer = c, db' = Retry(RolledBack(db), c)
        PROVE  SqliteIInv'
    <2>1. CASE db.tries[c] + 1 < kAttempts
      <3>1. db' = [db EXCEPT !.writer = NoConnection, !.pending = {}, !.tries[c] = @ + 1]
        BY <1>2, <2>1 DEF Retry, RolledBack
      <3>2. SqliteTypeOK' /\ CommittedOrNothing'
        <4>1. [db.tries EXCEPT ![c] = @ + 1] \in [Connections -> Nat]
          OBVIOUS
        <4> QED
          BY <1>2, <3>1, <4>1
      <3>3. OwnRowsPend'
        BY <1>2, <3>1, ConnectionsAssumption
      <3> QED
        BY <3>2, <3>3
    <2>2. CASE ~(db.tries[c] + 1 < kAttempts)
      BY <1>2, <2>2, ConnectionsAssumption DEF Retry, RolledBack, ConnectionGoes
    <2> QED
      BY <2>1, <2>2
  <1> QED
    BY <1>1, <1>2, RetryStep DEF ExecuteCommit, CommitOutcome

LEMMA DestroyTransactionStep ==
  ASSUME SqliteIInv, NEW c \in Connections, DestroyTransaction(c) PROVE SqliteIInv'
PROOF
  <1> USE DEF SqliteIInv, SqliteTypeOK, OwnRowsPend, CommittedOrNothing, Labels, ConnectionGoes
  <1>1. CASE ~db.committed[c] /\ db.writer = c
    BY <1>1, ConnectionsAssumption, ZenonT(30) DEF DestroyTransaction, RolledBack
  <1>2. CASE ~(~db.committed[c] /\ db.writer = c)
    BY <1>2 DEF DestroyTransaction
  <1> QED
    BY <1>1, <1>2

LEMMA ReopenStep ==
  ASSUME SqliteIInv, NEW c \in Connections, Reopen(c) PROVE SqliteIInv'
PROOF
  <1> USE DEF SqliteIInv, SqliteTypeOK, OwnRowsPend, CommittedOrNothing, Labels, ConnectionGoes
  <1>1. CASE db.writer = c
    BY <1>1, ConnectionsAssumption DEF Reopen, RolledBack
  <1>2. CASE db.writer # c
    BY <1>2 DEF Reopen
  <1> QED
    BY <1>1, <1>2

\* The file holds exactly what was written through the transactions whose Commit
\* returned: for any number of processes, attempts and failures.
THEOREM AllOrNothing == SqliteSpec => []CommittedOrNothing
PROOF
  <1>1. SqliteIInv /\ [SqliteNext]_db => SqliteIInv'
    <2> SUFFICES ASSUME SqliteIInv, [SqliteNext]_db PROVE SqliteIInv'
      OBVIOUS
    <2>1. CASE UNCHANGED db
      BY <2>1 DEF SqliteIInv, SqliteTypeOK, OwnRowsPend, CommittedOrNothing
    <2>2. CASE SqliteNext
      BY <2>2, MakeTransactionStep, BeginStep, StepStep, CommitStep, ExecuteCommitStep,
         DestroyTransactionStep, ReopenStep DEF SqliteNext
    <2> QED
      BY <2>1, <2>2
  <1>2. SqliteIInv => CommittedOrNothing
    BY DEF SqliteIInv
  <1> QED
    BY <1>1, <1>2, SqliteInitIInv, PTL DEF SqliteSpec

-----------------------------------------------------------------------------
(* A lemma of two of the sections that follow. *)

LEMMA LeastNumber ==
  ASSUME NEW I \in SUBSET Nat, I # {}
  PROVE  \E n \in I : \A m \in I : n <= m
<1> DEFINE R == OpToRel(<, Nat)
<1>1. IsWellFoundedOn(R, Nat) BY NatLessThanWellFounded
<1>2. \A x, y \in Nat : y < x => <<y, x>> \in R BY DEF OpToRel
<1> HIDE DEF R
<1>3. PICK n \in I : \A m \in I : ~(<<m, n>> \in R) BY <1>1, WFMin
<1>4. ASSUME NEW m \in I PROVE n <= m
  <2>1. n \in Nat /\ m \in Nat OBVIOUS
  <2>2. ~(m < n) BY <1>2, <1>3, <2>1
  <2> QED BY <2>1, <2>2
<1> QED BY <1>4

-----------------------------------------------------------------------------
(* Proofs about SigningTool, for any names, sizes and bounds:              *)
(* GroupHoldsItsKey.  The parts given out and the people of the group that *)
(* have a keyfile go together one by one: Given.                           *)

SigningShape ==
  /\ {"running", "private", "public", "haveKeys", "signedIn", "created", "privates", "publics",
      "keyfiles", "needed", "group", "signature", "layers"} \subseteq DOMAIN tool
  /\ {"names", "left", "key", "total"} \subseteq DOMAIN tool.group

\* Who has the key without being given it has signed in.
KeyIsSecret ==
  /\ tool.created \in Nat
  /\ GroupKeyIsNotStored
  /\ tool.private = GroupKey => tool.signedIn

KeyHolders == {n \in DOMAIN tool.keyfiles : tool.keyfiles[n].sharing = Len(tool.needed) - 1}

FilesOK ==
  /\ DOMAIN tool.keyfiles \subseteq GroupNames
  /\ tool.needed \in Seq(Nat) /\ Len(tool.needed) >= 1
  /\ \A n \in DOMAIN tool.keyfiles : tool.keyfiles[n].sharing \in 0 .. Len(tool.needed) - 1

Given(total) ==
  /\ tool.group.left \subseteq 0 .. total - 1
  /\ KeyHolders \subseteq tool.group.names
  /\ \A n \in KeyHolders : tool.keyfiles[n].part \in (0 .. total - 1) \ tool.group.left
  /\ \A m, n \in KeyHolders : tool.keyfiles[m].part = tool.keyfiles[n].part => m = n
  /\ \A i \in (0 .. total - 1) \ tool.group.left : \E n \in KeyHolders : tool.keyfiles[n].part = i

GroupOK == tool.group # NoGroup => tool.group.total \in Nat /\ Given(tool.group.total)

SigningIInv == SigningShape /\ KeyIsSecret /\ FilesOK /\ GroupOK

\* People with different parts are as many as the parts.
LEMMA OnePartEach ==
  ASSUME NEW S, NEW T, NEW f \in [S -> T], IsFiniteSet(S),
         \A m, n \in S : f[m] = f[n] => m = n, \A i \in T : \E n \in S : f[n] = i
  PROVE  Cardinality(S) = Cardinality(T)
<1>1. f \in Bijection(S, T) BY DEF Bijection, Injection, Surjection, IsInjective
<1> QED BY <1>1, FS_Bijection DEF ExistsBijection

\* When all parts are given out, each of the group has one, and a quorum has enough.
LEMMA QuorumsRecover ==
  ASSUME SigningIInv
  PROVE  GroupHoldsItsKey
<1> DEFINE total == tool.group.total
           quorum == tool.needed[Len(tool.needed)]
           part == [n \in KeyHolders |-> tool.keyfiles[n].part]
           able == {n \in KeyHolders : tool.keyfiles[n].whole /\ FirstWord[n] = n}
<1> SUFFICES ASSUME tool.group # NoGroup, tool.group.left = {}
             PROVE  /\ {tool.keyfiles[n].part : n \in KeyHolders} = 0 .. total - 1
                    /\ Cardinality(KeyHolders) = total
                    /\ \A people \in SUBSET able :
                         Cardinality(people) = quorum => CanBeNamed(people) /\ Recovers(people)
  BY DEF GroupHoldsItsKey, EveryQuorumSignsIn, KeyHolders, SigningIInv, KeyIsSecret
<1>1. total \in Nat /\ Given(total) BY DEF SigningIInv, GroupOK
<1>2. Len(tool.needed) \in Nat /\ Len(tool.needed) >= 1 /\ quorum \in Nat
  BY DEF SigningIInv, FilesOK
<1>3. IsFiniteSet(KeyHolders) /\ KeyHolders \subseteq GroupNames
  <2>1. KeyHolders \subseteq GroupNames BY DEF KeyHolders, SigningIInv, FilesOK
  <2> QED BY <2>1, SigningAssumption, FS_Subset
<1>4. /\ \A n \in KeyHolders : tool.keyfiles[n].part \in 0 .. total - 1
      /\ \A m, n \in KeyHolders : tool.keyfiles[m].part = tool.keyfiles[n].part => m = n
      /\ \A i \in 0 .. total - 1 : \E n \in KeyHolders : tool.keyfiles[n].part = i
  BY <1>1 DEF Given
<1>5. Cardinality(KeyHolders) = total
  <2>1. Cardinality(KeyHolders) = Cardinality(0 .. total - 1)
    <3>1. part \in [KeyHolders -> 0 .. total - 1] BY <1>4
    <3>2. /\ \A m, n \in KeyHolders : part[m] = part[n] => m = n
          /\ \A i \in 0 .. total - 1 : \E n \in KeyHolders : part[n] = i
      BY <1>4
    <3> HIDE DEF part, total
    <3> QED BY ONLY <1>3, <3>1, <3>2, OnePartEach, Zenon
  <2>2. Cardinality(0 .. total - 1) = total BY <1>1, FS_Interval
  <2> QED BY <2>1, <2>2
<1>6. ASSUME NEW people \in SUBSET able, Cardinality(people) = quorum
      PROVE  CanBeNamed(people) /\ Recovers(people)
  <2> DEFINE parts == {tool.keyfiles[n].part : n \in people}
             own == [n \in people |-> tool.keyfiles[n].part]
             s == Len(tool.needed) - 1
  <2>1. people \subseteq KeyHolders /\ IsFiniteSet(people) BY <1>3, FS_Subset
  <2>2. own \in [people -> parts] /\ (\A i \in parts : \E n \in people : own[n] = i)
          /\ \A m, n \in people : own[m] = own[n] => m = n
    BY <1>4, <2>1
  <2> HIDE DEF own
  <2>3. Cardinality(people) = Cardinality(parts) BY <2>1, <2>2, OnePartEach
  <2>4. s \in 0 .. (Len(tool.needed) - 1) /\ tool.needed[s + 1] = quorum BY <1>2
  <2>5. \A n \in people : tool.keyfiles[n].sharing = s /\ tool.keyfiles[n].whole
    BY <2>1 DEF KeyHolders
  <2>6. Cardinality(parts) >= quorum BY <1>2, <1>6, <2>3
  <2>7. CanBeNamed(people)
    <3>1. \A n \in people : n \in GroupNames /\ FirstWord[n] = n BY <1>3, <2>1
    <3> QED BY <3>1 DEF CanBeNamed
  <2> HIDE DEF s, quorum, parts
  <2>8. Cardinality(parts) >= tool.needed[s + 1] BY <2>4, <2>6
  <2>9. Recovers(people) BY <2>4, <2>5, <2>8 DEF Recovers, parts
  <2> QED BY <2>7, <2>9
<1>7. {tool.keyfiles[n].part : n \in KeyHolders} = 0 .. total - 1 BY <1>4
<1> QED BY <1>5, <1>6, <1>7

LEMMA SigningBegins == SigningInit => SigningIInv
<1> SUFFICES ASSUME SigningInit PROVE SigningIInv OBVIOUS
<1>p. PICK people \in {{}} \cup {p \in SUBSET GroupNames : Cardinality(p) = 3} :
        \E part \in [people -> 0 .. 2] :
        tool = [running |-> TRUE, private |-> NoKey, public |-> NoKey, haveKeys |-> FALSE,
                signedIn |-> FALSE, created |-> 0, privates |-> {}, publics |-> {GroupKey},
                keyfiles |-> [n \in people |->
                               [sharing |-> 0, part |-> part[n], key |-> GroupKey, whole |-> TRUE]],
                needed |-> <<2>>, group |-> NoGroup, signature |-> NoKey, layers |-> 0]
  BY DEF SigningInit
<1>1. PICK part \in [people -> 0 .. 2] :
        tool = [running |-> TRUE, private |-> NoKey, public |-> NoKey, haveKeys |-> FALSE,
                signedIn |-> FALSE, created |-> 0, privates |-> {}, publics |-> {GroupKey},
                keyfiles |-> [n \in people |->
                               [sharing |-> 0, part |-> part[n], key |-> GroupKey, whole |-> TRUE]],
                needed |-> <<2>>, group |-> NoGroup, signature |-> NoKey, layers |-> 0]
  BY <1>p
<1>2. people \subseteq GroupNames OBVIOUS
<1>3. SigningShape /\ KeyIsSecret /\ GroupOK
  BY <1>1 DEF SigningShape, KeyIsSecret, GroupOK, GroupKeyIsNotStored, GroupKey, NoKey, NoGroup
<1>4. FilesOK
  <2>1. /\ tool.needed = <<2>>
        /\ tool.keyfiles = [n \in people |->
                              [sharing |-> 0, part |-> part[n], key |-> GroupKey, whole |-> TRUE]]
    BY <1>1
  <2>2. DOMAIN tool.keyfiles = people /\ \A n \in people : tool.keyfiles[n].sharing = 0 BY <2>1
  <2>3. tool.needed \in Seq(Nat) /\ Len(tool.needed) = 1 BY <2>1
  <2> QED BY <1>2, <2>2, <2>3 DEF FilesOK
<1> QED BY <1>3, <1>4 DEF SigningIInv

\* A step that leaves the keyfiles and the group alone.
LEMMA GroupIsLeftAlone ==
  ASSUME SigningIInv, SigningShape', KeyIsSecret',
         tool'.keyfiles = tool.keyfiles, tool'.needed = tool.needed,
         tool'.group = tool.group \/ tool'.group = NoGroup
  PROVE  SigningIInv'
<1>1. FilesOK' BY DEF SigningIInv, FilesOK
<1>2. GroupOK' BY DEF SigningIInv, GroupOK, Given, KeyHolders
<1> QED BY <1>1, <1>2 DEF SigningIInv

LEMMA KeysAreCreated ==
  ASSUME SigningIInv
  PROVE  LET t == WithKeys(tool)
         IN  /\ DOMAIN t = DOMAIN tool /\ t.created = tool.created + 1
             /\ t.private = tool.created + 1 /\ t.private # GroupKey
             /\ t.privates = tool.privates /\ t.signedIn = tool.signedIn
             /\ t.keyfiles = tool.keyfiles /\ t.needed = tool.needed /\ t.group = tool.group
BY DEF WithKeys, SigningIInv, SigningShape, KeyIsSecret, GroupKey

\* What the menu offers around the keys, except to split them.
LEMMA KeysAreUsed ==
  ASSUME SigningIInv,
         \/ CreateKeys \/ SavePrivateKey \/ SavePublicKey \/ LoadPrivateKey \/ LoadPublicKey
         \/ SignFile \/ ValidateSignature \/ EncryptFile \/ DecryptFile \/ ExitSigning
         \/ \E people \in SUBSET DOMAIN tool.keyfiles \ {{}} : GroupSignIn(people)
         \/ FinishGroup \/ tool' = tool
  PROVE  SigningIInv'
<1>1. SigningShape /\ KeyIsSecret BY DEF SigningIInv
<1> USE DEF SigningShape, KeyIsSecret, GroupKeyIsNotStored
<1>2. CASE tool' \in {tool, Ended}
  BY <1>1, <1>2, GroupIsLeftAlone DEF Ended
<1>3. CASE CreateKeys
  <2>1. tool' = WithKeys(tool) BY <1>3 DEF CreateKeys
  <2> QED BY <1>1, <2>1, KeysAreCreated, GroupIsLeftAlone
<1>4. CASE SavePrivateKey
  <2>1. CASE tool' = [tool EXCEPT !.privates = @ \cup {tool.private}] /\ MaySave(tool)
    <3>1. tool.private # GroupKey BY <1>1, <2>1 DEF MaySave
    <3> QED BY <1>1, <2>1, <3>1, GroupIsLeftAlone
  <2> QED BY <1>2, <1>4, <2>1 DEF SavePrivateKey, MayFail
<1>5. CASE SavePublicKey
  <2>1. CASE tool' = [tool EXCEPT !.publics = @ \cup {tool.public}]
    BY <1>1, <2>1, GroupIsLeftAlone
  <2> QED BY <1>2, <1>5, <2>1 DEF SavePublicKey, MayFail
<1>6. CASE LoadPrivateKey
  <2>1. ASSUME NEW key \in tool.privates, tool' = [tool EXCEPT !.private = key] PROVE SigningIInv'
    BY <1>1, <2>1, GroupIsLeftAlone
  <2> QED BY <1>2, <1>6, <2>1 DEF LoadPrivateKey, MayFail
<1>7. CASE LoadPublicKey
  <2>1. ASSUME NEW key, tool' = [tool EXCEPT !.public = key] PROVE SigningIInv'
    BY <1>1, <2>1, GroupIsLeftAlone
  <2> QED BY <1>2, <1>7, <2>1 DEF LoadPublicKey, MayFail
<1>8. CASE SignFile
  <2>1. ASSUME NEW s, tool' = [tool EXCEPT !.signature = s] PROVE SigningIInv'
    BY <1>1, <2>1, GroupIsLeftAlone
  <2> QED BY <1>2, <1>8, <2>1 DEF SignFile
<1>9. CASE ValidateSignature BY <1>2, <1>9 DEF ValidateSignature
<1>10. CASE EncryptFile \/ DecryptFile
  <2>1. ASSUME NEW n, tool' = [tool EXCEPT !.layers = n] PROVE SigningIInv'
    BY <1>1, <2>1, GroupIsLeftAlone
  <2> QED BY <1>2, <1>10, <2>1 DEF EncryptFile, DecryptFile, MayFail
<1>11. CASE ExitSigning BY <1>2, <1>11 DEF ExitSigning
<1>12. ASSUME NEW people \in SUBSET DOMAIN tool.keyfiles \ {{}}, GroupSignIn(people)
       PROVE  SigningIInv'
  <2>1. ASSUME NEW key, tool' = [tool EXCEPT !.private = key, !.signedIn = TRUE]
        PROVE  SigningIInv'
    BY <1>1, <2>1, GroupIsLeftAlone
  <2> QED BY <1>2, <1>12, <2>1 DEF GroupSignIn
<1>13. CASE FinishGroup
  <2>1. PICK publics : tool' = [tool EXCEPT !.group = NoGroup, !.publics = publics]
    BY <1>13 DEF FinishGroup
  <2>2. SigningShape' BY <1>1, <2>1 DEF NoGroup
  <2>3. KeyIsSecret' /\ tool'.keyfiles = tool.keyfiles /\ tool'.needed = tool.needed
          /\ tool'.group = NoGroup
    BY <1>1, <2>1
  <2> QED BY <2>2, <2>3, GroupIsLeftAlone
<1> QED BY <1>2, <1>3, <1>4, <1>5, <1>6, <1>7, <1>8, <1>9, <1>10, <1>11, <1>12, <1>13

LEMMA GroupsBegin ==
  ASSUME SigningIInv, NEW total \in Totals, NEW quorum \in 1 .. 2, CreateKeyGroup(total, quorum)
  PROVE  SigningIInv'
<1>1. SigningShape /\ KeyIsSecret /\ FilesOK BY DEF SigningIInv
<1>2. CASE tool' \in {tool, Ended}
  BY <1>1, <1>2, GroupIsLeftAlone
  DEF Ended, SigningShape, KeyIsSecret, GroupKeyIsNotStored
<1>3. CASE total >= quorum /\ quorum >= 2 /\ total >= 3
  <2> DEFINE t == IF tool.haveKeys THEN tool ELSE WithKeys(tool)
             group == [names |-> {}, left |-> 0 .. (total - 1), key |-> t.private, total |-> total]
  <2>1. tool' = [t EXCEPT !.needed = Append(@, quorum), !.group = group]
    BY <1>3, SigningAssumption DEF CreateKeyGroup
  <2>2. /\ DOMAIN t = DOMAIN tool /\ t.created \in Nat /\ t.privates = tool.privates
        /\ t.private = GroupKey => t.signedIn
        /\ t.keyfiles = tool.keyfiles /\ t.needed = tool.needed
    BY <1>1, KeysAreCreated DEF KeyIsSecret
  <2> HIDE DEF t
  <2>3. /\ DOMAIN tool' = DOMAIN tool /\ tool'.created = t.created
        /\ tool'.privates = tool.privates /\ tool'.private = t.private
        /\ tool'.signedIn = t.signedIn /\ tool'.keyfiles = tool.keyfiles
        /\ tool'.needed = Append(tool.needed, quorum) /\ tool'.group = group
    BY <1>1, <2>1, <2>2 DEF SigningShape
  <2>4. SigningShape' BY <1>1, <2>3 DEF SigningShape
  <2>5. KeyIsSecret' BY <1>1, <2>2, <2>3 DEF KeyIsSecret, GroupKeyIsNotStored
  <2>6. /\ tool'.needed \in Seq(Nat) /\ Len(tool'.needed) = Len(tool.needed) + 1
        /\ tool'.needed[Len(tool'.needed)] = quorum /\ Len(tool.needed) \in Nat
    <3>1. tool.needed \in Seq(Nat) /\ quorum \in Nat BY <1>1 DEF FilesOK
    <3> QED BY <2>3, <3>1
  <2>7. FilesOK' BY <1>1, <2>3, <2>6 DEF FilesOK
  <2>8. KeyHolders' = {} BY <1>1, <2>3, <2>6 DEF KeyHolders, FilesOK
  <2>9. tool'.group.total = total /\ Given(total)' BY <2>3, <2>8 DEF Given
  <2> QED BY <2>4, <2>5, <2>7, <2>9, SigningAssumption DEF SigningIInv, GroupOK
<1> QED BY <1>2, <1>3, SigningAssumption DEF CreateKeyGroup

LEMMA PartsAreStored ==
  ASSUME SigningIInv, NEW name \in GroupNames, StoreKeyPart(name)
  PROVE  SigningIInv'
<1> DEFINE left == tool.group.left
           part == NextPart
           asked == Asked(name)
<1>1. SigningShape /\ KeyIsSecret /\ FilesOK /\ GroupOK BY DEF SigningIInv
<1>2. left # {} /\ name \notin tool.group.names /\ tool.group # NoGroup
  <2>1. left # {} /\ name \notin tool.group.names BY DEF StoreKeyPart, Unique
  <2>2. NoGroup.left = {} BY DEF NoGroup
  <2> QED BY <2>1, <2>2
<1>3. PICK total \in Nat : total = tool.group.total /\ Given(total) BY <1>1, <1>2 DEF GroupOK
<1>4. part \in left
  <2>1. left \in SUBSET Nat BY <1>3 DEF Given
  <2> QED BY <1>2, <2>1, LeastNumber DEF NextPart
<1>5. /\ DOMAIN asked = DOMAIN tool /\ DOMAIN asked.group = DOMAIN tool.group
      /\ asked.group.names = tool.group.names \cup {name} /\ asked.group.left = left
      /\ asked.group.total = total
      /\ asked.keyfiles = tool.keyfiles /\ asked.needed = tool.needed
      /\ asked.private = tool.private /\ asked.privates = tool.privates
      /\ asked.created = tool.created /\ asked.signedIn = tool.signedIn
  BY <1>1, <1>3 DEF SigningShape, Asked
<1>6. name \notin KeyHolders BY <1>2, <1>3 DEF Given
<1>7. CASE tool' = asked
  <2>1. SigningShape' /\ KeyIsSecret' /\ FilesOK' /\ KeyHolders' = KeyHolders
    BY <1>1, <1>5, <1>7
    DEF SigningShape, KeyIsSecret, GroupKeyIsNotStored, FilesOK, KeyHolders
  <2>2. /\ tool'.needed = tool.needed /\ tool'.keyfiles = tool.keyfiles
        /\ tool'.group.left = left /\ tool'.group.total = total
        /\ tool'.group.names = tool.group.names \cup {name}
    BY <1>5, <1>7
  <2>3. KeyHolders \subseteq tool'.group.names BY <1>3, <2>2 DEF Given
  <2>4. Given(total)' BY <1>3, <2>1, <2>2, <2>3 DEF Given
  <2> QED BY <1>3, <2>1, <2>2, <2>4 DEF SigningIInv, GroupOK
<1>8. ASSUME NEW whole \in BOOLEAN, tool' = StoredPart(name, whole)
      PROVE  SigningIInv'
  <2> DEFINE file == [sharing |-> Len(tool.needed) - 1, part |-> part, key |-> tool.group.key,
                      whole |-> whole]
             files == [n \in DOMAIN tool.keyfiles \cup {name} |->
                         IF n = name THEN file ELSE tool.keyfiles[n]]
  <2>0. tool' = [asked EXCEPT !.group.left = @ \ {part}, !.keyfiles = files] BY <1>8 DEF StoredPart
  <2> HIDE DEF asked, part
  <2>1. /\ DOMAIN tool' = DOMAIN tool /\ DOMAIN tool'.group = DOMAIN tool.group
        /\ tool'.group.names = tool.group.names \cup {name} /\ tool'.group.left = left \ {part}
        /\ tool'.group.total = total
        /\ tool'.keyfiles = files /\ tool'.needed = tool.needed
        /\ tool'.private = tool.private /\ tool'.privates = tool.privates
        /\ tool'.created = tool.created /\ tool'.signedIn = tool.signedIn
    BY <1>1, <1>5, <2>0 DEF SigningShape
  <2>2. SigningShape' /\ KeyIsSecret'
    BY <1>1, <2>1 DEF SigningShape, KeyIsSecret, GroupKeyIsNotStored
  <2>3. Len(tool.needed) \in Nat /\ Len(tool.needed) >= 1 BY <1>1 DEF FilesOK
  <2>4. /\ DOMAIN files = DOMAIN tool.keyfiles \cup {name}
        /\ files[name].sharing = Len(tool.needed) - 1 /\ files[name].part = part
        /\ \A n \in DOMAIN tool.keyfiles : n # name => files[n] = tool.keyfiles[n]
    OBVIOUS
  <2> HIDE DEF files, left
  <2>5. FilesOK' BY <1>1, <2>1, <2>3, <2>4 DEF FilesOK
  <2>6. KeyHolders' = KeyHolders \cup {name}
    BY <1>6, <2>1, <2>4 DEF KeyHolders
  <2>7. \A n \in KeyHolders : files[n] = tool.keyfiles[n] BY <1>6, <2>4 DEF KeyHolders
  <2>8. part \in 0 .. total - 1 /\ \A n \in KeyHolders : tool.keyfiles[n].part # part
    BY <1>3, <1>4 DEF Given, left
  <2>9. Given(total)'
    <3>1. tool'.group.left \subseteq 0 .. total - 1 /\ KeyHolders' \subseteq tool'.group.names
      BY <1>3, <2>1, <2>6 DEF Given, left
    <3>2. \A n \in KeyHolders' : tool'.keyfiles[n].part \in (0 .. total - 1) \ tool'.group.left
      BY <1>3, <2>1, <2>4, <2>6, <2>7, <2>8 DEF Given, left
    <3>3. \A m, n \in KeyHolders' : tool'.keyfiles[m].part = tool'.keyfiles[n].part => m = n
      BY <1>3, <2>1, <2>4, <2>6, <2>7, <2>8 DEF Given
    <3>4. \A i \in (0 .. total - 1) \ tool'.group.left :
            \E n \in KeyHolders' : tool'.keyfiles[n].part = i
      BY <1>3, <2>1, <2>4, <2>6, <2>7 DEF Given, left
    <3> QED BY <3>1, <3>2, <3>3, <3>4 DEF Given
  <2> QED BY <1>3, <2>1, <2>2, <2>5, <2>9 DEF SigningIInv, GroupOK
<1> QED BY <1>7, <1>8, Zenon DEF StoreKeyPart

\* However a key is created, loaded, split and put together, and whichever names are refused
\* and files not written, a key split before is on no file as it is, a complete group has
\* each part once, and a quorum of whole files with names of one word gives it back
\* (CreateKeyGroup, GroupSignIn, SavePrivateKey).
THEOREM GroupsHoldTheirKeys == SigningSpec => []GroupHoldsItsKey
<1>1. SigningIInv /\ [SigningNext]_tool => SigningIInv'
  <2> SUFFICES ASSUME SigningIInv, [SigningNext]_tool PROVE SigningIInv' OBVIOUS
  <2> QED BY KeysAreUsed, GroupsBegin, PartsAreStored DEF SigningNext
<1>2. SigningIInv => GroupHoldsItsKey BY QuorumsRecover
<1> QED BY <1>1, <1>2, SigningBegins, PTL DEF SigningSpec

-----------------------------------------------------------------------------
(* Proofs about BootstrapFileTool, for any files and entries:              *)
(* GivenUpOnlyIfSaved.  What is in the list has been read, or checked when *)
(* it was entered, so that saving it and reading it again changes nothing. *)

Addresses == {e[1] : e \in ListEntries}
FileEntries == Addresses \X Nat
ListPairs == {e \in FileEntries : e[1] \notin Unreadable /\ e[2] < 65536}

ListIInv ==
  /\ {"endpoints", "outOfDate", "running", "files", "cut"} \subseteq DOMAIN list
  /\ DOMAIN list.files = ListPaths
  /\ list.endpoints \in Seq(ListPairs)
  /\ \A path \in ListPaths : list.files[path] \in Seq(FileEntries) \cup {NoFile, Rubbish}
  /\ GivenUpOnlyIfSaved

LEMMA EntriesArePairs ==
  /\ \A e \in FileEntries : e = <<e[1], e[2]>> /\ e[1] \in Addresses /\ e[2] \in Nat
  /\ \A a \in Addresses, n \in Nat : <<a, n>> \in FileEntries
<1>1. \A e \in FileEntries : e = <<e[1], e[2]>> /\ e[1] \in Addresses /\ e[2] \in Nat
  BY DEF FileEntries
<1>2. \A a \in Addresses, n \in Nat : <<a, n>> \in FileEntries BY DEF FileEntries
<1> QED BY <1>1, <1>2

LEMMA EntriesAreRead ==
  /\ \A e \in FileEntries : e[1] \notin Unreadable => Read(e) \in ListPairs
  /\ \A e \in ListPairs :
       e \in FileEntries /\ Read(e) = e /\ e[1] \in Addresses /\ e[1] \notin Unreadable
<1>1. ASSUME NEW e \in FileEntries, e[1] \notin Unreadable PROVE Read(e) \in ListPairs
  <2>1. e[1] \in Addresses /\ e[2] \in Nat BY EntriesArePairs
  <2>2. e[2] % 65536 \in Nat /\ e[2] % 65536 < 65536 BY <2>1
  <2>3. Read(e) \in FileEntries BY <2>1, <2>2, EntriesArePairs DEF Read
  <2>4. Read(e)[1] = e[1] /\ Read(e)[2] = e[2] % 65536 BY DEF Read
  <2> QED BY <1>1, <2>2, <2>3, <2>4 DEF ListPairs
<1>2. ASSUME NEW e \in ListPairs
      PROVE  e \in FileEntries /\ Read(e) = e /\ e[1] \in Addresses /\ e[1] \notin Unreadable
  <2>1. e \in FileEntries /\ e[1] \notin Unreadable /\ e[2] < 65536 BY DEF ListPairs
  <2>2. e = <<e[1], e[2]>> /\ e[1] \in Addresses /\ e[2] \in Nat BY <2>1, EntriesArePairs
  <2>3. e[2] % 65536 = e[2] BY <2>1, <2>2
  <2>4. Read(e) = <<e[1], e[2]>> BY <2>3 DEF Read
  <2> QED BY <2>1, <2>2, <2>4
<1> QED BY <1>1, <1>2

\* A list is not one of the marks, and is read as it was written.
LEMMA SavedIsRead ==
  ASSUME NEW s \in Seq(ListPairs)
  PROVE  /\ s \in Seq(FileEntries) /\ s \notin {NoFile, Rubbish}
         /\ \A i \in 1 .. Len(s) : s[i][1] \notin Unreadable /\ s[i] = Read(s[i])
<1>1. Len(s) \in Nat /\ \A i \in 1 .. Len(s) : s[i] \in ListPairs OBVIOUS
<1>3. s \in Seq(FileEntries) BY <1>1, EntriesAreRead
<1>4. \A i \in 1 .. Len(s) : s[i][1] \in Addresses BY <1>1, EntriesAreRead
<1>5. \A a \in Addresses : a \notin {"none", "rubbish"} BY ListAssumption DEF Addresses
<1>6. s \notin {NoFile, Rubbish}
  <2>1. /\ Len(NoFile) = 1 /\ NoFile[1][1] = "none"
        /\ Len(Rubbish) = 1 /\ Rubbish[1][1] = "rubbish"
    BY DEF NoFile, Rubbish
  <2> QED BY <1>4, <1>5, <2>1
<1>7. \A i \in 1 .. Len(s) : s[i][1] \notin Unreadable /\ s[i] = Read(s[i])
  BY <1>1, EntriesAreRead
<1> QED BY <1>3, <1>6, <1>7

LEMMA ListBegins == BootstrapInit => ListIInv
<1> SUFFICES ASSUME BootstrapInit PROVE ListIInv OBVIOUS
<1>1. PICK files \in [ListPaths -> Contents] :
        list = [endpoints |-> <<>>, outOfDate |-> FALSE, running |-> TRUE, files |-> files,
                cut |-> FALSE]
  BY DEF BootstrapInit
<1>2. \A e \in ListEntries : e \in FileEntries
  BY ListAssumption, EntriesArePairs DEF Addresses
<1>3. Contents \subseteq Seq(FileEntries) \cup {NoFile, Rubbish}
  <2> HIDE DEF FileEntries
  <2>1. <<>> \in Seq(FileEntries) OBVIOUS
  <2>2. \A e \in FileEntries : <<e>> \in Seq(FileEntries) OBVIOUS
  <2>3. \A e, f \in FileEntries : <<e, f>> \in Seq(FileEntries) OBVIOUS
  <2>4. ASSUME NEW c \in Contents PROVE c \in Seq(FileEntries) \cup {NoFile, Rubbish}
    <3>1. \/ c \in {<<>>, NoFile, Rubbish} \/ \E e \in ListEntries : c = <<e>>
          \/ \E e, f \in ListEntries : c = <<e, f>>
      BY DEF Contents
    <3> QED BY <1>2, <2>1, <2>2, <2>3, <3>1
  <2> QED BY <2>4
<1>4. \A path \in ListPaths : files[path] \in Seq(FileEntries) \cup {NoFile, Rubbish} BY <1>3
<1> HIDE DEF Contents
<1> QED BY <1>1, <1>4 DEF ListIInv, GivenUpOnlyIfSaved

LEMMA LoadingKeeps ==
  ASSUME ListIInv, NEW path \in ListPaths, LoadBootstrapFile(path)
  PROVE  ListIInv'
<1> DEFINE contents == list.files[path]
           bad == {i \in 1 .. Len(contents) : contents[i][1] \in Unreadable}
           first == CHOOSE i \in bad : \A j \in bad : i <= j
           Converted(n) == [i \in 1 .. n |-> Read(contents[i])]
<1>1. CASE list' = list BY <1>1 DEF ListIInv, GivenUpOnlyIfSaved
<1>2. CASE list' = Loaded(list, contents) /\ contents \notin {<<>>, NoFile, Rubbish}
  <2>1. contents \in Seq(FileEntries) BY <1>2 DEF ListIInv
  <2> HIDE DEF contents
  <2>2. ASSUME NEW n \in 0 .. Len(contents), \A i \in 1 .. n : contents[i][1] \notin Unreadable,
               n = Len(contents) \/ contents[n + 1][1] \in Unreadable,
               list'.files = list.files, list'.endpoints = Converted(n),
               {"endpoints", "outOfDate", "running", "files", "cut"} \subseteq DOMAIN list'
        PROVE  ListIInv'
    <3>1. n \in Nat /\ \A i \in 1 .. n : Read(contents[i]) \in ListPairs
      BY <2>1, <2>2, EntriesAreRead
    <3>2. Converted(n) \in Seq(ListPairs) BY <3>1
    <3>3. Len(Converted(n)) = n /\ \A i \in 1 .. n : Converted(n)[i] = Read(contents[i]) BY <3>1
    <3> HIDE DEF Converted
    <3>4. n <= Len(contents) BY <2>1, <2>2
    <3>5. GivenUpOnlyIfSaved'
      BY <1>2, <2>2, <3>3, <3>4 DEF GivenUpOnlyIfSaved, contents
    <3> QED BY <2>2, <3>2, <3>5 DEF ListIInv
  <2>3. CASE bad = {}
    <3>1. list' = [list EXCEPT !.endpoints = Converted(Len(contents)), !.outOfDate = FALSE,
                               !.cut = FALSE]
      BY <1>2, <2>3 DEF Loaded
    <3>2. Len(contents) \in 0 .. Len(contents) BY <2>1
    <3>3. \A i \in 1 .. Len(contents) : contents[i][1] \notin Unreadable BY <2>3
    <3> HIDE DEF Converted
    <3>4. /\ {"endpoints", "outOfDate", "running", "files", "cut"} \subseteq DOMAIN list'
          /\ list'.files = list.files /\ list'.endpoints = Converted(Len(contents))
      BY <3>1 DEF ListIInv
    <3> QED BY <2>2, <3>2, <3>3, <3>4
  <2>4. CASE bad # {}
    <3>1. list' = [list EXCEPT !.endpoints = Converted(first - 1), !.cut = FALSE]
      BY <1>2, <2>4 DEF Loaded
    <3>2. first \in bad /\ \A i \in bad : first <= i
      <4>1. bad \in SUBSET Nat OBVIOUS
      <4> QED BY <2>4, <4>1, LeastNumber
    <3> HIDE DEF first
    <3>3. first \in 1 .. Len(contents) /\ contents[first][1] \in Unreadable BY <3>2
    <3>4. first - 1 \in 0 .. Len(contents) /\ (first - 1) + 1 = first BY <2>1, <3>3
    <3>5. \A i \in 1 .. first - 1 : contents[i][1] \notin Unreadable BY <2>1, <3>2, <3>3
    <3> HIDE DEF Converted
    <3>6. /\ {"endpoints", "outOfDate", "running", "files", "cut"} \subseteq DOMAIN list'
          /\ list'.files = list.files /\ list'.endpoints = Converted(first - 1)
      BY <3>1 DEF ListIInv
    <3> QED BY <2>2, <3>3, <3>4, <3>5, <3>6
  <2> QED BY <2>3, <2>4
<1>3. list' = list \/ list' = Loaded(list, contents) BY DEF LoadBootstrapFile
<1>4. contents \in {<<>>, NoFile, Rubbish} => Loaded(list, contents) = list BY DEF Loaded
<1> QED BY <1>1, <1>2, <1>3, <1>4

LEMMA SavingKeeps ==
  ASSUME ListIInv, NEW path \in ListPaths, SaveBootstrapFile(path)
  PROVE  ListIInv'
<1>1. CASE list' = list BY <1>1 DEF ListIInv, GivenUpOnlyIfSaved
<1>2. CASE list' = [list EXCEPT !.files[path] = list.endpoints, !.outOfDate = FALSE, !.cut = FALSE]
  <2>1. /\ {"endpoints", "outOfDate", "running", "files", "cut"} \subseteq DOMAIN list'
        /\ list'.files = [list.files EXCEPT ![path] = list.endpoints]
        /\ list'.endpoints = list.endpoints
    BY <1>2 DEF ListIInv
  <2>2. /\ DOMAIN list'.files = ListPaths /\ list'.files[path] = list.endpoints
        /\ \A other \in ListPaths : list'.files[other] \in {list.endpoints, list.files[other]}
    BY <2>1 DEF ListIInv
  <2>3. list.endpoints \in Seq(ListPairs) BY DEF ListIInv
  <2>4. GivenUpOnlyIfSaved'
    <3>1. list'.files[path] = list'.endpoints /\ Len(list'.endpoints) \in Nat BY <2>1, <2>2, <2>3
    <3>2. /\ list'.files[path] \notin {NoFile, Rubbish}
          /\ \A i \in 1 .. Len(list'.endpoints) : /\ list'.files[path][i][1] \notin Unreadable
                                               /\ list'.endpoints[i] = Read(list'.files[path][i])
      BY <2>1, <2>3, <3>1, SavedIsRead
    <3> QED BY <3>1, <3>2 DEF GivenUpOnlyIfSaved
  <2>5. list.endpoints \in Seq(FileEntries) BY <2>3, SavedIsRead
  <2> QED BY <2>1, <2>2, <2>3, <2>4, <2>5 DEF ListIInv
<1>3. CASE list' = [list EXCEPT !.files[path] = Rubbish, !.outOfDate = FALSE, !.cut = TRUE]
  <2>1. /\ {"endpoints", "outOfDate", "running", "files", "cut"} \subseteq DOMAIN list'
        /\ list'.files = [list.files EXCEPT ![path] = Rubbish]
        /\ list'.endpoints = list.endpoints /\ list'.cut
    BY <1>3 DEF ListIInv
  <2>2. /\ DOMAIN list'.files = ListPaths
        /\ \A other \in ListPaths : list'.files[other] \in {Rubbish, list.files[other]}
    BY <2>1 DEF ListIInv
  <2> QED BY <2>1, <2>2 DEF ListIInv, GivenUpOnlyIfSaved
<1> QED BY <1>1, <1>2, <1>3 DEF SaveBootstrapFile

LEMMA EditingKeeps ==
  ASSUME ListIInv, NEW endpoints \in Seq(ListPairs), list' = Edited(endpoints)
  PROVE  ListIInv'
<1>1. /\ {"endpoints", "outOfDate", "running", "files", "cut"} \subseteq DOMAIN list'
      /\ list'.files = list.files /\ list'.endpoints = endpoints /\ list'.outOfDate = TRUE
  BY DEF Edited, ListIInv
<1> QED BY <1>1 DEF ListIInv, GivenUpOnlyIfSaved

LEMMA RemovedIsAList ==
  ASSUME NEW s \in Seq(ListPairs), NEW e, Contains(s, e)
  PROVE  RemoveFirst(s, e) \in Seq(ListPairs)
<1> DEFINE I == {i \in 1 .. Len(s) : s[i] = e}
<1>1. I # {} /\ I \in SUBSET Nat BY DEF Contains
<1>2. PICK p : p = Min(I) OBVIOUS
<1>3. p \in I BY <1>1, <1>2, LeastNumber DEF Min
<1>4. RemoveFirst(s, e) = SubSeq(s, 1, p - 1) \o SubSeq(s, p + 1, Len(s))
  BY <1>1, <1>2 DEF RemoveFirst, RemoveAt, SelectInSeq
<1>5. p \in 1 .. Len(s) /\ Len(s) \in Nat BY <1>3
<1>6. SubSeq(s, 1, p - 1) \in Seq(ListPairs) /\ SubSeq(s, p + 1, Len(s)) \in Seq(ListPairs)
  BY <1>5
<1> QED BY <1>4, <1>6

LEMMA EditsKeep ==
  ASSUME ListIInv, NEW entry \in ListEntries,
         PrependEndpoint(entry) \/ AppendEndpoint(entry) \/ RemoveEndpoint(entry)
  PROVE  ListIInv'
<1>1. entry \in ListPairs
  <2>1. Valid(entry) BY DEF PrependEndpoint, AppendEndpoint, RemoveEndpoint
  <2>2. entry = <<entry[1], entry[2]>> /\ entry[1] \in Addresses
    BY ListAssumption DEF Addresses
  <2>3. entry[1] \notin Unreadable /\ entry[2] \in Nat /\ entry[2] < 65536
    BY <2>1, ListAssumption DEF Valid
  <2>4. entry \in FileEntries BY <2>2, <2>3, EntriesArePairs
  <2> QED BY <2>3, <2>4 DEF ListPairs
<1>2. list.endpoints \in Seq(ListPairs) BY DEF ListIInv
<1>3. <<entry>> \o list.endpoints \in Seq(ListPairs) BY <1>1, <1>2
<1>4. Append(list.endpoints, entry) \in Seq(ListPairs) BY <1>1, <1>2
<1>5. CASE list' = list BY <1>5 DEF ListIInv, GivenUpOnlyIfSaved
<1>6. Contains(list.endpoints, entry) => RemoveFirst(list.endpoints, entry) \in Seq(ListPairs)
  BY <1>2, RemovedIsAList
<1>7. \/ list' = Edited(<<entry>> \o list.endpoints)
      \/ list' = Edited(Append(list.endpoints, entry))
      \/ Contains(list.endpoints, entry) /\ list' = Edited(RemoveFirst(list.endpoints, entry))
      \/ list' = list
  BY DEF PrependEndpoint, AppendEndpoint, RemoveEndpoint
<1>8. ASSUME NEW s \in Seq(ListPairs), list' = Edited(s) PROVE ListIInv' BY <1>8, EditingKeeps
<1> QED BY <1>3, <1>4, <1>5, <1>6, <1>7, <1>8, Zenon

\* Whatever is loaded, edited and saved, with files that do not open, parse or convert, the
\* tool asks before it gives up a list that cannot be read of a file (g_out_of_date,
\* ConfirmChoice), if no write was cut without a word.
THEOREM EditsAreAskedAbout == BootstrapSpec => []GivenUpOnlyIfSaved
<1>1. ListIInv /\ [BootstrapNext]_list => ListIInv'
  <2> SUFFICES ASSUME ListIInv, [BootstrapNext]_list PROVE ListIInv' OBVIOUS
  <2>1. CASE list' = list BY <2>1 DEF ListIInv, GivenUpOnlyIfSaved
  <2>2. CASE ExitBootstrap
    <3>1. PICK confirmed : list' = [list EXCEPT !.running = ~confirmed] BY <2>2 DEF ExitBootstrap
    <3>2. /\ {"endpoints", "outOfDate", "running", "files", "cut"} \subseteq DOMAIN list'
          /\ list'.files = list.files /\ list'.endpoints = list.endpoints
          /\ list'.outOfDate = list.outOfDate /\ list'.cut = list.cut
      BY <3>1 DEF ListIInv
    <3> QED BY <3>2 DEF ListIInv, GivenUpOnlyIfSaved
  <2> QED BY <2>1, <2>2, LoadingKeeps, SavingKeeps, EditsKeep DEF BootstrapNext
<1> QED BY <1>1, ListBegins, PTL DEF BootstrapSpec, ListIInv

-----------------------------------------------------------------------------
(* Proofs about Menu, for any names and any number of items and choices:   *)
(* WhatIsShownIsChosen.  An item without children is shown as its parent,  *)
(* which has one: MenuTree.                                                *)

MenuShape ==
  /\ {"items", "current", "shown", "ran", "entered", "stage", "result", "choices"} \subseteq DOMAIN menu
  /\ menu.items \in Seq([name : ItemNames \cup {"main"}, parent : Nat, children : Seq(Nat)])

\* Children and parents name each other.
MenuTree ==
  LET n == Len(menu.items)
  IN /\ menu.current \in 1 .. n
     /\ \A i \in 1 .. n :
          /\ menu.items[i].parent \in 0 .. n
          /\ menu.items[i].parent # NoItem => Children(menu.items[i].parent) # <<>>
          /\ \A j \in 1 .. Len(Children(i)) :
               Children(i)[j] \in 1 .. n /\ menu.items[Children(i)[j]].parent = i

MenuStage ==
  /\ menu.stage \in {"building", "showing", "asking", "ended", "crashed"}
  /\ menu.result = "error" => menu.stage = "ended"

MenuIInv == MenuShape /\ MenuTree /\ MenuStage /\ WhatIsShownIsChosen

LEMMA MenuBegins == MenuInit => MenuIInv
<1> SUFFICES ASSUME MenuInit PROVE MenuIInv OBVIOUS
<1> DEFINE top == [name |-> "main", parent |-> NoItem, children |-> <<>>]
<1>1. top \in [name : ItemNames \cup {"main"}, parent : Nat, children : Seq(Nat)] BY DEF NoItem
<1>2. /\ MenuShape /\ menu.items = <<top>> /\ menu.current = Top /\ menu.stage = "building"
      /\ menu.result = "none"
  BY <1>1 DEF MenuInit, MenuShape
<1>3. Len(menu.items) = 1 /\ menu.items[1] = top BY <1>2
<1>4. MenuTree BY <1>2, <1>3 DEF MenuTree, Children, Top, NoItem
<1> QED BY <1>2, <1>4 DEF MenuIInv, MenuStage, WhatIsShownIsChosen

LEMMA Appended ==
  ASSUME NEW S, NEW q \in Seq(S), NEW x \in S
  PROVE  /\ Append(q, x) \in Seq(S) /\ Append(q, x) # <<>> /\ Len(Append(q, x)) = Len(q) + 1
         /\ Append(q, x)[Len(q) + 1] = x /\ \A j \in 1 .. Len(q) : Append(q, x)[j] = q[j]
<1>1. Len(q) \in Nat /\ Len(Append(q, x)) = Len(q) + 1 OBVIOUS
<1>2. Append(q, x) # <<>> BY <1>1
<1> QED BY <1>1, <1>2

LEMMA ItemsAreAdded ==
  ASSUME MenuIInv, NEW parent \in 1 .. Len(menu.items), NEW name \in ItemNames,
         AddChildItem(parent, name)
  PROVE  MenuIInv'
<1> DEFINE s == menu.items
           n == Len(s)
           Items == [name : ItemNames \cup {"main"}, parent : Nat, children : Seq(Nat)]
           item == [name |-> name, parent |-> parent, children |-> <<>>]
           grown == [s EXCEPT ![parent].children = Append(@, n + 1)]
           t == WithChild(s, parent, name)
<1>1. s \in Seq(Items) /\ n \in Nat /\ parent \in 1 .. n /\ parent \in Nat
        /\ \A i \in 1 .. n : s[i] \in Items /\ s[i].children \in Seq(Nat)
  <2>1. s \in Seq(Items) BY DEF MenuIInv, MenuShape
  <2>2. n \in Nat /\ parent \in 1 .. n BY <2>1
  <2>3. \A i \in 1 .. n : s[i] \in Items
    <3> HIDE DEF s, Items
    <3> QED BY <2>1
  <2>4. \A x \in Items : x.children \in Seq(Nat) OBVIOUS
  <2> HIDE DEF s, n, Items
  <2> QED BY <2>1, <2>2, <2>3, <2>4
<1>2. menu' = [menu EXCEPT !.items = t] /\ menu.stage = "building" BY DEF AddChildItem
<1>t. t = Append(grown, item) BY DEF WithChild
<1>3. item \in Items BY <1>1
<1>4. grown \in Seq(Items) /\ Len(grown) = n
        /\ \A i \in 1 .. n : /\ grown[i].name = s[i].name /\ grown[i].parent = s[i].parent
                             /\ grown[i].children = IF i = parent THEN Append(s[i].children, n + 1)
                                                    ELSE s[i].children
  <2> DEFINE new == [s[parent] EXCEPT !.children = Append(@, n + 1)]
  <2> HIDE DEF s, n
  <2>1. s[parent] \in Items /\ Append(s[parent].children, n + 1) \in Seq(Nat) BY <1>1
  <2>2. /\ new \in Items /\ new.children = Append(s[parent].children, n + 1)
        /\ new.name = s[parent].name /\ new.parent = s[parent].parent
    BY <2>1
  <2>3. grown = [s EXCEPT ![parent] = new] BY Zenon
  <2> HIDE DEF grown, new
  <2>4. grown \in Seq(Items) /\ Len(grown) = n BY <1>1, <2>2, <2>3 DEF n
  <2>5. \A i \in 1 .. n : grown[i] = IF i = parent THEN new ELSE s[i] BY <1>1, <2>3 DEF n
  <2> QED BY <2>2, <2>4, <2>5, <1>1
<1> HIDE DEF s, grown, item, n, t
<1>5. /\ t \in Seq(Items) /\ Len(t) = n + 1 /\ t[n + 1] = item
      /\ \A i \in 1 .. n : t[i] = grown[i]
  <2> HIDE DEF Items
  <2>1. grown \in Seq(Items) /\ Len(grown) = n BY <1>4
  <2>2. /\ t \in Seq(Items) /\ Len(t) = Len(grown) + 1 /\ t[Len(grown) + 1] = item
        /\ \A i \in 1 .. Len(grown) : t[i] = grown[i]
    BY <1>3, <1>t, <2>1, Appended
  <2> QED BY <2>1, <2>2
<1>n. n + 1 \in Nat BY <1>1
<1>6. MenuShape' /\ menu'.items = t BY <1>2, <1>5 DEF MenuIInv, MenuShape
<1>7. MenuTree'
  <2>1. ASSUME NEW i \in 1 .. n
        PROVE  /\ t[i].parent \in 0 .. n
               /\ t[i].parent # NoItem => t[t[i].parent].children # <<>>
               /\ \A j \in 1 .. Len(t[i].children) :
                    t[i].children[j] \in 1 .. n + 1 /\ t[t[i].children[j]].parent = i
    <3>1. /\ s[i].parent \in 0 .. n
          /\ s[i].parent # NoItem => s[s[i].parent].children # <<>>
          /\ \A j \in 1 .. Len(s[i].children) :
               s[i].children[j] \in 1 .. n /\ s[s[i].children[j]].parent = i
      BY DEF MenuIInv, MenuTree, Children, s, n
    <3>2. s[i].children \in Seq(Nat) /\ \A k \in 1 .. n : s[k].children \in Seq(Nat) BY <1>1
    <3>3. t[i].parent = s[i].parent BY <1>4, <1>5
    <3>4. t[i].parent # NoItem => t[t[i].parent].children # <<>>
      <4> SUFFICES ASSUME t[i].parent # NoItem PROVE t[t[i].parent].children # <<>> OBVIOUS
      <4>1. PICK p \in 1 .. n : p = s[i].parent BY <1>1, <3>1, <3>3 DEF NoItem
      <4>2. s[p].children # <<>> /\ s[p].children \in Seq(Nat) BY <3>1, <3>2, <3>3, <4>1
      <4>3. Append(s[p].children, n + 1) # <<>> BY SMTT(20), <4>2, <1>n, Appended
      <4>4. t[p].children \in {s[p].children, Append(s[p].children, n + 1)} BY <1>4, <1>5
      <4> QED BY <3>3, <4>1, <4>2, <4>3, <4>4
    <3>5. ASSUME NEW j \in 1 .. Len(t[i].children)
          PROVE  t[i].children[j] \in 1 .. n + 1 /\ t[t[i].children[j]].parent = i
      <4>1. CASE j \in 1 .. Len(s[i].children) /\ t[i].children[j] = s[i].children[j]
        <5>1. PICK k \in 1 .. n : k = s[i].children[j] BY <3>1, <4>1
        <5>2. s[k].parent = i BY <3>1, <4>1, <5>1
        <5>3. t[k].parent = s[k].parent BY <1>4, <1>5
        <5> QED BY SMTT(40), <1>1, <4>1, <5>1, <5>2, <5>3
      <4>2. CASE i = parent /\ t[i].children[j] = n + 1
        <5>1. t[n + 1].parent = parent BY <1>5 DEF item
        <5> QED BY <1>1, <4>2, <5>1
      <4>3. t[i].children = IF i = parent THEN Append(s[i].children, n + 1) ELSE s[i].children
        BY <1>4, <1>5
      <4>4. CASE i = parent
        <5>1. Len(t[i].children) = Len(s[i].children) + 1
                /\ t[i].children[Len(s[i].children) + 1] = n + 1
                /\ \A k \in 1 .. Len(s[i].children) : t[i].children[k] = s[i].children[k]
          BY <1>1, <3>2, <4>3, <4>4, Appended, SMTT(30)
        <5>2. j \in 1 .. Len(s[i].children) \/ j = Len(s[i].children) + 1 BY <3>2, <5>1
        <5> QED BY <4>1, <4>2, <4>4, <5>1, <5>2
      <4>5. CASE i # parent BY <4>1, <4>3, <4>5
      <4> QED BY <4>4, <4>5
    <3> QED BY <3>1, <3>3, <3>4, <3>5
  <2>2. /\ t[n + 1].parent = parent /\ t[n + 1].children = <<>> /\ t[parent].children # <<>>
    <3>1. t[parent].children = Append(s[parent].children, n + 1) BY <1>1, <1>4, <1>5
    <3>2. s[parent].children \in Seq(Nat) BY <1>1
    <3>3. t[parent].children # <<>> BY <1>n, <3>1, <3>2, Appended, SMTT(30)
    <3> QED BY <1>5, <3>3 DEF item
  <2>3. menu'.current \in 1 .. n BY <1>2 DEF MenuIInv, MenuTree, MenuShape, s, n
  <2>4. Len(t) = n + 1 BY <1>5
  <2>5. \A i \in 1 .. n + 1 : i \in 1 .. n \/ i = n + 1 BY <1>1
  <2>6. ASSUME NEW i \in 1 .. n + 1
        PROVE  /\ t[i].parent \in 0 .. n + 1
               /\ t[i].parent # NoItem => t[t[i].parent].children # <<>>
               /\ \A j \in 1 .. Len(t[i].children) :
                    t[i].children[j] \in 1 .. n + 1 /\ t[t[i].children[j]].parent = i
    <3>1. CASE i \in 1 .. n
      <4>1. /\ t[i].parent \in 0 .. n
            /\ t[i].parent # NoItem => t[t[i].parent].children # <<>>
            /\ \A j \in 1 .. Len(t[i].children) :
                 t[i].children[j] \in 1 .. n + 1 /\ t[t[i].children[j]].parent = i
        BY <2>1, <3>1, Zenon
      <4>2. 0 .. n \subseteq 0 .. n + 1 BY <1>1
      <4> QED BY <4>1, <4>2, Zenon
    <3>2. CASE i = n + 1 BY <1>1, <2>2, <3>2
    <3> QED BY <2>5, <3>1, <3>2
  <2>7. menu'.current \in 1 .. n + 1 BY <1>1, <2>3
  <2> QED BY <1>6, <2>4, <2>6, <2>7 DEF MenuTree, Children
<1>8. menu'.stage = menu.stage /\ menu'.result = menu.result BY <1>2 DEF MenuIInv, MenuShape
<1> QED BY <1>2, <1>6, <1>7, <1>8 DEF MenuIInv, MenuStage, WhatIsShownIsChosen

LEMMA OptionsAreShown ==
  ASSUME MenuIInv, Show
  PROVE  MenuIInv'
<1>1. PICK item : item = Shown(menu.current) OBVIOUS
<1>2. menu.items \in Seq([name : ItemNames \cup {"main"}, parent : Nat, children : Seq(Nat)])
        /\ menu.current \in 1 .. Len(menu.items)
  BY DEF MenuIInv, MenuShape, MenuTree
<1>3. CASE item = NoItem
  <2>1. menu' = [menu EXCEPT !.stage = "crashed"] BY <1>1, <1>3 DEF Show
  <2>2. MenuShape' /\ menu'.items = menu.items /\ menu'.current = menu.current
          /\ menu'.stage = "crashed" /\ menu'.result = menu.result
    BY <2>1 DEF MenuIInv, MenuShape
  <2>3. menu.result # "error" BY DEF Show, MenuIInv, MenuStage
  <2>4. MenuTree' BY <2>2 DEF MenuIInv, MenuTree, Children
  <2> QED BY <2>2, <2>3, <2>4 DEF MenuIInv, MenuStage, WhatIsShownIsChosen
<1>4. CASE item # NoItem
  <2>1. menu' = [menu EXCEPT !.current = item, !.shown = item, !.stage = "asking"]
    BY <1>1, <1>4 DEF Show
  <2>2. MenuShape' /\ menu'.items = menu.items /\ menu'.current = item /\ menu'.shown = item
          /\ menu'.stage = "asking" /\ menu'.result = menu.result
    BY <2>1 DEF MenuIInv, MenuShape
  <2>3. item \in 1 .. Len(menu.items) /\ Children(item) # <<>>
    <3>1. \A i \in 1 .. Len(menu.items) :
            /\ menu.items[i].parent \in 0 .. Len(menu.items)
            /\ menu.items[i].parent # NoItem => Children(menu.items[i].parent) # <<>>
      BY DEF MenuIInv, MenuTree
    <3>2. CASE Children(menu.current) = <<>>
      <4>1. item = menu.items[menu.current].parent BY <1>1, <3>2 DEF Shown
      <4> QED BY <1>2, <1>4, <3>1, <4>1, SMTT(30) DEF NoItem
    <3>3. CASE Children(menu.current) # <<>> BY <1>1, <1>2, <3>3 DEF Shown
    <3> QED BY <3>2, <3>3
  <2>4. MenuTree' BY <2>2, <2>3, ZenonT(30) DEF MenuIInv, MenuTree, Children
  <2>5. menu.result # "error" BY DEF Show, MenuIInv, MenuStage
  <2> QED BY <2>2, <2>3, <2>4, <2>5 DEF MenuIInv, MenuStage, WhatIsShownIsChosen, Children
<1> QED BY <1>3, <1>4

\* What an option leads to is what it is shown with.
Means(option, target) ==
  LET above == menu.items[menu.current].parent
  IN IF option = 99 /\ above # NoItem THEN target = above
     ELSE /\ option \in 1 .. Len(Children(menu.current))
          /\ target = Children(menu.current)[option]

LEMMA TargetIsShown ==
  ASSUME MenuIInv, NEW option, Target(option) # NoItem
  PROVE  Target(option) \in 1 .. Len(menu.items) /\ Means(option, Target(option))
<1> DEFINE n == Len(menu.items)
<1>1. n \in Nat /\ menu.current \in 1 .. n BY DEF MenuIInv, MenuShape, MenuTree
<1>2. menu.items[menu.current].parent \in 0 .. n
        /\ \A j \in 1 .. Len(Children(menu.current)) : Children(menu.current)[j] \in 1 .. n
  BY <1>1 DEF MenuIInv, MenuTree
<1>3. Means(option, Target(option)) BY DEF Means, Target
<1>4. \/ Target(option) = menu.items[menu.current].parent
      \/ \E j \in 1 .. Len(Children(menu.current)) : Target(option) = Children(menu.current)[j]
  BY DEF Target
<1> QED BY <1>1, <1>2, <1>3, <1>4 DEF NoItem

LEMMA OptionsAreChosen ==
  ASSUME MenuIInv, NEW option, Choose(option)
  PROVE  MenuIInv'
<1> DEFINE target == Target(option)
           chosen == [menu EXCEPT !.choices = @ + 1]
<1>1. menu.stage = "asking" /\ menu.shown = menu.current /\ menu.result # "error"
  BY DEF Choose, MenuIInv, MenuStage, WhatIsShownIsChosen
<1>2. CASE option = 0
  <2>1. menu' = [chosen EXCEPT !.stage = "ended", !.result = "0"] BY <1>2 DEF Choose
  <2>2. MenuShape' /\ menu'.items = menu.items /\ menu'.current = menu.current
          /\ menu'.stage = "ended" /\ menu'.result = "0"
    BY <2>1 DEF MenuIInv, MenuShape
  <2>3. MenuTree' BY <2>2 DEF MenuIInv, MenuTree, Children
  <2> QED BY <2>2, <2>3 DEF MenuIInv, MenuStage, WhatIsShownIsChosen
<1>3. CASE option # 0 /\ target = NoItem
  <2>1. menu' = chosen BY <1>3 DEF Choose
  <2>2. MenuShape' /\ menu'.items = menu.items /\ menu'.current = menu.current
          /\ menu'.shown = menu.shown /\ menu'.stage = menu.stage /\ menu'.result = menu.result
    BY <2>1 DEF MenuIInv, MenuShape
  <2>3. MenuTree' BY <2>2 DEF MenuIInv, MenuTree, Children
  <2> QED BY <1>1, <2>2, <2>3 DEF MenuIInv, MenuStage, WhatIsShownIsChosen, Children
<1>4. CASE option # 0 /\ target # NoItem
  <2>1. \/ menu' = [chosen EXCEPT !.current = target, !.ran = target, !.entered = option,
                                  !.stage = "ended", !.result = "error"]
        \/ menu' = [chosen EXCEPT !.current = target, !.ran = target, !.entered = option,
                                  !.stage = "showing"]
    BY <1>4 DEF Choose
  <2>2. MenuShape' /\ menu'.items = menu.items /\ menu'.current = target /\ menu'.ran = target
          /\ menu'.shown = menu.shown /\ menu'.entered = option
          /\ \/ menu'.stage = "ended" /\ menu'.result = "error"
             \/ menu'.stage = "showing" /\ menu'.result = menu.result
    BY <2>1 DEF MenuIInv, MenuShape
  <2>3. target \in 1 .. Len(menu.items) /\ Means(option, target) BY <1>4, TargetIsShown
  <2> HIDE DEF target
  <2>4. MenuTree' BY <2>2, <2>3 DEF MenuIInv, MenuTree, Children
  <2>5. MenuStage' BY <1>1, <2>2 DEF MenuStage
  <2>6. WhatIsShownIsChosen' BY <1>1, <2>2, <2>3 DEF WhatIsShownIsChosen, Means, Children
  <2> QED BY <2>2, <2>4, <2>5, <2>6 DEF MenuIInv
<1> QED BY <1>2, <1>3, <1>4

\* Whatever tree of at least one item the caller builds, the item that runs is the one the
\* number entered was shown with, or for 99 the one above it; and what is on the screen has
\* options to choose from (Run, ShowOptions, Child).  An empty tree ends the program before
\* anything is shown.
THEOREM OptionsMeanWhatIsShown == MenuSpec => []WhatIsShownIsChosen
<1>1. MenuIInv /\ [MenuNext]_menu => MenuIInv'
  <2> SUFFICES ASSUME MenuIInv, [MenuNext]_menu PROVE MenuIInv' OBVIOUS
  <2>1. CASE menu' = menu
    BY <2>1 DEF MenuIInv, MenuShape, MenuTree, MenuStage, WhatIsShownIsChosen, Children
  <2>2. CASE MenuNext BY <2>2, ItemsAreAdded, OptionsAreShown, OptionsAreChosen DEF MenuNext
  <2> QED BY <2>1, <2>2
<1> QED BY <1>1, MenuBegins, PTL DEF MenuSpec, MenuIInv

-----------------------------------------------------------------------------
(* Proofs about Errors, for any int that may arrive: ErrorsTravel.  The    *)
(* codes of a category are below kMultiple, which keeps its number and the *)
(* code apart: Codes, ReadAsItself.                                        *)

LEMMA Codes ==
  ASSUME NEW c \in DOMAIN Categories, NEW value \in CodesOf(c)
  PROVE  /\ c \in 1 .. 10 /\ value \in Nat /\ value < kMultiple
         /\ Number(Categories[c]) = c /\ Categories[c] \notin {"system", "thrown", "none"}
<1>1. c \in 1 .. 10 BY DEF Categories
<1>2. LastCode[c] \in 0 .. 28 BY <1>1 DEF LastCode
<1>3. \A d \in DOMAIN Categories : Categories[d] = Categories[c] => d = c
  BY <1>1 DEF Categories
<1>4. Number(Categories[c]) = c BY <1>3 DEF Number
<1>5. Categories[c] \notin {"system", "thrown", "none"} BY <1>1 DEF Categories
<1>6. value \in Nat /\ value <= LastCode[c]
  <2>1. value \in (IF Categories[c] = "Common" THEN 0 ELSE 1) .. LastCode[c] BY DEF CodesOf
  <2> QED BY <1>2, <2>1
<1>7. value < kMultiple BY <1>2, <1>6 DEF kMultiple
<1> QED BY <1>1, <1>4, <1>5, <1>6, <1>7

\* What comes of an int, in terms of its quotient and its remainder.
LEMMA ReadAsItself ==
  ASSUME NEW c \in DOMAIN Categories, NEW r \in Int, NEW n \in Int,
         Split(n) = <<c * kMultiple, r>>
  PROVE  IntToError(n) = MakeError(c, r)
<1>1. c \in 1 .. 10 BY DEF Categories
<1>2. (c * kMultiple) \div kMultiple = c BY <1>1 DEF kMultiple
<1>3. Split(n)[1] = c * kMultiple /\ Split(n)[2] = r OBVIOUS
<1> QED BY <1>2, <1>3 DEF IntToError

\* An int that is not refused is the error that is written as it.
LEMMA RefusedOrTheSame ==
  ASSUME NEW n \in Int, IntToError(n) # Thrown
  PROVE  ErrorToInt(IntToError(n)) = n
<1> DEFINE m == 0 - n
           r == Remainder(m)
<1>1. m \in Int /\ r \in Int BY DEF Remainder, kMultiple
<1>2. Split(n) = <<m - r, r>> BY DEF Split
<1> HIDE DEF r
<1>3. PICK c \in DOMAIN Categories : Split(n)[1] = c * kMultiple BY DEF IntToError
<1>4. c \in 1 .. 10 /\ 0 \in CodesOf(1) /\ \A d \in 1 .. 10 : 1 \in CodesOf(d)
  BY DEF Categories, CodesOf, LastCode
<1>5. Number(Categories[c]) = c BY <1>4, Codes
<1>6. m - r = c * kMultiple BY <1>2, <1>3
<1>7. IntToError(n) = MakeError(c, r) BY <1>1, <1>2, <1>6, ReadAsItself
<1>8. ErrorToInt(MakeError(c, r)) = -(c * kMultiple) - r BY <1>5 DEF ErrorToInt, MakeError
<1> QED BY <1>1, <1>4, <1>6, <1>7, <1>8 DEF kMultiple

\* An error that is written is read as the same one.
LEMMA WrittenIsRead ==
  ASSUME NEW c \in DOMAIN Categories, NEW value \in CodesOf(c)
  PROVE  LET n == ErrorToInt(MakeError(c, value))
         IN  n \in Int /\ IntToError(n) = MakeError(c, value)
<1> DEFINE n == ErrorToInt(MakeError(c, value))
<1>v. c \in 1 .. 10 /\ value \in Nat /\ value < kMultiple /\ Number(Categories[c]) = c BY Codes
<1>2. n = -(c * kMultiple) - value BY <1>v DEF ErrorToInt, MakeError
<1> HIDE DEF n
<1> DEFINE p == c * kMultiple
<1>p. p \in Nat /\ p % kMultiple = 0
  <2>1. c \in Nat /\ p = c * 100000 BY <1>v DEF p, kMultiple
  <2>2. (c * 100000) % 100000 = 0 BY <2>1
  <2> QED BY <2>1, <2>2 DEF kMultiple
<1>k. kMultiple \in Nat BY DEF kMultiple
<1> HIDE DEF p
<1>3. n \in Int /\ 0 - n = p + value /\ 0 - n >= 0
  <2>1. n = -p - value BY <1>2, Zenon DEF p
  <2> QED BY <1>p, <1>v, <2>1
<1>4. Remainder(0 - n) = value
  <2>1. Remainder(0 - n) = (p + value) % kMultiple BY <1>3 DEF Remainder
  <2>2. p % 100000 = 0 /\ value < 100000 BY <1>p, <1>v DEF kMultiple
  <2>3. (p + value) % 100000 = value BY <1>p, <1>v, <2>2
  <2> QED BY <2>1, <2>3 DEF kMultiple
<1>5. Split(n) = <<c * kMultiple, value>>
  <2>1. (0 - n) - value = c * kMultiple BY <1>p, <1>v, <1>3 DEF p
  <2> QED BY <1>4, <2>1 DEF Split
<1> QED BY <1>v, <1>3, <1>5, ReadAsItself DEF n, kMultiple

\* What is on the way: nothing, the number of what was made, or any int.
ErrorIInv ==
  /\ {"made", "wire", "got"} \subseteq DOMAIN error
  /\ \/ error.made \in {System, Nothing}
     \/ \E c \in DOMAIN Categories : \E value \in CodesOf(c) : error.made = MakeError(c, value)
  /\ error.wire = <<>> => error.made # Nothing
  /\ error.wire # <<>> =>
       /\ error.made # System /\ \E n \in Int : error.wire = <<n>>
       /\ error.made # Nothing => error.wire[1] = ErrorToInt(error.made)
  /\ ErrorsTravel

\* Whatever arrives, an error written by one process is read as the same by another, and
\* an int is refused or read as the one error that is written so (ErrorToInt, IntToError).
THEOREM ErrorsArriveAsThemselves == ErrorSpec => []ErrorsTravel
<1>1. ErrorInit => ErrorIInv
  <2> SUFFICES ASSUME ErrorInit PROVE ErrorIInv OBVIOUS
  <2>1. error.made # Nothing BY Codes DEF ErrorInit, MakeError, System, Nothing
  <2> QED BY <2>1 DEF ErrorInit, ErrorIInv, ErrorsTravel
<1>2. ErrorIInv /\ [ErrorNext]_error => ErrorIInv'
  <2> SUFFICES ASSUME ErrorIInv, [ErrorNext]_error PROVE ErrorIInv' OBVIOUS
  <2>1. CASE error' = error BY <2>1 DEF ErrorIInv, ErrorsTravel
  <2>2. CASE SaveError
    <3>1. CASE error.made = System
      <4>1. error' = [error EXCEPT !.got = Thrown] BY <2>2, <3>1 DEF SaveError
      <4> QED BY <2>2, <3>1, <4>1 DEF SaveError, ErrorIInv, ErrorsTravel
    <3>2. CASE error.made # System
      <4>1. error' = [error EXCEPT !.wire = <<ErrorToInt(error.made)>>]
        BY <2>2, <3>2 DEF SaveError
      <4>2. /\ {"made", "wire", "got"} \subseteq DOMAIN error' /\ error'.made = error.made
            /\ error'.wire = <<ErrorToInt(error.made)>> /\ error'.got = Nothing
        BY <2>2, <4>1 DEF SaveError, ErrorIInv
      <4>3. error.made # Nothing => ErrorToInt(error.made) \in Int
        BY <3>2, WrittenIsRead DEF ErrorIInv
      <4>4. error'.wire[1] = ErrorToInt(error'.made) BY <4>2
      <4>5. error.made # Nothing
        BY <2>2 DEF SaveError, ErrorIInv
      <4>6. \E n \in Int : error'.wire = <<n>> BY <4>2, <4>3, <4>5
      <4> QED BY <3>2, <4>2, <4>4, <4>6 DEF ErrorIInv, ErrorsTravel
    <3> QED BY <3>1, <3>2
  <2>3. ASSUME NEW n \in Ints, Arrive(n) PROVE ErrorIInv'
    BY <2>3, IntsAssumption DEF Arrive, ErrorIInv, ErrorsTravel, Nothing, System
  <2>4. CASE LoadError
    <3>1. PICK n \in Int : error.wire = <<n>> BY <2>4 DEF LoadError, ErrorIInv
    <3>2. /\ {"made", "wire", "got"} \subseteq DOMAIN error' /\ error'.made = error.made
          /\ error'.wire = error.wire /\ error'.wire[1] = n /\ error'.got = IntToError(n)
      BY <2>4, <3>1 DEF LoadError, ErrorIInv
    <3>3. error.made \notin {Nothing, System} => IntToError(n) = error.made
      <4> SUFFICES ASSUME error.made \notin {Nothing, System} PROVE IntToError(n) = error.made
        OBVIOUS
      <4>1. n = ErrorToInt(error.made) BY <2>4, <3>1 DEF LoadError, ErrorIInv
      <4> QED BY <4>1, WrittenIsRead DEF ErrorIInv
    <3>4. IntToError(n) # Thrown => ErrorToInt(IntToError(n)) = n BY RefusedOrTheSame
    <3> QED BY <3>2, <3>3, <3>4 DEF ErrorIInv, ErrorsTravel
  <2> QED BY <2>1, <2>2, <2>3, <2>4 DEF ErrorNext
<1> QED BY <1>1, <1>2, PTL DEF ErrorSpec, ErrorIInv

-----------------------------------------------------------------------------
(* Proofs about BoundedString, for any objects and bounds: StringsAreKeys. *)
(* Of two texts one is before the other from a place on, BeforeFrom.       *)

Bytes == {0, 1}

BeforeFrom(s, t, k) ==
  /\ k \in 1 .. Len(t) /\ k <= Len(s) + 1
  /\ \A j \in 1 .. k - 1 : s[j] = t[j]
  /\ k <= Len(s) => s[k] < t[k]

LEMMA BeforeFromAPlace ==
  ASSUME NEW s \in Seq(Bytes), NEW t \in Seq(Bytes)
  PROVE  Before(s, t) <=> \E k \in Nat : BeforeFrom(s, t, k)
<1> DEFINE m == Len(s)
           n == Len(t)
<1>1. m \in Nat /\ n \in Nat /\ DOMAIN s = 1 .. m /\ DOMAIN t = 1 .. n OBVIOUS
<1>2. IsStrictPrefix(s, t) <=> m < n /\ \A j \in 1 .. m : s[j] = t[j]
  <2>1. ASSUME m <= n
        PROVE  (SubSeq(s, 1, m) = SubSeq(t, 1, m)) <=> \A j \in 1 .. m : s[j] = t[j]
    <3>1. /\ SubSeq(s, 1, m) \in Seq(Bytes) /\ Len(SubSeq(s, 1, m)) = m
          /\ \A j \in 1 .. m : SubSeq(s, 1, m)[j] = s[j]
      BY <1>1
    <3>2. /\ SubSeq(t, 1, m) \in Seq(Bytes) /\ Len(SubSeq(t, 1, m)) = m
          /\ \A j \in 1 .. m : SubSeq(t, 1, m)[j] = t[j]
      BY <1>1, <2>1
    <3> DEFINE a == SubSeq(s, 1, m)
               b == SubSeq(t, 1, m)
    <3> HIDE DEF a, b
    <3>3. a \in Seq(Bytes) /\ b \in Seq(Bytes) /\ Len(a) = m /\ Len(b) = m BY <3>1, <3>2 DEF a, b
    <3>4. a = b <=> \A j \in 1 .. m : a[j] = b[j] BY <3>3
    <3>5. \A j \in 1 .. m : a[j] = s[j] /\ b[j] = t[j] BY <3>1, <3>2 DEF a, b
    <3>6. a = b <=> \A j \in 1 .. m : s[j] = t[j] BY <3>4, <3>5
    <3> QED BY <3>6 DEF a, b
  <2>2. m = n /\ (\A j \in 1 .. m : s[j] = t[j]) => s = t BY <1>1
  <2>3. s = t => m = n OBVIOUS
  <2> HIDE DEF m, n
  <2>4. IsPrefix(s, t) <=> m <= n /\ SubSeq(s, 1, m) = SubSeq(t, 1, m) BY DEF IsPrefix, m, n
  <2>5. IsPrefix(s, t) <=> m <= n /\ \A j \in 1 .. m : s[j] = t[j] BY <2>1, <2>4
  <2> QED BY <1>1, <2>2, <2>3, <2>5 DEF IsStrictPrefix
<1>3. Before(s, t) => \E k \in Nat : BeforeFrom(s, t, k)
  <2>1. CASE IsStrictPrefix(s, t)
    <3>1. BeforeFrom(s, t, m + 1) BY <1>1, <1>2, <2>1 DEF BeforeFrom
    <3> QED BY <1>1, <3>1
  <2>2. CASE \E i \in DOMAIN s \cap DOMAIN t :
               s[i] < t[i] /\ \A j \in 1 .. (i - 1) : s[j] = t[j]
    <3>1. PICK i \in DOMAIN s \cap DOMAIN t :
            s[i] < t[i] /\ \A j \in 1 .. (i - 1) : s[j] = t[j]
      BY <2>2
    <3>2. i \in Nat /\ BeforeFrom(s, t, i) BY <1>1, <3>1 DEF BeforeFrom
    <3> QED BY <3>2
  <2> QED BY <2>1, <2>2 DEF Before
<1>4. ASSUME NEW k \in Nat, BeforeFrom(s, t, k) PROVE Before(s, t)
  <2>1. CASE k <= m
    <3>1. k \in DOMAIN s \cap DOMAIN t /\ s[k] < t[k] /\ \A j \in 1 .. (k - 1) : s[j] = t[j]
      BY <1>1, <1>4, <2>1 DEF BeforeFrom
    <3> QED BY <3>1 DEF Before
  <2>2. CASE ~(k <= m)
    <3>1. k = m + 1 BY <1>1, <1>4, <2>2 DEF BeforeFrom
    <3>2. IsStrictPrefix(s, t) BY <1>1, <1>2, <1>4, <3>1 DEF BeforeFrom
    <3> QED BY <3>2 DEF Before
  <2> QED BY <2>1, <2>2
<1> QED BY <1>3, <1>4

LEMMA BeforeIsATotalOrder ==
  /\ \A s, t \in Seq(Bytes) : Before(s, t) => ~Before(t, s) /\ s # t
  /\ \A s, t \in Seq(Bytes) : s # t => Before(s, t) \/ Before(t, s)
  /\ \A s, t, u \in Seq(Bytes) : Before(s, t) /\ Before(t, u) => Before(s, u)
<1>b. \A s \in Seq(Bytes) : Len(s) \in Nat /\ \A i \in 1 .. Len(s) : s[i] \in Int BY DEF Bytes
<1>1. ASSUME NEW s \in Seq(Bytes), NEW t \in Seq(Bytes), Before(s, t)
      PROVE  ~Before(t, s) /\ s # t
  <2>1. PICK k \in Nat : BeforeFrom(s, t, k) BY <1>1, BeforeFromAPlace
  <2>2. s # t BY <1>b, <2>1 DEF BeforeFrom
  <2>3. ASSUME Before(t, s) PROVE FALSE
    <3>1. PICK l \in Nat : BeforeFrom(t, s, l) BY <2>3, BeforeFromAPlace
    <3>2. CASE k < l BY <1>b, <2>1, <3>1, <3>2 DEF BeforeFrom
    <3>3. CASE l < k BY <1>b, <2>1, <3>1, <3>3 DEF BeforeFrom
    <3>4. CASE k = l BY <1>b, <2>1, <3>1, <3>4 DEF BeforeFrom
    <3> QED BY <3>2, <3>3, <3>4
  <2> QED BY <2>2, <2>3
<1>2. ASSUME NEW s \in Seq(Bytes), NEW t \in Seq(Bytes), s # t
      PROVE  Before(s, t) \/ Before(t, s)
  <2> DEFINE D == {k \in Nat : k \in 1 .. Len(s) /\ k \in 1 .. Len(t) /\ s[k] # t[k]}
  <2>1. CASE D = {}
    <3>1. \A k \in 1 .. Len(s) : k \in 1 .. Len(t) => s[k] = t[k] BY <1>b, <2>1
    <3>2. Len(s) # Len(t) BY <1>2, <3>1
    <3>3. CASE Len(s) < Len(t)
      <4>1. BeforeFrom(s, t, Len(s) + 1) BY <1>b, <3>1, <3>3 DEF BeforeFrom
      <4> QED BY <1>b, <4>1, BeforeFromAPlace
    <3>4. CASE Len(t) < Len(s)
      <4>1. BeforeFrom(t, s, Len(t) + 1) BY <1>b, <3>1, <3>4 DEF BeforeFrom
      <4> QED BY <1>b, <4>1, BeforeFromAPlace
    <3> QED BY <1>b, <3>2, <3>3, <3>4
  <2>2. CASE D # {}
    <3>1. PICK k \in D : \A l \in D : k <= l BY <2>2, LeastNumber
    <3>2. k \in Nat /\ k \in 1 .. Len(s) /\ k \in 1 .. Len(t) /\ s[k] # t[k] OBVIOUS
    <3>3. \A j \in 1 .. k - 1 : s[j] = t[j] BY <1>b, <3>1, <3>2
    <3>4. s[k] < t[k] \/ t[k] < s[k] BY <1>b, <3>2
    <3>5. BeforeFrom(s, t, k) \/ BeforeFrom(t, s, k) BY <1>b, <3>2, <3>3, <3>4 DEF BeforeFrom
    <3> QED BY <3>2, <3>5, BeforeFromAPlace
  <2> QED BY <2>1, <2>2
<1>3. ASSUME NEW s \in Seq(Bytes), NEW t \in Seq(Bytes), NEW u \in Seq(Bytes),
             Before(s, t), Before(t, u)
      PROVE  Before(s, u)
  <2>1. PICK k \in Nat : BeforeFrom(s, t, k) BY <1>3, BeforeFromAPlace
  <2>2. PICK l \in Nat : BeforeFrom(t, u, l) BY <1>3, BeforeFromAPlace
  <2>3. CASE k <= l
    <3>1. BeforeFrom(s, u, k) BY <1>b, <2>1, <2>2, <2>3, SMTT(30) DEF BeforeFrom
    <3> QED BY <3>1, BeforeFromAPlace
  <2>4. CASE l < k
    <3>1. BeforeFrom(s, u, l) BY <1>b, <2>1, <2>2, <2>4 DEF BeforeFrom
    <3> QED BY <3>1, BeforeFromAPlace
  <2> QED BY <2>3, <2>4
<1> QED BY <1>1, <1>2, <1>3

BoundedIInv ==
  /\ {"strings", "archive", "error"} \subseteq DOMAIN bounded
  /\ bounded.strings \in [Strings -> [string : Seq(Bytes), valid : BOOLEAN]]
  /\ bounded.archive \in Seq(Bytes)
  /\ InitialisedIsWithinBounds

LEMMA AllAreOrdered ==
  ASSUME BoundedIInv
  PROVE  OrderedAsAKey
<1>1. \A o \in Strings : StringOf(o) \in Seq(Bytes) /\ ValidString(o) \in BOOLEAN
  BY DEF BoundedIInv, StringOf, ValidString
<1>2. ASSUME NEW o \in Strings, NEW p \in Strings
      PROVE  <<Less(o, p), Equal(o, p), Greater(o, p)>> \in
               {<<TRUE, FALSE, FALSE>>, <<FALSE, TRUE, FALSE>>, <<FALSE, FALSE, TRUE>>}
  <2>1. CASE ValidString(o) /\ ValidString(p)
    <3> DEFINE s == StringOf(o)
               t == StringOf(p)
    <3>1. Before(s, t) \in BOOLEAN /\ Before(t, s) \in BOOLEAN BY DEF Before
    <3>2. s \in Seq(Bytes) /\ t \in Seq(Bytes) BY <1>1
    <3>3. /\ Before(s, t) => ~Before(t, s) /\ s # t
          /\ Before(t, s) => s # t
          /\ s # t => Before(s, t) \/ Before(t, s)
      BY <3>2, BeforeIsATotalOrder
    <3> HIDE DEF s, t
    <3>4. Less(o, p) = Before(s, t) BY <2>1, <3>1 DEF Less, s, t
    <3>5. Greater(o, p) = Before(t, s) BY <2>1, <3>1 DEF Greater, Less, s, t
    <3>6. Equal(o, p) = (s = t) BY <2>1 DEF Equal, s, t
    <3> QED BY <3>1, <3>3, <3>4, <3>5, <3>6
  <2>2. CASE ~(ValidString(o) /\ ValidString(p))
    BY <1>1, <2>2 DEF Less, Greater, Equal
  <2> QED BY <2>1, <2>2
<1>3. ASSUME NEW o \in Strings, NEW p \in Strings, NEW q \in Strings, Less(o, p), Less(p, q)
      PROVE  Less(o, q)
  BY <1>1, <1>3, BeforeIsATotalOrder DEF Less
<1> QED BY <1>2, <1>3 DEF OrderedAsAKey

LEMMA StringsBegin == BoundedInit => BoundedIInv
<1> SUFFICES ASSUME BoundedInit PROVE BoundedIInv OBVIOUS
<1>1. <<>> \in Seq(Bytes) /\ \A o \in Strings : (~OutwithBounds(o, <<>>)) \in BOOLEAN
  BY DEF OutwithBounds
<1>2. /\ {"strings", "archive", "error"} \subseteq DOMAIN bounded
      /\ bounded.strings = [o \in Strings |-> [string |-> <<>>, valid |-> ~OutwithBounds(o, <<>>)]]
      /\ bounded.archive = <<>>
  BY DEF BoundedInit
<1>3. \A o \in Strings : [string |-> <<>>, valid |-> ~OutwithBounds(o, <<>>)]
                           \in [string : Seq(Bytes), valid : BOOLEAN]
  BY <1>1
<1>4. bounded.strings \in [Strings -> [string : Seq(Bytes), valid : BOOLEAN]]
  BY <1>2, <1>3
<1>5. \A o \in Strings : bounded.strings[o].string = <<>> BY <1>2
<1> QED BY <1>1, <1>2, <1>4, <1>5 DEF BoundedIInv, InitialisedIsWithinBounds, StringOf

\* A string that is within the bounds of its object, or has been emptied, may be stored in it.
LEMMA StringIsSet ==
  ASSUME BoundedIInv, NEW o \in Strings, NEW string \in Seq(Bytes), NEW valid \in BOOLEAN,
         bounded' = SetString(o, string, valid),
         valid => ~OutwithBounds(o, string) \/ string = <<>>
  PROVE  BoundedIInv'
<1> DEFINE new == [string |-> string, valid |-> valid]
<1>1. bounded' = [bounded EXCEPT !.strings = [bounded.strings EXCEPT ![o] = new], !.error = "none"]
  BY DEF SetString
<1>2. /\ {"strings", "archive", "error"} \subseteq DOMAIN bounded'
      /\ bounded'.strings = [bounded.strings EXCEPT ![o] = new]
      /\ bounded'.archive = bounded.archive
  BY <1>1 DEF BoundedIInv
<1>3. bounded'.strings \in [Strings -> [string : Seq(Bytes), valid : BOOLEAN]]
  BY <1>2 DEF BoundedIInv
<1>4. bounded'.strings[o] = new /\ \A p \in Strings : p # o => bounded'.strings[p] = bounded.strings[p]
  BY <1>2 DEF BoundedIInv
<1>5. InitialisedIsWithinBounds'
  <2>1. (ValidString(o) => ~OutwithBounds(o, StringOf(o)) \/ StringOf(o) = <<>>)'
    BY <1>4 DEF StringOf, ValidString, OutwithBounds
  <2>2. ASSUME NEW p \in Strings, p # o
        PROVE  (ValidString(p) => ~OutwithBounds(p, StringOf(p)) \/ StringOf(p) = <<>>)'
    <3>1. bounded'.strings[p] = bounded.strings[p] BY <1>4, <2>2
    <3>2. ValidString(p) => ~OutwithBounds(p, StringOf(p)) \/ StringOf(p) = <<>>
      BY DEF BoundedIInv, InitialisedIsWithinBounds
    <3> QED BY <3>1, <3>2 DEF StringOf, ValidString, OutwithBounds
  <2> QED BY <2>1, <2>2 DEF InitialisedIsWithinBounds
<1> QED BY <1>2, <1>3, <1>5 DEF BoundedIInv

LEMMA NothingIsSet ==
  ASSUME BoundedIInv, NEW what, StringThrows(what)
  PROVE  BoundedIInv'
BY DEF StringThrows, BoundedIInv, InitialisedIsWithinBounds, StringOf, ValidString, OutwithBounds

LEMMA StringIsMoved ==
  ASSUME BoundedIInv, NEW o \in Strings, NEW p \in Strings, MoveString(o, p)
  PROVE  BoundedIInv'
<1> DEFINE new == [string |-> StringOf(p), valid |-> ValidString(p)]
           set == [bounded.strings EXCEPT ![o] = new]
           emptied == [set[p] EXCEPT !.string = <<>>]
<1>1. bounded' = [bounded EXCEPT !.strings = [set EXCEPT ![p] = emptied], !.error = "none"]
  BY DEF MoveString, SetString, BoundedIInv
<1>2. /\ {"strings", "archive", "error"} \subseteq DOMAIN bounded'
      /\ bounded'.strings = [set EXCEPT ![p] = emptied]
      /\ bounded'.archive = bounded.archive
  BY <1>1 DEF BoundedIInv
<1>3. o # p /\ SameBounds(o, p) BY DEF MoveString
<1>4. set \in [Strings -> [string : Seq(Bytes), valid : BOOLEAN]] /\ set[o] = new
        /\ set[p] = bounded.strings[p] /\ emptied.string = <<>>
        /\ emptied \in [string : Seq(Bytes), valid : BOOLEAN]
  <2>1. new \in [string : Seq(Bytes), valid : BOOLEAN] BY DEF BoundedIInv, StringOf, ValidString
  <2>2. bounded.strings \in [Strings -> [string : Seq(Bytes), valid : BOOLEAN]] BY DEF BoundedIInv
  <2> HIDE DEF new
  <2>3. set \in [Strings -> [string : Seq(Bytes), valid : BOOLEAN]] /\ set[o] = new
        /\ set[p] = bounded.strings[p]
    BY <1>3, <2>1, <2>2
  <2> HIDE DEF set
  <2>4. set[p] \in [string : Seq(Bytes), valid : BOOLEAN] /\ <<>> \in Seq(Bytes) BY <2>3
  <2>5. emptied.string = <<>> /\ emptied \in [string : Seq(Bytes), valid : BOOLEAN] BY <2>4
  <2> QED BY <2>3, <2>5
<1>5. /\ bounded'.strings \in [Strings -> [string : Seq(Bytes), valid : BOOLEAN]]
      /\ bounded'.strings[o] = new /\ bounded'.strings[p].string = <<>>
      /\ \A q \in Strings : q \notin {o, p} => bounded'.strings[q] = bounded.strings[q]
  <2> HIDE DEF new, emptied
  <2> QED BY <1>2, <1>3, <1>4
<1>6. InitialisedIsWithinBounds'
  BY <1>3, <1>5
  DEF BoundedIInv, InitialisedIsWithinBounds, StringOf, ValidString, OutwithBounds, SameBounds
<1> QED BY <1>2, <1>5, <1>6 DEF BoundedIInv

LEMMA StringIsAssigned ==
  ASSUME BoundedIInv, NEW o \in Strings, NEW p \in Strings,
         DefaultString(o) \/ CopyString(o, p) \/ ConvertString(o, p) \/ SaveString(o) \/ LoadString(o)
  PROVE  BoundedIInv'
<1>1. StringOf(p) \in Seq(Bytes) /\ ValidString(p) \in BOOLEAN /\ StringOf(o) \in Seq(Bytes)
        /\ (ValidString(p) => ~OutwithBounds(p, StringOf(p)) \/ StringOf(p) = <<>>)
        /\ Len(StringOf(p)) \in Nat
  <2>1. StringOf(p) \in Seq(Bytes) /\ ValidString(p) \in BOOLEAN /\ StringOf(o) \in Seq(Bytes)
    BY DEF BoundedIInv, StringOf, ValidString
  <2>2. ValidString(p) => ~OutwithBounds(p, StringOf(p)) \/ StringOf(p) = <<>>
    BY DEF BoundedIInv, InitialisedIsWithinBounds
  <2> QED BY <2>1, <2>2
<1>2. CASE DefaultString(o)
  <2>1. <<>> \in Seq(Bytes) /\ (~OutwithBounds(o, <<>>)) \in BOOLEAN BY DEF OutwithBounds
  <2> QED BY <1>2, <2>1, StringIsSet DEF DefaultString
<1>3. CASE CopyString(o, p) \/ ConvertString(o, p)
  <2>1. bounded' = SetString(o, StringOf(p), ValidString(p)) BY <1>3 DEF CopyString, ConvertString
  <2>2. minOf[o] <= minOf[p] /\ maxOf[o] >= maxOf[p]
    BY <1>3, BoundsAssumption DEF CopyString, ConvertString, SameBounds
  <2>3. ~OutwithBounds(p, StringOf(p)) => ~OutwithBounds(o, StringOf(p))
    BY <1>1, <2>2, BoundsAssumption DEF OutwithBounds
  <2> QED BY <1>1, <2>1, <2>3, StringIsSet
<1>4. CASE SaveString(o)
  <2>1. CASE bounded' = [bounded EXCEPT !.archive = StringOf(o), !.error = "none"]
    BY <1>1, <2>1 DEF BoundedIInv, InitialisedIsWithinBounds, StringOf, ValidString, OutwithBounds
  <2> QED BY <1>4, <2>1, NothingIsSet DEF SaveString
<1>5. CASE LoadString(o)
  <2>1. bounded.archive \in Seq(Bytes) BY DEF BoundedIInv
  <2> QED BY <1>5, <2>1, NothingIsSet, StringIsSet DEF LoadString
<1> QED BY <1>2, <1>3, <1>4, <1>5

LEMMA StringIsMade ==
  ASSUME BoundedIInv, NEW o \in Strings, NEW string \in StringContents, FromString(o, string)
  PROVE  BoundedIInv'
<1>1. PICK n \in 0 .. MaxString : string \in [1 .. n -> Bytes]
  BY DEF StringContents, BoundedSeq, SeqOf, Bytes
<1>2. n \in Nat OBVIOUS
<1>3. string \in Seq(Bytes) BY <1>1, <1>2
<1> QED BY <1>3, NothingIsSet, StringIsSet DEF FromString

LEMMA StringIsChanged ==
  ASSUME BoundedIInv, NEW o \in Strings, NEW pos \in Nat, pos >= 1, NEW value \in Bytes,
         SetAt(o, pos, value)
  PROVE  BoundedIInv'
<1>1. CASE ValidString(o)
  <2> DEFINE s == StringOf(o)
             t == [s EXCEPT ![pos] = value]
  <2>1. s \in Seq(Bytes) BY DEF BoundedIInv, StringOf
  <2>2. ~OutwithBounds(o, s) \/ s = <<>> BY <1>1 DEF BoundedIInv, InitialisedIsWithinBounds
  <2>3. pos <= Len(s) /\ bounded' = SetString(o, t, TRUE) BY <1>1 DEF SetAt
  <2> HIDE DEF s
  <2>4. t \in Seq(Bytes) /\ Len(t) = Len(s) /\ s # <<>> BY <2>1, <2>3
  <2>5. ~OutwithBounds(o, t) BY <2>2, <2>4 DEF OutwithBounds
  <2> QED BY <2>3, <2>4, <2>5, StringIsSet
<1> QED BY <1>1, NothingIsSet DEF SetAt

LEMMA StringIsXored ==
  ASSUME BoundedIInv, NEW o \in Strings, NEW p \in Strings, NEW q \in Strings, XorStrings(o, p, q)
  PROVE  BoundedIInv'
<1>1. CASE ValidString(p) /\ ValidString(q)
  <2> DEFINE n == minOf[p]
             x == XorOf(p, q)
  <2>1. /\ StringOf(p) \in Seq(Bytes) /\ StringOf(q) \in Seq(Bytes)
    BY DEF BoundedIInv, StringOf
  <2>2. /\ SameBounds(o, p) /\ SameBounds(p, q) /\ minOf[o] = maxOf[o]
        /\ ~OutwithBounds(p, StringOf(p)) /\ ~OutwithBounds(q, StringOf(q))
        /\ bounded' = SetString(o, x, TRUE)
    BY <1>1 DEF XorStrings
  <2>3. n \in Nat /\ minOf[o] = n /\ maxOf[o] = n /\ minOf[q] = n
    BY <2>2, BoundsAssumption DEF SameBounds
  <2>4. \A i \in 1 .. n : StringOf(p)[i] \in Bytes /\ StringOf(q)[i] \in Bytes
    BY <2>1, <2>2, <2>3, BoundsAssumption DEF OutwithBounds
  <2>5. \A a, b \in Bytes : (a + b) % 2 \in Bytes BY DEF Bytes
  <2>6. x \in Seq(Bytes) /\ Len(x) = n BY <2>3, <2>4, <2>5 DEF XorOf
  <2>7. ~OutwithBounds(o, x) BY <2>3, <2>6 DEF OutwithBounds
  <2> QED BY <2>2, <2>6, <2>7, StringIsSet
<1> QED BY <1>1, NothingIsSet DEF XorStrings

\* Of any types, bounds and objects, a string that says it is initialised is within its bounds,
\* or was emptied by a move, and the comparisons order them all, so that each may be a key
\* (bounded_string.h, operator<, operator==).
THEOREM AnyStringIsAKey == BoundedSpec => []StringsAreKeys
<1>1. BoundedIInv /\ [BoundedNext]_bounded => BoundedIInv'
  <2> SUFFICES ASSUME BoundedIInv, [BoundedNext]_bounded PROVE BoundedIInv' OBVIOUS
  <2>1. CASE bounded' = bounded
    BY <2>1 DEF BoundedIInv, InitialisedIsWithinBounds, StringOf, ValidString, OutwithBounds
  <2>2. ASSUME NEW o \in Strings, NEW value \in {0, 1}, NEW pos \in 1 .. MaxString,
               SetAt(o, pos, value)
        PROVE  BoundedIInv'
    BY <2>2, StringIsChanged DEF Bytes
  <2> QED BY <2>1, <2>2, StringIsMoved, StringIsAssigned, StringIsMade, StringIsXored
          DEF BoundedNext
<1>2. BoundedIInv => StringsAreKeys BY AllAreOrdered DEF BoundedIInv, StringsAreKeys
<1> QED BY <1>1, <1>2, StringsBegin, PTL DEF BoundedSpec

-----------------------------------------------------------------------------
(* Proofs about Crypto, for any owners, levels and sharings: ReadBack.     *)
(* Every value is what some call made of texts and keys, and damaged or    *)
(* not: KnownTerm.                                                         *)

Item(kind, of, for, damaged) == [kind |-> kind, of |-> of, for |-> for, damaged |-> damaged]

IsText(x) == x \in {Text("a text"), Text("another")}
IsError(x) == x.kind = "error"
IsPrivate(x) == \E owner \in KeyOwners : x = Private(owner)
IsPublic(x) == \E owner \in KeyOwners : x = Public(owner)

\* Those made of one of these texts.
IsEncrypted(x, texts) ==
  \E text \in texts, owner \in KeyOwners, a, b, c \in BOOLEAN :
    x = Item("encrypted",
             <<Item("sealed", <<text, LocalKey(text)>>, <<>>, a),
               Item("wrapped", <<LocalKey(text)>>, <<owner>>, b)>>, <<>>, c)
IsSignature(x, texts) ==
  \E text \in texts, owner \in KeyOwners, d \in BOOLEAN : x = Item("signature", <<text>>, <<owner>>, d)
IsCompressed(x, texts) ==
  \E text \in texts, d \in BOOLEAN : x = Item("compressed", <<text>>, <<>>, d)
IsPart(x, texts) == \E text \in texts, d \in BOOLEAN : x = Item("part", <<text>>, x.for, d)
IsEncoded(x) ==
  \E owner \in KeyOwners, d \in BOOLEAN : \E key \in {Private(owner), Public(owner)} :
    x = Item("encoded", <<key>>, <<>>, d)

KnownTerm(x, texts) ==
  \/ IsText(x) \/ x = Uninitialised \/ x = InvalidKey \/ IsError(x) \/ IsPrivate(x) \/ IsPublic(x)
  \/ IsEncrypted(x, texts) \/ IsSignature(x, texts) \/ IsCompressed(x, texts) \/ IsPart(x, texts)
  \/ IsEncoded(x)

TextsMade == Kind({"text"})
CryptoIInv == \A x \in made : KnownTerm(x, TextsMade)

LEMMA KindOfAText == Text("a text").kind = "text" /\ Text("another").kind = "text"
BY DEF Text, Term

\* What the kind of a value says about it.
LEMMA KindTells ==
  ASSUME NEW texts, NEW x, KnownTerm(x, texts)
  PROVE  /\ x.kind = "text" => IsText(x)
         /\ x.kind = "none" => x = Uninitialised
         /\ x.kind = "invalid" => x = InvalidKey
         /\ x.kind = "private" => IsPrivate(x)
         /\ x.kind = "public" => IsPublic(x)
         /\ x.kind = "encrypted" => IsEncrypted(x, texts)
         /\ x.kind = "signature" => IsSignature(x, texts)
         /\ x.kind = "compressed" => IsCompressed(x, texts)
         /\ x.kind = "part" => IsPart(x, texts)
         /\ x.kind = "encoded" => IsEncoded(x)
<1>1. IsText(x) => x.kind = "text" BY KindOfAText DEF IsText
<1>2. x = Uninitialised => x.kind = "none" BY DEF Uninitialised, Term
<1>3. x = InvalidKey => x.kind = "invalid" BY DEF InvalidKey, Term
<1>4. IsError(x) => x.kind = "error" BY DEF IsError
<1>5. IsPrivate(x) => x.kind = "private" BY DEF IsPrivate, Private, Term
<1>6. IsPublic(x) => x.kind = "public" BY DEF IsPublic, Public, Term
<1>7. IsEncrypted(x, texts) => x.kind = "encrypted" BY DEF IsEncrypted, Item
<1>8. IsSignature(x, texts) => x.kind = "signature" BY DEF IsSignature, Item
<1>9. IsCompressed(x, texts) => x.kind = "compressed" BY DEF IsCompressed, Item
<1>10. IsPart(x, texts) => x.kind = "part" BY DEF IsPart, Item
<1>11. IsEncoded(x) => x.kind = "encoded" BY DEF IsEncoded, Item
<1> QED
  BY <1>1, <1>2, <1>3, <1>4, <1>5, <1>6, <1>7, <1>8, <1>9, <1>10, <1>11 DEF KnownTerm

\* An error is a value, whatever its code.
LEMMA ErrorsAreKnown ==
  ASSUME NEW texts, NEW code
  PROVE  KnownTerm(Error(code), texts) /\ Failed(Error(code))
<1>1. Error(code).kind = "error" BY DEF Error, Term
<1> QED BY <1>1 DEF KnownTerm, Failed, IsError

\* More texts make more values.
LEMMA StillKnown ==
  ASSUME NEW S, NEW T, S \subseteq T, NEW x, KnownTerm(x, S)
  PROVE  KnownTerm(x, T)
<1>1. IsEncrypted(x, S) => IsEncrypted(x, T) BY DEF IsEncrypted, Item
<1>2. IsSignature(x, S) => IsSignature(x, T) BY DEF IsSignature, Item
<1>3. IsCompressed(x, S) => IsCompressed(x, T) BY DEF IsCompressed, Item
<1>4. IsPart(x, S) => IsPart(x, T) BY DEF IsPart, Item
<1> QED BY <1>1, <1>2, <1>3, <1>4 DEF KnownTerm

\* Values are added, and each is made of texts that are there.
LEMMA ValuesAreAdded ==
  ASSUME CryptoIInv, NEW more, made' = made \cup more, \A x \in more : KnownTerm(x, TextsMade)
  PROVE  CryptoIInv'
<1>1. TextsMade \subseteq TextsMade' BY DEF TextsMade, Kind
<1>2. \A x \in made' : KnownTerm(x, TextsMade)
  <2>1. \A x \in made : KnownTerm(x, TextsMade) BY DEF CryptoIInv
  <2> QED BY <2>1
<1>3. \A x \in made' : KnownTerm(x, TextsMade') BY <1>1, <1>2, StillKnown
<1> QED BY <1>3 DEF CryptoIInv, KnownTerm

LEMMA OneValueIsMade ==
  ASSUME CryptoIInv, NEW x, Make(x), KnownTerm(x, TextsMade)
  PROVE  CryptoIInv'
<1> DEFINE more == {x}
<1>1. made' = made \cup more BY DEF Make
<1>2. \A y \in more : KnownTerm(y, TextsMade) OBVIOUS
<1> HIDE DEF more
<1> QED BY <1>1, <1>2, ValuesAreAdded

\* A value chosen by its kind.
LEMMA MadeOfAKind ==
  ASSUME CryptoIInv
  PROVE  /\ \A text \in TextsMade : IsText(text) /\ text \in made
         /\ \A text \in Texts : text = Uninitialised \/ text \in TextsMade
         /\ \A key \in PrivateKeys : key = InvalidKey \/ IsPrivate(key)
         /\ \A key \in PublicKeys : key = InvalidKey \/ IsPublic(key)
<1>1. \A x \in made : KnownTerm(x, TextsMade) BY DEF CryptoIInv
<1>2. \A text \in TextsMade : text \in made /\ text.kind = "text" BY DEF TextsMade, Kind
<1>3. \A text \in TextsMade : IsText(text) BY <1>1, <1>2, KindTells
<1>4. ASSUME NEW text \in Texts PROVE text = Uninitialised \/ text \in TextsMade
  <2>1. text \in made /\ text.kind \in {"text", "none"} BY DEF Texts, Kind
  <2>2. text.kind = "text" => text \in TextsMade BY <2>1 DEF TextsMade, Kind
  <2>3. text.kind = "none" => text = Uninitialised BY <1>1, <2>1, KindTells
  <2> QED BY <2>1, <2>2, <2>3
<1>5. ASSUME NEW key \in PrivateKeys PROVE key = InvalidKey \/ IsPrivate(key)
  <2>1. key \in made /\ key.kind \in {"private", "invalid"} BY DEF PrivateKeys, Kind
  <2> QED BY <1>1, <2>1, KindTells
<1>6. ASSUME NEW key \in PublicKeys PROVE key = InvalidKey \/ IsPublic(key)
  <2>1. key \in made /\ key.kind \in {"public", "invalid"} BY DEF PublicKeys, Kind
  <2> QED BY <1>1, <2>1, KindTells
<1> QED BY <1>2, <1>3, <1>4, <1>5, <1>6

-----------------------------------------------------------------------------
\* The calls, each of which makes a value.

LEMMA Known ==
  ASSUME NEW texts, NEW text \in texts, NEW owner \in KeyOwners
  PROVE  /\ \A key \in {Private(owner), Public(owner)} :
              KnownTerm(key, texts) /\ KnownTerm(Term("encoded", <<key>>, <<>>), texts)
         /\ KnownTerm(Term("signature", <<text>>, <<owner>>), texts)
         /\ KnownTerm(Term("compressed", <<text>>, <<>>), texts)
         /\ \A for : KnownTerm(Term("part", <<text>>, for), texts)
         /\ KnownTerm(Term("encrypted",
              <<Term("sealed", <<text, LocalKey(text)>>, <<>>),
                Term("wrapped", <<LocalKey(text)>>, <<owner>>)>>, <<>>), texts)
<1>1. \A key \in {Private(owner), Public(owner)} : IsPrivate(key) \/ IsPublic(key)
  BY DEF IsPrivate, IsPublic
<1>2. \A key \in {Private(owner), Public(owner)} : IsEncoded(Term("encoded", <<key>>, <<>>))
  BY DEF IsEncoded, Term, Item
<1>3. IsSignature(Term("signature", <<text>>, <<owner>>), texts) BY DEF IsSignature, Term, Item
<1>4. IsCompressed(Term("compressed", <<text>>, <<>>), texts) BY DEF IsCompressed, Term, Item
<1>5. \A for : IsPart(Term("part", <<text>>, for), texts) BY DEF IsPart, Term, Item
<1>6. IsEncrypted(Term("encrypted",
        <<Term("sealed", <<text, LocalKey(text)>>, <<>>),
          Term("wrapped", <<LocalKey(text)>>, <<owner>>)>>, <<>>), texts)
  BY DEF IsEncrypted, Term, Item
<1> QED BY <1>1, <1>2, <1>3, <1>4, <1>5, <1>6 DEF KnownTerm

\* Texts, and what is not initialised or valid.
LEMMA Marks ==
  /\ \A x : IsText(x) => Initialised(x) /\ x # InvalidKey /\ ~Failed(x)
  /\ \A x : IsPrivate(x) \/ IsPublic(x) => Validate(x) /\ Initialised(x)
  /\ \A of : Initialised(LocalKey(of))
  /\ ~Initialised(Uninitialised) /\ ~Validate(InvalidKey)
<1>1. \A x : IsText(x) => x.kind = "text" BY KindOfAText DEF IsText
<1>2. \A x : IsPrivate(x) => x.kind = "private" BY DEF IsPrivate, Private, Term
<1>3. \A x : IsPublic(x) => x.kind = "public" BY DEF IsPublic, Public, Term
<1>4. \A of : LocalKey(of).kind = "key" BY DEF LocalKey, Term
<1>5. Uninitialised.kind = "none" /\ InvalidKey.kind = "invalid"
  BY DEF Uninitialised, InvalidKey, Term
<1> QED BY <1>1, <1>2, <1>3, <1>4, <1>5 DEF Initialised, Validate, Failed

LEMMA EncryptMakes ==
  ASSUME CryptoIInv, NEW text \in TextsMade, NEW owner \in KeyOwners
  PROVE  Encrypt(text, Public(owner)) =
           Term("encrypted", <<Term("sealed", <<text, LocalKey(text)>>, <<>>),
                               Term("wrapped", <<LocalKey(text)>>, <<owner>>)>>, <<>>)
<1>1. Validate(Public(owner)) /\ Public(owner).for = <<owner>>
  <2>1. IsPublic(Public(owner)) BY DEF IsPublic
  <2>2. Public(owner).for = <<owner>> BY DEF Public, Term
  <2> QED BY <2>1, <2>2, Marks
<1>2. Initialised(text) /\ Initialised(LocalKey(text)) BY MadeOfAKind, Marks
<1>3. SymmEncrypt(text, LocalKey(text)) = Term("sealed", <<text, LocalKey(text)>>, <<>>)
  BY <1>2 DEF SymmEncrypt
<1>4. ~Failed(Term("sealed", <<text, LocalKey(text)>>, <<>>)) BY DEF Failed, Term
<1> QED BY <1>1, <1>3, <1>4 DEF Encrypt

LEMMA EncryptIsKnown ==
  ASSUME CryptoIInv, NEW text \in Texts, NEW public \in PublicKeys
  PROVE  KnownTerm(Encrypt(text, public), TextsMade)
<1>1. CASE public = InvalidKey BY <1>1, Marks, ErrorsAreKnown DEF Encrypt
<1>2. CASE IsPublic(public) /\ text = Uninitialised
  <2>1. SymmEncrypt(text, LocalKey(text)) = Error("uninitialised")
    BY <1>2, Marks DEF SymmEncrypt
  <2>2. Encrypt(text, public) = Error("uninitialised")
    BY <1>2, <2>1, Marks, ErrorsAreKnown DEF Encrypt
  <2> QED BY <2>2, ErrorsAreKnown
<1>3. CASE IsPublic(public) /\ text \in TextsMade
  <2>1. PICK owner \in KeyOwners : public = Public(owner) BY <1>3 DEF IsPublic
  <2> QED BY <1>3, <2>1, EncryptMakes, Known
<1> QED BY <1>1, <1>2, <1>3, MadeOfAKind

\* What decrypting makes of what was encrypted, whole or damaged in any of its parts.
LEMMA DecryptReads ==
  ASSUME NEW text, IsText(text), NEW owner \in KeyOwners, NEW other \in KeyOwners,
         NEW a \in BOOLEAN, NEW b \in BOOLEAN, NEW c \in BOOLEAN,
         NEW x, x = Item("encrypted",
                         <<Item("sealed", <<text, LocalKey(text)>>, <<>>, a),
                           Item("wrapped", <<LocalKey(text)>>, <<owner>>, b)>>, <<>>, c)
  PROVE  IF owner = other /\ ~a /\ ~b /\ ~c THEN Decrypt(x, Private(other)) = text
         ELSE \E code : Decrypt(x, Private(other)) = Error(code)
<1> DEFINE sealed == Item("sealed", <<text, LocalKey(text)>>, <<>>, a)
           wrapped == Item("wrapped", <<LocalKey(text)>>, <<owner>>, b)
<1>1. Validate(Private(other)) /\ Private(other).for = <<other>>
  <2>1. IsPrivate(Private(other)) BY DEF IsPrivate
  <2>2. Private(other).for = <<other>> BY DEF Private, Term
  <2> QED BY <2>1, <2>2, Marks
<1>2. x.kind = "encrypted" /\ x.damaged = c /\ x.of[1] = sealed /\ x.of[2] = wrapped BY DEF Item
<1>3. wrapped.kind = "wrapped" /\ wrapped.damaged = b /\ wrapped.for = <<owner>>
        /\ wrapped.of[1] = LocalKey(text)
  BY DEF Item
<1>4. sealed.kind = "sealed" /\ sealed.damaged = a /\ sealed.of[1] = text
        /\ sealed.of[2] = LocalKey(text)
  BY DEF Item
<1> HIDE DEF sealed, wrapped
<1>5. Initialised(sealed) /\ Initialised(LocalKey(text))
  <2>1. Uninitialised.kind = "none" BY DEF Uninitialised, Term
  <2> QED BY <1>4, <2>1, Marks DEF Initialised
<1>6. SymmDecrypt(sealed, LocalKey(text)) =
        IF a THEN Error("symmetric_decryption_error") ELSE text
  BY <1>4, <1>5 DEF SymmDecrypt, Intact
<1>7. CASE c
  <2>1. Decrypt(x, Private(other)) = Error("decryption_error")
    BY <1>1, <1>2, <1>7 DEF Decrypt, Intact
  <2> QED BY <1>7, <2>1
<1>8. CASE ~c
  <2>1. Decrypt(x, Private(other)) =
          IF ~b /\ <<owner>> = <<other>> THEN SymmDecrypt(sealed, LocalKey(text))
          ELSE Error("decryption_error")
    BY <1>1, <1>2, <1>3, <1>8 DEF Decrypt, Intact
  <2>2. <<owner>> = <<other>> <=> owner = other OBVIOUS
  <2> QED BY <1>6, <1>8, <2>1, <2>2
<1> QED BY <1>7, <1>8
LEMMA EncryptedIsMade ==
  ASSUME CryptoIInv, NEW x \in Kind({"encrypted"})
  PROVE  \E text \in TextsMade, owner \in KeyOwners, a, b, c \in BOOLEAN :
           x = Item("encrypted",
                    <<Item("sealed", <<text, LocalKey(text)>>, <<>>, a),
                      Item("wrapped", <<LocalKey(text)>>, <<owner>>, b)>>, <<>>, c)
<1>1. x \in made /\ x.kind = "encrypted" BY DEF Kind
<1>2. KnownTerm(x, TextsMade) BY <1>1 DEF CryptoIInv
<1>3. IsEncrypted(x, TextsMade) BY <1>1, <1>2, KindTells
<1> QED BY <1>3 DEF IsEncrypted

LEMMA DecryptIsKnown ==
  ASSUME CryptoIInv, NEW x \in Kind({"encrypted"}), NEW private \in PrivateKeys
  PROVE  KnownTerm(Decrypt(x, private), TextsMade)
<1>1. CASE private = InvalidKey
  <2>1. Decrypt(x, private) = Error("invalid_private_key") BY <1>1, Marks DEF Decrypt
  <2> QED BY <2>1, ErrorsAreKnown
<1>2. CASE IsPrivate(private)
  <2>1. PICK other \in KeyOwners : private = Private(other) BY <1>2 DEF IsPrivate
  <2>2. PICK text \in TextsMade, owner \in KeyOwners, a, b, c \in BOOLEAN :
          x = Item("encrypted",
                   <<Item("sealed", <<text, LocalKey(text)>>, <<>>, a),
                     Item("wrapped", <<LocalKey(text)>>, <<owner>>, b)>>, <<>>, c)
    BY EncryptedIsMade
  <2>3. IsText(text) BY MadeOfAKind
  <2>4. Decrypt(x, private) = text \/ \E code : Decrypt(x, private) = Error(code)
    BY <2>1, <2>2, <2>3, DecryptReads
  <2>5. KnownTerm(text, TextsMade) BY <2>3 DEF KnownTerm
  <2> QED BY <2>4, <2>5, ErrorsAreKnown
<1> QED BY <1>1, <1>2, MadeOfAKind

LEMMA SignIsKnown ==
  ASSUME CryptoIInv, NEW text \in Texts, NEW private \in PrivateKeys
  PROVE  /\ KnownTerm(Sign(text, private), TextsMade)
         /\ KnownTerm(SignContent(text, private), TextsMade)
<1>1. \A code : KnownTerm(Error(code), TextsMade) BY ErrorsAreKnown
<1>2. CASE private = InvalidKey \/ text = Uninitialised
  <2>1. \E code : Sign(text, private) = Error(code) BY <1>2, Marks DEF Sign
  <2>2. \E code : SignContent(text, private) = Error(code) BY <1>2, Marks DEF SignContent
  <2> QED BY <1>1, <2>1, <2>2
<1>3. CASE IsPrivate(private) /\ text \in TextsMade
  <2>1. PICK owner \in KeyOwners : private = Private(owner) BY <1>3 DEF IsPrivate
  <2>2. private.for = <<owner>> BY <2>1 DEF Private, Term
  <2>3. IsText(text) BY <1>3, MadeOfAKind
  <2>4. Validate(private) /\ Initialised(text) /\ text # Uninitialised BY <1>3, <2>3, Marks
  <2>5. /\ Sign(text, private) = Term("signature", <<text>>, <<owner>>)
        /\ SignContent(text, private) = Term("signature", <<text>>, <<owner>>)
    BY <2>2, <2>4 DEF Sign, SignContent
  <2>6. KnownTerm(Term("signature", <<text>>, <<owner>>), TextsMade) BY <1>3, Known
  <2> QED BY <2>5, <2>6
<1> QED BY <1>2, <1>3, MadeOfAKind

LEMMA CompressIsKnown ==
  ASSUME CryptoIInv
  PROVE  /\ \A text \in Texts, level \in Levels : KnownTerm(Compress(text, level), TextsMade)
         /\ \A x \in Kind({"compressed", "none"}) : \A y \in Uncompress(x) : KnownTerm(y, TextsMade)
<1>1. \A code : KnownTerm(Error(code), TextsMade) BY ErrorsAreKnown
<1>2. ASSUME NEW text \in Texts, NEW level \in Levels PROVE KnownTerm(Compress(text, level), TextsMade)
  <2>1. \/ \E code : Compress(text, level) = Error(code)
        \/ Initialised(text) /\ Compress(text, level) = Term("compressed", <<text>>, <<>>)
    BY DEF Compress
  <2>2. ASSUME text \in TextsMade
        PROVE  KnownTerm(Term("compressed", <<text>>, <<>>), TextsMade)
    <3>1. IsCompressed(Term("compressed", <<text>>, <<>>), TextsMade)
      BY <2>2 DEF IsCompressed, Term, Item
    <3> QED BY <3>1 DEF KnownTerm
  <2> QED BY <1>1, <2>1, <2>2, MadeOfAKind, Marks
<1>3. ASSUME NEW x \in Kind({"compressed", "none"}), NEW y \in Uncompress(x)
      PROVE  KnownTerm(y, TextsMade)
  <2>1. x \in made /\ x.kind \in {"compressed", "none"} BY DEF Kind
  <2>2. KnownTerm(x, TextsMade) BY <2>1 DEF CryptoIInv
  <2>3. CASE x.kind = "none"
    <3>1. y = Error("uninitialised") BY <2>2, <2>3, KindTells, Marks DEF Uncompress
    <3> QED BY <1>1, <3>1
  <2>4. CASE x.kind = "compressed"
    <3>1. IsCompressed(x, TextsMade) BY <2>2, <2>4, KindTells
    <3>2. PICK text \in TextsMade : x.of[1] = text BY <3>1 DEF IsCompressed, Item
    <3>3. y = text \/ \E code : y = Error(code) BY <3>2 DEF Uncompress
    <3>4. KnownTerm(text, TextsMade) BY MadeOfAKind DEF KnownTerm
    <3> QED BY <1>1, <3>3, <3>4
  <2> QED BY <2>1, <2>3, <2>4
<1> QED BY <1>2, <1>3

LEMMA PartsAreKnown ==
  ASSUME CryptoIInv
  PROVE  /\ \A text \in TextsMade : \A threshold, shares :
              \A x \in Parts(text, threshold, shares) : KnownTerm(x, TextsMade)
         /\ \A parts \in (SUBSET Kind({"part"})) \ {{}} : KnownTerm(Recover(parts), TextsMade)
<1>1. \A code : KnownTerm(Error(code), TextsMade) BY ErrorsAreKnown
<1>2. ASSUME NEW text \in TextsMade, NEW threshold, NEW shares, NEW x \in Parts(text, threshold, shares)
      PROVE  KnownTerm(x, TextsMade)
  <2>1. x = Error("invalid_argument") \/ \E for : x = Term("part", <<text>>, for) BY DEF Parts
  <2>2. ASSUME NEW for PROVE KnownTerm(Term("part", <<text>>, for), TextsMade)
    <3>1. IsPart(Term("part", <<text>>, for), TextsMade) BY DEF IsPart, Term, Item
    <3> QED BY <3>1 DEF KnownTerm
  <2> QED BY <1>1, <2>1, <2>2
<1>3. ASSUME NEW parts \in (SUBSET Kind({"part"})) \ {{}} PROVE KnownTerm(Recover(parts), TextsMade)
  <2>1. PICK p \in parts : p = CHOOSE q \in parts : TRUE OBVIOUS
  <2>2. p \in made /\ p.kind = "part" BY DEF Kind
  <2>3. KnownTerm(p, TextsMade) BY <2>2 DEF CryptoIInv
  <2>4. IsPart(p, TextsMade) BY <2>2, <2>3, KindTells
  <2>5. p.of[1] \in TextsMade BY <2>4 DEF IsPart, Item
  <2>6. IsText(p.of[1]) BY <2>5, MadeOfAKind
  <2>7. Recover(parts) = p.of[1] \/ Recover(parts) = Text("another") BY <2>1 DEF Recover
  <2>8. IsText(Recover(parts)) BY <2>6, <2>7 DEF IsText
  <2> QED BY <2>8 DEF KnownTerm
<1> QED BY <1>2, <1>3

LEMMA KeysAreKnown ==
  ASSUME CryptoIInv
  PROVE  /\ \A key \in Kind({"private", "public", "invalid"}) : KnownTerm(EncodeKey(key), TextsMade)
         /\ \A x \in Kind({"encoded", "none"}) : \A key \in DecodeKey(x) : KnownTerm(key, TextsMade)
         /\ \A owner \in KeyOwners : KnownTerm(Private(owner), TextsMade) /\ KnownTerm(Public(owner), TextsMade)
<1>1. \A code : KnownTerm(Error(code), TextsMade) BY ErrorsAreKnown
<1>2. ASSUME NEW key \in Kind({"private", "public", "invalid"})
      PROVE  KnownTerm(EncodeKey(key), TextsMade)
  <2>1. key \in made /\ key.kind \in {"private", "public", "invalid"} BY DEF Kind
  <2>2. KnownTerm(key, TextsMade) BY <2>1 DEF CryptoIInv
  <2>3. key = InvalidKey \/ IsPrivate(key) \/ IsPublic(key) BY <2>1, <2>2, KindTells
  <2>4. CASE key = InvalidKey
    <3>1. EncodeKey(key) = Error("invalid_key") BY <2>4, Marks DEF EncodeKey
    <3> QED BY <1>1, <3>1
  <2>5. CASE IsPrivate(key) \/ IsPublic(key)
    <3>1. PICK owner \in KeyOwners : key \in {Private(owner), Public(owner)}
      BY <2>5 DEF IsPrivate, IsPublic
    <3>2. EncodeKey(key) = Term("encoded", <<key>>, <<>>) BY <2>5, Marks DEF EncodeKey
    <3>3. IsEncoded(Term("encoded", <<key>>, <<>>)) BY <3>1 DEF IsEncoded, Term, Item
    <3> QED BY <3>2, <3>3 DEF KnownTerm
  <2> QED BY <2>3, <2>4, <2>5
<1>3. ASSUME NEW x \in Kind({"encoded", "none"}), NEW key \in DecodeKey(x)
      PROVE  KnownTerm(key, TextsMade)
  <2>1. x \in made /\ x.kind \in {"encoded", "none"} BY DEF Kind
  <2>2. KnownTerm(x, TextsMade) BY <2>1 DEF CryptoIInv
  <2>3. \/ \E code : key = Error(code)
        \/ key = InvalidKey
        \/ Initialised(x) /\ key = x.of[1]
    BY DEF DecodeKey
  <2>4. ASSUME Initialised(x), key = x.of[1] PROVE IsPrivate(key) \/ IsPublic(key)
    <3>1. x.kind = "encoded" BY <2>1, <2>2, <2>4, KindTells, Marks
    <3>2. IsEncoded(x) BY <2>2, <3>1, KindTells
    <3>3. \E owner \in KeyOwners : x.of[1] \in {Private(owner), Public(owner)} BY <3>2 DEF IsEncoded, Item
    <3> QED BY <2>4, <3>3 DEF IsPrivate, IsPublic
  <2> QED BY <1>1, <2>3, <2>4 DEF KnownTerm
<1>4. \A owner \in KeyOwners : KnownTerm(Private(owner), TextsMade) /\ KnownTerm(Public(owner), TextsMade)
  BY DEF KnownTerm, IsPrivate, IsPublic
<1> QED BY <1>2, <1>3, <1>4
LEMMA ReplacedInItem ==
  ASSUME NEW kind, NEW of, NEW for, NEW d, NEW e
  PROVE  [Item(kind, of, for, d) EXCEPT !.damaged = e] = Item(kind, of, for, e)
BY DEF Item

LEMMA DamagedItem ==
  \A kind, of, for : \A d \in BOOLEAN :
    [Item(kind, of, for, d) EXCEPT !.damaged = TRUE] = Item(kind, of, for, TRUE)
<1> TAKE kind, of, for
<1> TAKE d \in BOOLEAN
<1>1. \A e : [Item(kind, of, for, d) EXCEPT !.damaged = e] = Item(kind, of, for, e)
  BY ReplacedInItem
<1> QED BY <1>1, Zenon

LEMMA DamagedIsKnown ==
  ASSUME CryptoIInv, NEW x \in Kind({"encrypted", "signature", "compressed", "encoded", "part"})
  PROVE  KnownTerm([x EXCEPT !.damaged = TRUE], TextsMade)
<1> DEFINE y == [x EXCEPT !.damaged = TRUE]
<1>1. x \in made /\ x.kind \in {"encrypted", "signature", "compressed", "encoded", "part"} BY DEF Kind
<1>2. KnownTerm(x, TextsMade) BY <1>1 DEF CryptoIInv
<1>3. CASE x.kind = "encrypted"
  <2>1. PICK text \in TextsMade, owner \in KeyOwners, a, b, c \in BOOLEAN :
          x = Item("encrypted",
                   <<Item("sealed", <<text, LocalKey(text)>>, <<>>, a),
                     Item("wrapped", <<LocalKey(text)>>, <<owner>>, b)>>, <<>>, c)
    BY <1>1, <1>3, EncryptedIsMade DEF Kind
  <2>2. y = Item("encrypted",
                 <<Item("sealed", <<text, LocalKey(text)>>, <<>>, a),
                   Item("wrapped", <<LocalKey(text)>>, <<owner>>, b)>>, <<>>, TRUE)
    BY <2>1, DamagedItem
  <2> HIDE DEF y
  <2>3. IsEncrypted(y, TextsMade) BY <2>2 DEF IsEncrypted
  <2> QED BY <2>3 DEF KnownTerm, y
<1>4. CASE x.kind = "signature"
  <2>1. PICK text \in TextsMade, owner \in KeyOwners, d \in BOOLEAN :
          x = Item("signature", <<text>>, <<owner>>, d)
    BY <1>2, <1>4, KindTells DEF IsSignature
  <2>2. y = Item("signature", <<text>>, <<owner>>, TRUE) BY <2>1, DamagedItem
  <2> HIDE DEF y
  <2>3. IsSignature(y, TextsMade) BY <2>2 DEF IsSignature
  <2> QED BY <2>3 DEF KnownTerm, y
<1>5. CASE x.kind = "compressed"
  <2>1. PICK text \in TextsMade, d \in BOOLEAN : x = Item("compressed", <<text>>, <<>>, d)
    BY <1>2, <1>5, KindTells DEF IsCompressed
  <2>2. y = Item("compressed", <<text>>, <<>>, TRUE) BY <2>1, DamagedItem
  <2> HIDE DEF y
  <2>3. IsCompressed(y, TextsMade) BY <2>2 DEF IsCompressed
  <2> QED BY <2>3 DEF KnownTerm, y
<1>6. CASE x.kind = "encoded"
  <2>1. PICK owner \in KeyOwners, d \in BOOLEAN : \E key \in {Private(owner), Public(owner)} :
          x = Item("encoded", <<key>>, <<>>, d)
    BY <1>2, <1>6, KindTells DEF IsEncoded
  <2>k. PICK key \in {Private(owner), Public(owner)} : x = Item("encoded", <<key>>, <<>>, d) BY <2>1
  <2>2. y = Item("encoded", <<key>>, <<>>, TRUE) BY <2>k, DamagedItem
  <2> HIDE DEF y
  <2>3. IsEncoded(y) BY <2>2 DEF IsEncoded
  <2> QED BY <2>3 DEF KnownTerm, y
<1>7. CASE x.kind = "part"
  <2> DEFINE share == x.for
  <2>1. PICK text \in TextsMade, d \in BOOLEAN : x = Item("part", <<text>>, share, d)
    BY <1>2, <1>7, KindTells DEF IsPart
  <2> HIDE DEF share
  <2>2. y = Item("part", <<text>>, share, TRUE) BY <2>1, DamagedItem
  <2> HIDE DEF y
  <2>3. y.for = share BY <2>2 DEF Item
  <2>4. IsPart(y, TextsMade) BY <2>2, <2>3 DEF IsPart
  <2> QED BY <2>4 DEF KnownTerm, y
<1> QED BY <1>1, <1>3, <1>4, <1>5, <1>6, <1>7

LEMMA DamagedInsideIsKnown ==
  ASSUME CryptoIInv, NEW x \in Kind({"encrypted"}), NEW i \in 1 .. 2
  PROVE  KnownTerm([x EXCEPT !.of[i].damaged = TRUE], TextsMade)
<1>1. PICK text \in TextsMade, owner \in KeyOwners, a, b, c \in BOOLEAN :
        x = Item("encrypted",
                 <<Item("sealed", <<text, LocalKey(text)>>, <<>>, a),
                   Item("wrapped", <<LocalKey(text)>>, <<owner>>, b)>>, <<>>, c)
  BY EncryptedIsMade
<1> DEFINE y == [x EXCEPT !.of[i].damaged = TRUE]
           sealed == Item("sealed", <<text, LocalKey(text)>>, <<>>, a)
           wrapped == Item("wrapped", <<LocalKey(text)>>, <<owner>>, b)
           new == [<<sealed, wrapped>>[i] EXCEPT !.damaged = TRUE]
<1> HIDE DEF sealed, wrapped, new
<1>2. y = Item("encrypted", [<<sealed, wrapped>> EXCEPT ![i] = new], <<>>, c)
  <2>1. x = Item("encrypted", <<sealed, wrapped>>, <<>>, c) BY <1>1 DEF sealed, wrapped
  <2>2. [Item("encrypted", <<sealed, wrapped>>, <<>>, c) EXCEPT !.of[i].damaged = TRUE] =
          Item("encrypted", [<<sealed, wrapped>> EXCEPT ![i] =
                               [<<sealed, wrapped>>[i] EXCEPT !.damaged = TRUE]], <<>>, c)
    <3> DEFINE p == <<sealed, wrapped>>
    <3> HIDE DEF p
    <3>1. ASSUME NEW e
          PROVE  [Item("encrypted", p, <<>>, c) EXCEPT !.of[i].damaged = e] =
                   Item("encrypted", [p EXCEPT ![i] = [p[i] EXCEPT !.damaged = e]], <<>>, c)
      BY DEF Item
    <3>2. [Item("encrypted", p, <<>>, c) EXCEPT !.of[i].damaged = TRUE] =
            Item("encrypted", [p EXCEPT ![i] = [p[i] EXCEPT !.damaged = TRUE]], <<>>, c)
      BY <3>1, Zenon
    <3> QED BY <3>2 DEF p
  <2> QED BY <2>1, <2>2, Zenon DEF new
<1>3. CASE i = 1
  <2>1. [<<sealed, wrapped>> EXCEPT ![i] = new] = <<new, wrapped>> BY <1>3
  <2>2. new = Item("sealed", <<text, LocalKey(text)>>, <<>>, TRUE)
    BY <1>3, DamagedItem DEF sealed, new
  <2>3. y = Item("encrypted", <<Item("sealed", <<text, LocalKey(text)>>, <<>>, TRUE), wrapped>>, <<>>, c)
    BY <1>2, <2>1, <2>2
  <2> HIDE DEF y
  <2>4. IsEncrypted(y, TextsMade) BY <2>3 DEF IsEncrypted, wrapped
  <2> QED BY <2>4 DEF KnownTerm, y
<1>4. CASE i = 2
  <2>1. [<<sealed, wrapped>> EXCEPT ![i] = new] = <<sealed, new>> BY <1>4
  <2>2. new = Item("wrapped", <<LocalKey(text)>>, <<owner>>, TRUE)
    BY <1>4, DamagedItem DEF wrapped, new
  <2>3. y = Item("encrypted", <<sealed, Item("wrapped", <<LocalKey(text)>>, <<owner>>, TRUE)>>, <<>>, c)
    BY <1>2, <2>1, <2>2
  <2> HIDE DEF y
  <2>4. IsEncrypted(y, TextsMade) BY <2>3 DEF IsEncrypted, sealed
  <2> QED BY <2>4 DEF KnownTerm, y
<1> QED BY <1>3, <1>4

LEMMA CryptoBegins == CryptoInit => CryptoIInv
BY DEF CryptoInit, CryptoIInv, KnownTerm, IsText

LEMMA CryptoStep == ASSUME CryptoIInv, CryptoNext PROVE CryptoIInv'
<1>1. ASSUME NEW owner \in KeyOwners, GenerateKeyPair(owner) PROVE CryptoIInv'
  <2>1. CASE made' = made \cup {Private(owner), Public(owner)}
    BY <2>1, KeysAreKnown, ValuesAreAdded
  <2>2. CASE made' = made \cup {Error("keys_generation_error")}
    BY <2>2, ErrorsAreKnown, OneValueIsMade DEF Make
  <2> QED BY <1>1, <2>1, <2>2 DEF GenerateKeyPair
<1>2. ASSUME NEW text \in Texts, NEW public \in PublicKeys, Make(Encrypt(text, public)) PROVE CryptoIInv'
  BY <1>2, EncryptIsKnown, OneValueIsMade
<1>3. ASSUME NEW x \in Kind({"encrypted"}), NEW private \in PrivateKeys, Make(Decrypt(x, private))
      PROVE  CryptoIInv'
  BY <1>3, DecryptIsKnown, OneValueIsMade
<1>4. ASSUME NEW text \in Texts, NEW private \in PrivateKeys,
             Make(Sign(text, private)) \/ Make(SignContent(text, private))
      PROVE  CryptoIInv'
  BY <1>4, SignIsKnown, OneValueIsMade
<1>5. ASSUME NEW text \in Texts, NEW level \in Levels, Make(Compress(text, level)) PROVE CryptoIInv'
  BY <1>5, CompressIsKnown, OneValueIsMade
<1>6. ASSUME NEW x \in Kind({"compressed", "none"}), NEW y \in Uncompress(x), Make(y)
      PROVE  CryptoIInv'
  BY <1>6, CompressIsKnown, OneValueIsMade
<1>7. ASSUME NEW text \in Kind({"text"}), NEW sharing \in Sharings,
             made' = made \cup Parts(text, sharing[1], sharing[2])
      PROVE  CryptoIInv'
  <2>1. text \in TextsMade BY DEF TextsMade
  <2>2. \A x \in Parts(text, sharing[1], sharing[2]) : KnownTerm(x, TextsMade) BY <2>1, PartsAreKnown
  <2> QED BY <1>7, <2>2, ValuesAreAdded
<1>8. ASSUME NEW parts \in (SUBSET Kind({"part"})) \ {{}}, Make(Recover(parts)) PROVE CryptoIInv'
  BY <1>8, PartsAreKnown, OneValueIsMade
<1>9. ASSUME NEW key \in Kind({"private", "public", "invalid"}), Make(EncodeKey(key)) PROVE CryptoIInv'
  BY <1>9, KeysAreKnown, OneValueIsMade
<1>10. ASSUME NEW x \in Kind({"encoded", "none"}), NEW key \in DecodeKey(x), Make(key) PROVE CryptoIInv'
  BY <1>10, KeysAreKnown, OneValueIsMade
<1>11. ASSUME NEW x \in Kind({"encrypted", "signature", "compressed", "encoded", "part"}),
              Make([x EXCEPT !.damaged = TRUE])
       PROVE  CryptoIInv'
  BY <1>11, DamagedIsKnown, OneValueIsMade
<1>12. ASSUME NEW x \in Kind({"encrypted"}), NEW i \in 1 .. 2, Make([x EXCEPT !.of[i].damaged = TRUE])
       PROVE  CryptoIInv'
  BY <1>12, DamagedInsideIsKnown, OneValueIsMade
<1> QED
  BY <1>1, <1>2, <1>3, <1>4, <1>5, <1>6, <1>7, <1>8, <1>9, <1>10, <1>11, <1>12, Zenon DEF CryptoNext
\* The parts of ReadBack, for one value.

LEMMA EncryptedIsRead ==
  ASSUME CryptoIInv, NEW x \in made, x.kind = "encrypted", NEW private \in PrivateKeys
  PROVE  LET text == Decrypt(x, private) IN
           IF private.for = x.of[2].for /\ ~x.damaged /\ ~x.of[1].damaged /\ ~x.of[2].damaged
           THEN text \in Kind({"text"}) /\ Encrypt(text, Public(private.for[1])) = x ELSE Failed(text)
<1>1. PICK text \in TextsMade, owner \in KeyOwners, a, b, c \in BOOLEAN :
        x = Item("encrypted",
                 <<Item("sealed", <<text, LocalKey(text)>>, <<>>, a),
                   Item("wrapped", <<LocalKey(text)>>, <<owner>>, b)>>, <<>>, c)
  <2>1. x \in Kind({"encrypted"}) BY DEF Kind
  <2> QED BY <2>1, EncryptedIsMade
<1>2. /\ x.of[2].for = <<owner>> /\ x.damaged = c /\ x.of[1].damaged = a /\ x.of[2].damaged = b
  BY <1>1 DEF Item
<1>3. CASE private = InvalidKey
  <2>1. private.for = <<>> BY <1>3 DEF InvalidKey, Term
  <2>2. <<owner>> # <<>> OBVIOUS
  <2>3. Decrypt(x, private) = Error("invalid_private_key") BY <1>3, Marks DEF Decrypt
  <2> QED BY <1>2, <2>1, <2>2, <2>3, ErrorsAreKnown
<1>4. CASE IsPrivate(private)
  <2>1. PICK other \in KeyOwners : private = Private(other) BY <1>4 DEF IsPrivate
  <2>2. private.for = <<other>> BY <2>1 DEF Private, Term
  <2>3. IsText(text) BY MadeOfAKind
  <2>4. IF owner = other /\ ~a /\ ~b /\ ~c THEN Decrypt(x, private) = text
        ELSE \E code : Decrypt(x, private) = Error(code)
    BY <1>1, <2>1, <2>3, DecryptReads
  <2>5. <<owner>> = <<other>> <=> owner = other OBVIOUS
  <2>6. CASE owner = other /\ ~a /\ ~b /\ ~c
    <3>1. private.for[1] = owner BY <2>2, <2>6
    <3>2. x = Term("encrypted", <<Term("sealed", <<text, LocalKey(text)>>, <<>>),
                                  Term("wrapped", <<LocalKey(text)>>, <<owner>>)>>, <<>>)
      BY <1>1, <2>6 DEF Item, Term
    <3>3. Encrypt(text, Public(owner)) = x BY <3>2, EncryptMakes
    <3>4. Decrypt(x, private) = text /\ text \in Kind({"text"}) BY <2>4, <2>6 DEF TextsMade
    <3>5. private.for = x.of[2].for /\ ~x.damaged /\ ~x.of[1].damaged /\ ~x.of[2].damaged
      BY <1>2, <2>2, <2>5, <2>6
    <3> QED BY <3>1, <3>3, <3>4, <3>5
  <2>7. CASE ~(owner = other /\ ~a /\ ~b /\ ~c)
    <3>1. Failed(Decrypt(x, private)) BY <2>4, <2>7, ErrorsAreKnown
    <3>2. ~(private.for = x.of[2].for /\ ~x.damaged /\ ~x.of[1].damaged /\ ~x.of[2].damaged)
      BY <1>2, <2>2, <2>5, <2>7
    <3> QED BY <3>1, <3>2
  <2> QED BY <2>6, <2>7
<1> QED BY <1>3, <1>4, MadeOfAKind

LEMMA SignatureIsChecked ==
  ASSUME CryptoIInv, NEW x \in made, x.kind = "signature",
         NEW text \in Kind({"text"}), NEW public \in Kind({"public"})
  PROVE  LET its == ~x.damaged /\ x.of = <<text>> /\ x.for = public.for
         IN /\ CheckSignature(text, x, public) = its
            /\ CheckFileSignature(text, x, public) = its
<1>1. public \in made /\ public.kind = "public" /\ text \in TextsMade BY DEF Kind, TextsMade
<1>2. KnownTerm(public, TextsMade) BY <1>1 DEF CryptoIInv
<1>3. PICK owner \in KeyOwners : public = Public(owner) BY <1>1, <1>2, KindTells DEF IsPublic
<1>4. public.for = <<owner>> BY <1>3 DEF Public, Term
<1>5. Validate(public) BY <1>3, Marks DEF IsPublic
<1>6. PICK signed \in TextsMade, signer \in KeyOwners, d \in BOOLEAN :
        x = Item("signature", <<signed>>, <<signer>>, d)
  <2>1. KnownTerm(x, TextsMade) BY DEF CryptoIInv
  <2> QED BY <2>1, KindTells DEF IsSignature
<1>7. Initialised(text) /\ text # Uninitialised BY <1>1, MadeOfAKind, Marks
<1>8. Initialised(x)
  <2>1. Uninitialised.kind = "none" BY DEF Uninitialised, Term
  <2> QED BY <2>1 DEF Initialised
<1> DEFINE t == Term("signature", <<text>>, public.for)
           its == ~x.damaged /\ x.of = <<text>> /\ x.for = public.for
<1>9. (x = t) = its
  <2>1. x.damaged = d /\ x.of = <<signed>> /\ x.for = <<signer>> BY <1>6 DEF Item
  <2>2. t = Item("signature", <<text>>, public.for, FALSE) BY DEF Term, Item
  <2>3. t.damaged = FALSE /\ t.of = <<text>> /\ t.for = public.for BY <2>2 DEF Item
  <2>4. ASSUME its PROVE x = t
    <3>1. d = FALSE /\ <<signed>> = <<text>> /\ <<signer>> = public.for BY <2>1, <2>4
    <3> QED BY <1>6, <2>2, <3>1, Zenon
  <2> HIDE DEF t
  <2>5. x = t => its BY <2>3
  <2> QED BY <2>4, <2>5
<1> HIDE DEF t
<1>10. CheckSignature(text, x, public) = (x = t)
  BY <1>5, <1>7, <1>8, Zenon DEF CheckSignature, t
<1>11. CheckFileSignature(text, x, public) = (x = t)
  BY <1>5, <1>7, <1>8, Zenon DEF CheckFileSignature, t
<1> QED BY <1>9, <1>10, <1>11, Zenon

LEMMA EncodedIsRead ==
  ASSUME CryptoIInv, NEW x \in made
  PROVE  /\ x.kind = "encoded" => x.damaged \/ DecodeKey(x) = {x.of[1]}
         /\ x.kind = "compressed" =>
              \A result \in Uncompress(x) : result = x.of[1] \/ (x.damaged /\ Failed(result))
<1>1. KnownTerm(x, TextsMade) BY DEF CryptoIInv
<1>2. x.kind \in {"encoded", "compressed"} => Initialised(x)
  <2>1. Uninitialised.kind = "none" BY DEF Uninitialised, Term
  <2> QED BY <2>1 DEF Initialised
<1>3. ASSUME x.kind = "encoded", ~x.damaged PROVE DecodeKey(x) = {x.of[1]}
  BY <1>2, <1>3 DEF DecodeKey, Intact
<1>4. ASSUME x.kind = "compressed", NEW result \in Uncompress(x)
      PROVE  result = x.of[1] \/ (x.damaged /\ Failed(result))
  <2>1. PICK text \in TextsMade, d \in BOOLEAN : x = Item("compressed", <<text>>, <<>>, d)
    BY <1>1, <1>4, KindTells DEF IsCompressed
  <2>2. x.damaged = d /\ x.of[1] = text BY <2>1 DEF Item
  <2>3. CASE d
    <3>1. result = x.of[1] \/ result = Error("uncompression_error")
      BY <1>2, <1>4 DEF Uncompress, Intact
    <3> QED BY <2>2, <2>3, <3>1, ErrorsAreKnown
  <2>4. CASE ~d BY <1>2, <1>4, <2>2, <2>4 DEF Uncompress, Intact
  <2> QED BY <2>3, <2>4
<1> QED BY <1>3, <1>4

\* As many parts of a text as the threshold asks for.
LEMMA PartsAreRead ==
  ASSUME NEW text, NEW threshold, NEW shares, ArgsAllowed(threshold, shares),
         NEW parts \in (SUBSET Parts(text, threshold, shares)) \ {{}},
         Cardinality(parts) >= threshold
  PROVE  Recover(parts) = text
<1> DEFINE its(p) == p.kind = "part" /\ p.damaged = FALSE /\ p.of = <<text>>
                       /\ p.for[1] = threshold /\ p.for[2] = shares
<1>1. \A p \in parts : \E i \in 0..(shares - 1) : p = Term("part", <<text>>, <<threshold, shares, i>>)
  BY DEF Parts
<1>2. \A i : its(Term("part", <<text>>, <<threshold, shares, i>>)) BY DEF Term
<1>3. \A p \in parts : its(p) BY <1>1, <1>2, Zenon
<1>4. Recover(parts) = (CHOOSE p \in parts : TRUE).of[1]
  <2>1. \A p, q \in parts :
          /\ Intact(p, "part") /\ Cardinality(parts) >= p.for[1]
          /\ p.of = q.of /\ p.for[1] = q.for[1] /\ p.for[2] = q.for[2]
    BY <1>3 DEF Intact
  <2> QED BY <2>1, Zenon DEF Recover
<1>5. (CHOOSE p \in parts : TRUE) \in parts OBVIOUS
<1> QED BY <1>3, <1>4, <1>5

LEMMA AllIsRead == CryptoIInv => ReadBack
<1> SUFFICES ASSUME CryptoIInv PROVE ReadBack OBVIOUS
<1>1. ASSUME NEW x \in made
      PROVE  /\ x.kind = "encrypted" =>
                  \A private \in PrivateKeys : LET text == Decrypt(x, private) IN
                    IF private.for = x.of[2].for
                         /\ ~x.damaged /\ ~x.of[1].damaged /\ ~x.of[2].damaged
                    THEN text \in Kind({"text"}) /\ Encrypt(text, Public(private.for[1])) = x
                    ELSE Failed(text)
             /\ x.kind = "signature" =>
                  \A text \in Kind({"text"}), public \in Kind({"public"}) :
                    LET its == ~x.damaged /\ x.of = <<text>> /\ x.for = public.for
                    IN /\ CheckSignature(text, x, public) = its
                       /\ CheckFileSignature(text, x, public) = its
             /\ x.kind = "encoded" => x.damaged \/ DecodeKey(x) = {x.of[1]}
             /\ x.kind = "compressed" =>
                  \A result \in Uncompress(x) : result = x.of[1] \/ (x.damaged /\ Failed(result))
  BY <1>1, EncryptedIsRead, SignatureIsChecked, EncodedIsRead, Zenon
<1>2. ASSUME NEW text \in Kind({"text"}), NEW sharing \in Sharings,
             ArgsAllowed(sharing[1], sharing[2]),
             NEW parts \in (SUBSET Parts(text, sharing[1], sharing[2])) \ {{}},
             Cardinality(parts) >= sharing[1]
      PROVE  Recover(parts) = text
  BY <1>2, PartsAreRead
<1> QED BY <1>1, <1>2, Zenon DEF ReadBack

\* An encrypted text comes back with its own private key and undamaged, and Decrypt fails
\* otherwise; a signature is accepted for its own text and key and undamaged, and only then;
\* an undamaged encoded key decodes to that key; a compressed text comes back, or damage is
\* reported; and as many parts as the threshold asks for give their text back: whatever has
\* been made, kept and damaged before, for any owners, levels and sharings (rsa.cc, crypto.cc).
THEOREM WhatIsMadeIsReadBack == CryptoSpec => []ReadBack
<1>1. CryptoIInv /\ [CryptoNext]_made => CryptoIInv'
  <2> SUFFICES ASSUME CryptoIInv, [CryptoNext]_made PROVE CryptoIInv' OBVIOUS
  <2>1. CASE made' = made BY <2>1 DEF CryptoIInv, TextsMade, Kind
  <2> QED BY <2>1, CryptoStep
<1> QED BY <1>1, CryptoBegins, AllIsRead, PTL DEF CryptoSpec

=============================================================================

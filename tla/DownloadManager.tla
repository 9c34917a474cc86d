-------------------------- MODULE DownloadManager ---------------------------
(***************************************************************************)
(* maidsafe::client_manager::DownloadManager (tools/download_manager.h,    *)
(* .cc): Update asks a server for its version, its manifest and the files  *)
(* in it, one download after another, while the server may publish a newer *)
(* version and any download may fail.                                      *)
(***************************************************************************)
EXTENDS Integers, FiniteSets

CONSTANTS
  Manifests,  \* the files of each version, by version from 1: the last is the newest
  MaxUpdates  \* bound: calls of Update

Versions == DOMAIN Manifests
ASSUME VersionsAssumption == Versions \subseteq Nat
Invalid == 0 \* "0.0.000"

\* published: the server's version; local, remote: the two latest versions; path: the
\* version in latest_remote_path_; directories: those made under local_path_; files, cut:
\* the files in them, and those of which the system has cut the write; stage: what Update
\* does next; todo, updated: the files still to get and the list for the caller; result:
\* the last return code.
VARIABLE manager

DownloadInit ==
  \E initialised \in BOOLEAN, version \in Versions :
    manager = [initialised |-> initialised, published |-> version, local |-> 1,
               remote |-> Invalid, path |-> Invalid, directories |-> {}, files |-> {}, cut |-> {},
               stage |-> "idle", todo |-> {}, updated |-> {}, result |-> "none", calls |-> 0]

Publish ==
  /\ manager.published + 1 \in Versions
  /\ manager' = [manager EXCEPT !.published = @ + 1]

Returns(m, code) == [m EXCEPT !.stage = "idle", !.result = code]

Update ==
  /\ manager.stage = "idle" /\ manager.calls < MaxUpdates
  /\ LET m == [manager EXCEPT !.calls = @ + 1, !.updated = {}]
     IN manager' = IF manager.initialised THEN [m EXCEPT !.stage = "version"]
                   ELSE Returns(m, "kUninitialised")

\* GetAndVerifyFile yields nothing when the file or its signature cannot be had, or do
\* not belong together; DownloadFile and PrepareDownload fail for any reason.
GetVersion ==
  /\ manager.stage = "version"
  /\ LET v == manager.published
         m == [manager EXCEPT !.remote = v, !.path = v]
     IN \/ manager' = Returns([manager EXCEPT !.remote = Invalid], "kInvalidVersion")
        \/ v <= manager.local /\ manager' = Returns(m, "kNoVersionChange")
        \/ v > manager.local /\ manager' = [m EXCEPT !.stage = "directory"]

\* create_directories fails for one that is there, as after an attempt that failed.
CanBeCreated(v) == v \notin manager.directories
CreateDirectory ==
  /\ manager.stage = "directory"
  /\ \/ /\ CanBeCreated(manager.remote)
        /\ manager' = [manager EXCEPT !.directories = @ \cup {manager.remote}, !.stage = "manifest"]
     \/ manager' = Returns(manager, "kLocalFailure")

GetManifest ==
  /\ manager.stage = "manifest"
  /\ \/ /\ Manifests[manager.path] # {}
        /\ manager' = [manager EXCEPT !.todo = Manifests[manager.path], !.stage = "files"]
     \/ manager' = Returns(manager, "kManifestFailure")

\* A file that cannot be had, or not be opened, is passed over; one of which the write is
\* cut counts as written (WriteFile).
GetFile(f) ==
  /\ manager.stage = "files" /\ f \in manager.todo
  /\ LET got == [manager EXCEPT !.todo = @ \ {f}, !.files = @ \cup {<<manager.remote, f>>},
                                !.updated = @ \cup {<<manager.remote, f>>}]
     IN \/ manager' = [manager EXCEPT !.todo = @ \ {f}]
        \/ manager' = got
        \/ manager' = [got EXCEPT !.cut = @ \cup {<<manager.remote, f>>}]

\* Faulty: the server is asked again which version it was.
AskedAgain(m) == m.published
Fetched(m) == m.remote
FinishUpdate ==
  /\ manager.stage = "files" /\ manager.todo = {}
  /\ manager' = IF manager.updated = {} THEN Returns(manager, "kDownloadFailure")
                ELSE Returns([manager EXCEPT !.local = Fetched(manager)], "kSuccess")

DownloadNext ==
  \/ Publish
  \/ Update
  \/ GetVersion
  \/ CreateDirectory
  \/ GetManifest
  \/ \E f \in UNION {Manifests[v] : v \in Versions} : GetFile(f)
  \/ FinishUpdate

DownloadSpec == DownloadInit /\ [][DownloadNext]_manager

-----------------------------------------------------------------------------
\* No update mixes versions, whatever the server publishes meanwhile (Update, GetNewFiles):
\* every file is one of the manifest of its version, and the local version only goes up, to
\* one of which the caller is told all the files there are. Files that were passed over
\* are missing, and those of which the write was cut are not whole.
OneVersion ==
  LET there == {file \in manager'.files : file[1] = manager'.local}
  IN /\ \A file \in manager'.files : file[2] \in Manifests[file[1]]
     /\ manager'.local # manager.local =>
          manager'.local > manager.local /\ there # {} /\ there = manager'.updated
UpdatesAreOneVersion == [][OneVersion]_manager
=============================================================================

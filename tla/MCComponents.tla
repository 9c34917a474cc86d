---------------------------- MODULE MCComponents -----------------------------
(***************************************************************************)
(* Small instances of the components that do not share anything: a         *)
(* behaviour is one of any of them.  Those that are proved about have      *)
(* their own variables, which the others leave alone; state is the         *)
(* variable of each of the others.                                         *)
(***************************************************************************)
EXTENDS Sequences, TLC, TcpListener, SqliteTransaction, DownloadManager, LockedPages, DataTypes,
        LruCache, SigningTool, BootstrapFileTool, Menu, Errors, BoundedString,
        Crypto

CONSTANT Components \* those to check

VARIABLES component, state

MCManifests == <<{"a"}, {"a", "b"}, {"b", "c"}>>

Proved ==
  {"listener", "sqlite", "download", "pages", "data", "cache", "signing", "bootstrap", "menu",
   "errors", "strings", "crypto"}
All == Proved \cup
  {"logging", "profiler", "addresses", "input", "hash", "encoding"}

MCCacheLimits == {[capacity |-> 2, ttl |-> 0], [capacity |-> 3, ttl |-> 1]}
MCListEntries == {<<"1.1.1.1", 5483>>, <<"1.1.1.1", 71019>>, <<"x", 5483>>}
MCMinOf == [o \in {"key", "hash", "text"} |-> IF o = "text" THEN 1 ELSE 2]
MCMaxOf == [o \in {"key", "hash", "text"} |-> 2]
MCFirstWord == [line \in {"x", "y", "z", "x y"} |-> IF line = "x y" THEN "x" ELSE line]
\* The earlier session: nobody, or these three, the parts being alike.
MCSplitBefore ==
  {<<>>, [n \in {"x", "y", "x y"} |->
            [sharing |-> 0, part |-> IF n = "x" THEN 0 ELSE IF n = "y" THEN 1 ELSE 2, key |-> 0, whole |-> TRUE]]}
MCSharings == {<<2, 3>>, <<1, 3>>, <<3, 2>>}
MCInts == {0, 5, -5, -99999, 100005, -100005, -1000001, -1100000, -199999, -1099999}

Log == INSTANCE Logging WITH logging <- state,
  Threads <- {"t", "u"}, Worker <- "worker", Projects <- {"common", "routing"},
  Paths <- {<<"common", "src", "maidsafe", "common">>,
            <<"routing", "include", "maidsafe", "routing">>, <<"boost">>},
  CommandLines <- {<<>>, ("*" :> "verbose") @@ ("common" :> "always"),
                   ("log_no_async" :> TRUE) @@ ("*" :> "info"), "help" :> TRUE},
  ConfigFiles <- {<<>>, ("*" :> "foo") @@ ("log_folder" :> "unusable") @@ ("log_no_console" :> TRUE),
                  ("common" :> "info"), ("log_colour_mode" :> 3)},
  Sessions <- {"", "s"}, MaxMessages <- 2

Profile == INSTANCE Profiler WITH profiler <- state,
  Locations <- {"f", "g"}, Durations <- {1, 2}, MaxEntries <- 3

Bits == 3
Ids == [1..Bits -> {0, 1}]
Space == INSTANCE AddressSpace WITH space <- state,
  Targets <- <<<<0, 0, 0>>, <<0, 1, 0>>, <<1, 0, 0>>, <<1, 1, 0>>>>,
  Hash <- [id \in Ids |-> <<1 - id[1], id[2], id[3]>>],
  Algorithms <- {"kClosest", "kHighest", "kLowest", "kMean", "kNone"},
  InitialGood <- 3, GroupSize <- 2, MajoritySize <- 1, BadGroupCount <- 2,
  RandomAttempts <- 1, Leeway <- 1, GoodPerBad <- 0, RankSteps <- {1}, MaxRank <- 1,
  Proximity <- 2, MaxNodes <- 6

Input == INSTANCE SecureInputString WITH input <- state,
  Texts <- {<<"1">>, <<"a">>, <<"a", "1">>, <<>>}, Sizes <- {1, 2, 3}, Good <- {"1"},
  MaxPosition <- 3

Sip == INSTANCE SipHash WITH hash <- state, Lengths <- {0, 1, 5, 8, 11, 100}, MaxBytes <- 270

Code == INSTANCE Encoding WITH encoded <- state, Bytes <- {0, 17, 255}, MaxLength <- 4

Is(name) == component = name

InitOf ==
  \/ component \in Proved /\ state = <<>>
  \/ Is("logging") /\ Log!Init
  \/ Is("profiler") /\ Profile!Init
  \/ Is("addresses") /\ Space!Init
  \/ Is("input") /\ Input!Init
  \/ Is("hash") /\ Sip!Init
  \/ Is("encoding") /\ Code!Init
NextOf ==
  \/ Is("logging") /\ Log!Next
  \/ Is("profiler") /\ Profile!Next
  \/ Is("addresses") /\ Space!Next
  \/ Is("input") /\ Input!Next
  \/ Is("hash") /\ Sip!Next
  \/ Is("encoding") /\ Code!Next

\* Where a component that may begin in several states does not run, one will do.
ProvedInit ==
  /\ ListenerInit /\ SqliteInit /\ DownloadInit /\ PagesInit /\ DataInit /\ CacheInit
  /\ SigningInit /\ BootstrapInit /\ MenuInit /\ ErrorInit /\ BoundedInit
  /\ CryptoInit
  /\ Is("download") \/ (manager.initialised /\ manager.published = 1)
  /\ Is("cache") \/ cache.capacity = 2
  /\ tool.keyfiles \in IF Is("signing") THEN MCSplitBefore ELSE {<<>>}
  /\ Is("bootstrap") \/ list.files = [path \in ListPaths |-> NoFile]
  /\ Is("errors") \/ error.made = System

Services == <<service, db, manager, pages, data, cache>>
ToolsAndValues == <<tool, list, menu, error, bounded, made>>
ServicesNext ==
  \/ Is("listener") /\ ListenerNext /\ UNCHANGED <<db, manager, pages, data, cache>>
  \/ Is("sqlite") /\ SqliteNext /\ UNCHANGED <<service, manager, pages, data, cache>>
  \/ Is("download") /\ DownloadNext /\ UNCHANGED <<service, db, pages, data, cache>>
  \/ Is("pages") /\ PagesNext /\ UNCHANGED <<service, db, manager, data, cache>>
  \/ Is("data") /\ DataNext /\ UNCHANGED <<service, db, manager, pages, cache>>
  \/ Is("cache") /\ CacheNext /\ UNCHANGED <<service, db, manager, pages, data>>
ToolsAndValuesNext ==
  \/ Is("signing") /\ SigningNext /\ UNCHANGED <<list, menu, error, bounded, made>>
  \/ Is("bootstrap") /\ BootstrapNext /\ UNCHANGED <<tool, menu, error, bounded, made>>
  \/ Is("menu") /\ MenuNext /\ UNCHANGED <<tool, list, error, bounded, made>>
  \/ Is("errors") /\ ErrorNext /\ UNCHANGED <<tool, list, menu, bounded, made>>
  \/ Is("strings") /\ BoundedNext /\ UNCHANGED <<tool, list, menu, error, made>>
  \/ Is("crypto") /\ CryptoNext /\ UNCHANGED <<tool, list, menu, error, bounded>>

Init == component \in Components /\ InitOf /\ ProvedInit
Next ==
  /\ UNCHANGED component
  /\ \/ NextOf /\ UNCHANGED Services /\ UNCHANGED ToolsAndValues
     \/ ServicesNext /\ UNCHANGED state /\ UNCHANGED ToolsAndValues
     \/ ToolsAndValuesNext /\ UNCHANGED state /\ UNCHANGED Services
Spec == Init /\ [][Next]_<<component, state, Services, ToolsAndValues>>

\* What ListenerFairSpec says, of the behaviours that are the listener's.
FairSpec ==
  /\ Spec
  /\ \A t \in PoolThreads :
       /\ WF_service(Is("listener") /\ ThreadRuns(t))
       /\ WF_service(Is("listener") /\ ListenerHandles(t))
       /\ WF_service(Is("listener") /\ RunReturns(t, service.accepting))
  /\ \A c \in Callers : WF_service(Is("listener") /\ StopGoesOn(c))
  /\ WF_service(Is("listener") /\ AcceptCompletes)
  /\ WF_service(Is("listener") /\ AcceptCancelled)

-----------------------------------------------------------------------------
(* The properties of the components whose variable is state, each stated   *)
(* in full in the component's module.                                      *)

\* log.cc, visualiser_log.cc: files, console and server have the messages in one order,
\* once, and none is lost when Logging is destroyed.
LogsAgree == Is("logging") => Log!LogsAgree

\* profiler.cc: what was timed before the end is in what is printed, once.
ProfilesArePrinted == Is("profiler") => Profile!EverythingIsPrinted

\* address_space_tool.cc: the bad groups that end the search are separate close groups, the
\* majority of each bad.
BadGroupsAreSeparate == Is("addresses") => Space!BadGroupsAreSeparate

\* secure_string.h: a call edits the text in the place asked for, and finalising keeps it.
EditsKeepTheText == [][Is("input") => Input!EditsKeepTheText]_state

\* siphash.cc: how a message is cut into calls of Update makes no difference.
CutsDoNotMatter == Is("hash") => Sip!CutsDoNotMatter

\* encode.cc: what was encoded is what is decoded.
DecodedIsWhatWasEncoded == Is("encoding") => Code!DecodedIsWhatWasEncoded

-----------------------------------------------------------------------------
\* siphash.cc:32-34 says that the document describing SipHash was used to ensure accuracy.
FinalizeIsTheReference == Is("hash") => Sip!FinalizeIsTheReference
=============================================================================

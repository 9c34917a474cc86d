-------------------------- MODULE BootstrapFileTool --------------------------
(***************************************************************************)
(* The bootstrap file tool (tools/bootstrap_file_tool.cc): a console menu  *)
(* to load, edit, save and view a list of endpoints kept in globals.       *)
(***************************************************************************)
EXTENDS Integers, Sequences, SequencesExt

CONSTANTS
  ListPaths, ListEntries,     \* files; the <<address, port>> pairs there may be in one or be entered
  Unreadable,         \* addresses boost::asio's from_string does not read
  MaxEndpoints        \* bound: length of the list

\* The two marks for contents are not entries.
ASSUME ListAssumption ==
  \A e \in ListEntries : e = <<e[1], e[2]>> /\ e[1] \notin {"none", "rubbish"} /\ e[2] \in Nat

NoFile == <<<<"none", 0>>>>
Rubbish == <<<<"rubbish", 0>>>> \* does not parse

\* endpoints, outOfDate, running: g_bootstrap_endpoints, g_out_of_date, g_running; files:
\* what is on disk; cut: history, the list counts as saved by a write that the system cut.
VARIABLE list

Contents == {<<>>, NoFile, Rubbish} \cup {<<e>> : e \in ListEntries} \cup {<<e, f>> : e, f \in ListEntries}

BootstrapInit ==
  \E files \in [ListPaths -> Contents] :
    list = [endpoints |-> <<>>, outOfDate |-> FALSE, running |-> TRUE, files |-> files, cut |-> FALSE]

Read(entry) == <<entry[1], entry[2] % 65536>> \* the port is cast to uint16_t

\* What HandleInput makes of the contents: the list is emptied before the entries are
\* converted, the first that does not convert ends the call, and nobody is told.
Loaded(s, contents) ==
  LET bad == {i \in 1..Len(contents) : contents[i][1] \in Unreadable}
      first == CHOOSE i \in bad : \A j \in bad : i <= j
      Converted(n) == [i \in 1..n |-> Read(contents[i])]
  IN CASE contents \in {<<>>, NoFile, Rubbish} -> s
       [] contents \notin {<<>>, NoFile, Rubbish} /\ bad = {} ->
            [s EXCEPT !.endpoints = Converted(Len(contents)), !.outOfDate = FALSE, !.cut = FALSE]
       [] contents \notin {<<>>, NoFile, Rubbish} /\ bad # {} ->
            [s EXCEPT !.endpoints = Converted(first - 1), !.cut = FALSE]

\* Whatever is out of date goes only if the user confirms it (ConfirmChoice). The path is
\* asked for until there is a regular file; reading it may yet fail.
LoadBootstrapFile(path) ==
  /\ list.running /\ list.files[path] # NoFile
  /\ \E confirmed \in IF list.outOfDate THEN BOOLEAN ELSE {TRUE}, readable \in BOOLEAN :
       list' = IF confirmed /\ readable THEN Loaded(list, list.files[path]) ELSE list

\* WriteFile fails before it opens the file, or writes it whole, or truncates it, does not
\* ask whether what it then writes arrives, and returns true all the same.
SaveBootstrapFile(path) ==
  /\ list.running
  /\ \/ UNCHANGED list
     \/ list' = [list EXCEPT !.files[path] = list.endpoints, !.outOfDate = FALSE, !.cut = FALSE]
     \/ list' = [list EXCEPT !.files[path] = Rubbish, !.outOfDate = FALSE, !.cut = TRUE]

\* GetInput asks again until address and port are valid.
Valid(entry) == entry[1] \notin Unreadable /\ entry[2] >= 1025 /\ entry[2] <= 65535

\* Faulty: the list counts as saved.
EditedQuietly(endpoints) == [list EXCEPT !.endpoints = endpoints]
Edited(endpoints) == [list EXCEPT !.endpoints = endpoints, !.outOfDate = TRUE]

PrependEndpoint(entry) ==
  /\ list.running /\ Valid(entry) /\ Len(list.endpoints) < MaxEndpoints
  /\ list' = Edited(<<entry>> \o list.endpoints)

AppendEndpoint(entry) ==
  /\ list.running /\ Valid(entry) /\ Len(list.endpoints) < MaxEndpoints
  /\ list' = Edited(Append(list.endpoints, entry))

RemoveEndpoint(entry) ==
  /\ list.running /\ Valid(entry)
  /\ list' = IF Contains(list.endpoints, entry) THEN Edited(RemoveFirst(list.endpoints, entry)) ELSE list

ExitBootstrap ==
  /\ list.running
  /\ \E confirmed \in IF list.outOfDate THEN BOOLEAN ELSE {TRUE} : list' = [list EXCEPT !.running = ~confirmed]

BootstrapNext ==
  \/ \E path \in ListPaths : LoadBootstrapFile(path) \/ SaveBootstrapFile(path)
  \/ \E entry \in ListEntries : PrependEndpoint(entry) \/ AppendEndpoint(entry) \/ RemoveEndpoint(entry)
  \/ ExitBootstrap

BootstrapSpec == BootstrapInit /\ [][BootstrapNext]_list

-----------------------------------------------------------------------------
\* A list that the tool would give up without asking (g_out_of_date) is empty, or is what
\* can be read of a file, all of it or the entries before the first that does not convert;
\* unless the system cut the write that was to save it, which the tool does not notice.
GivenUpOnlyIfSaved ==
  ~list.outOfDate /\ ~list.cut /\ list.endpoints # <<>> =>
    \E path \in ListPaths :
      LET contents == list.files[path]
          n == Len(list.endpoints)
      IN /\ contents \notin {NoFile, Rubbish} /\ n <= Len(contents)
         /\ \A i \in 1..n : contents[i][1] \notin Unreadable /\ list.endpoints[i] = Read(contents[i])
         /\ n = Len(contents) \/ contents[n + 1][1] \in Unreadable
=============================================================================

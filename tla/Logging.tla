------------------------------ MODULE Logging -------------------------------
(***************************************************************************)
(* maidsafe::log (log.h, log.cc, visualiser_log.h, .cc): a message goes to *)
(* a number of places, one write after another, by the hand of the thread  *)
(* that logs it or of the thread of background_.  Of that Active what is   *)
(* used here is what module Active shows: functors run one at a time, in   *)
(* the order sent, those sent before its destructor all of them, those     *)
(* sent after none.                                                        *)
(***************************************************************************)
EXTENDS Integers, SequencesExt

CONSTANTS
  Threads, Worker, \* who logs, and the thread of background_
  Projects,        \* kProjects
  Paths,           \* the source files that log: sequences of directories
  CommandLines, ConfigFiles, \* partial functions from options to their values
  Sessions,        \* what InitialiseVlog is given; "" disables VLOG
  MaxMessages      \* bound: messages logged

\* filter: filter_; open: the log files that are; written: what is in each place;
\* queue: functors sent to background_, each the places its message still goes to;
\* hand: what a thread is writing; given: history of what is to be written.
VARIABLE logging

Idle == [message |-> <<>>, places |-> <<>>]
Stop == [message |-> <<>>, places |-> <<"stop">>]
Writers == Threads \cup {Worker}
Places == {"console", "print", "combined", "visualiser", "server"} \cup Projects
Off == [initialised |-> FALSE, session |-> "", next |-> ""]

Init ==
  logging = [once |-> FALSE, background |-> "none", async |-> FALSE, console |-> TRUE,
             folder |-> "working", filter |-> <<>>, open |-> {}, vlog |-> Off, count |-> 0,
             written |-> [p \in Places |-> <<>>], queue |-> <<>>,
             hand |-> [w \in Writers |-> Idle], given |-> <<>>]

-----------------------------------------------------------------------------
Level == [verbose |-> -1, info |-> 0, success |-> 1, warning |-> 2, error |-> 3, always |-> 4]
GetLogLevel(word) ==
  IF word \in DOMAIN Level THEN Level[word] ELSE -2147483647 - 1

\* An option on the command line stands, whatever the configuration file says.
ParseProgramOptions(command, file) == command @@ file
Value(options, name, default) == IF name \in DOMAIN options THEN options[name] ELSE default

\* The level of a project is its own option's, or else that of log_*.
HandleFilterOptions(options) ==
  [p \in {q \in Projects : {q, "*"} \cap DOMAIN options # {}} |->
     GetLogLevel(options[IF p \in DOMAIN options THEN p ELSE "*"])]

\* The log files that SetStreams opens in a folder that SetupLogFolder accepts.
SetStreams(folder, filter) ==
  IF folder # "usable" THEN {}
  ELSE DOMAIN filter \cup (IF Cardinality(DOMAIN filter) # 1 THEN {"combined"} ELSE {})

\* background_ is made before the values of the options are looked at, and stays
\* when one of them is refused (DoCasts).
Initialise(command, file) ==
  /\ ~logging.once
  /\ \A w \in Writers : logging.hand[w] = Idle
  /\ LET options == ParseProgramOptions(command, file)
         console == "log_no_console" \notin DOMAIN options
         filter == HandleFilterOptions(options)
         folder == Value(options, "log_folder", "usable")
         begun == [logging EXCEPT !.once = TRUE, !.console = console]
         running == [begun EXCEPT !.background = "running",
                                  !.async = "log_no_async" \notin DOMAIN options]
     IN logging' =
          IF "help" \in DOMAIN options THEN begun
          ELSE IF Value(options, "log_colour_mode", 1) \notin 0 .. 2 THEN running
          ELSE [running EXCEPT !.folder = folder, !.filter = filter,
                               !.open = @ \cup SetStreams(folder, filter)]

-----------------------------------------------------------------------------
\* The project of a source file is the directory two above the last maidsafe.
GetProject(path) ==
  LET found == {i \in DOMAIN path : path[i] = "maidsafe"}
      i == Max(found \cup {0})
  IN IF i > 2 /\ i < Len(path) THEN path[i - 2] ELSE "common"

ShouldLog(l, project, level) == project \in DOMAIN l.filter /\ l.filter[project] <= level

Message(l, w, text) == [by |-> w, nr |-> l.count, text |-> text]
\* Faulty: the thread does not wait its turn.
SentInFront(l, job) == [l EXCEPT !.queue = <<job>> \o @]
Send(l, job) == [l EXCEPT !.queue = Append(@, job)]

Heard(l, job) ==
  [job EXCEPT !.places = SelectSeq(@, LAMBDA p : p \in l.open \cup {"print", "server"})]
Logs(l, w, job) ==
  LET m == [l EXCEPT !.count = @ + 1, !.given = Append(@, Heard(l, job))]
  IN IF l.async THEN Send(m, job) ELSE [m EXCEPT !.hand[w] = job]

Log(l, w, project, level) ==
  IF ShouldLog(l, project, level)
  THEN Logs(l, w, [message |-> Message(l, w, project), places |-> <<"console", "combined", project>>])
  ELSE l

\* TLOG asks neither the filter nor the console option.
TestLog(l, w) ==
  LET projects == DOMAIN l.filter
      file == IF Cardinality(projects) = 1 THEN CHOOSE p \in projects : TRUE ELSE "combined"
  IN Logs(l, w, [message |-> Message(l, w, "test"), places |-> <<"print", file>>])

\* A VLOG message is sent to the server through background_ even when logging is not
\* asynchronous, and written to its file.  With no background_ the code would
\* follow a null pointer, before Initialise and after --help.
Vlog(l, w) ==
  LET m == Message(l, w, l.vlog.session)
      post == [message |-> m, places |-> <<"server">>]
      print == [message |-> m, places |-> <<"visualiser">>]
  IN Logs(Send(l, post), w, print)

CanLog(t) ==
  /\ logging.count < MaxMessages /\ logging.background \in {"none", "running"}
  /\ logging.hand[t] = Idle

ThreadLogs(t) ==
  /\ CanLog(t)
  /\ \/ \E path \in Paths, level \in {Level["info"], Level["error"]} :
          logging' = Log(logging, t, GetProject(path), level)
     \/ logging' = TestLog(logging, t)
     \/ /\ logging.vlog.initialised /\ logging.background = "running"
        /\ logging.vlog.session # ""
        /\ logging' = Vlog(logging, t)

-----------------------------------------------------------------------------
\* initialised is set before what it is about; others may ask in between.
InitialiseVlog(session) ==
  /\ logging.once /\ logging.background = "running" /\ ~logging.vlog.initialised
  /\ logging' = [logging EXCEPT !.vlog = [@ EXCEPT !.initialised = TRUE, !.next = session]]

VlogFilled(l) ==
  [l EXCEPT !.vlog.session = l.vlog.next,
            !.open = @ \cup (IF l.folder = "unusable" THEN {} ELSE {"visualiser"})]
FillVlog ==
  /\ logging.vlog.initialised /\ logging.vlog.session # logging.vlog.next
  /\ logging' = VlogFilled(logging)

-----------------------------------------------------------------------------
\* What a writer does with the first of the places; the server may be out of reach,
\* which is logged in turn.
Written(l, w) ==
  LET job == l.hand[w]
      p == Head(job.places)
      there == p \in {"print", "server"} \cup l.open \cup (IF l.console THEN {"console"} ELSE {})
      next == IF Len(job.places) = 1 THEN Idle ELSE [job EXCEPT !.places = Tail(@)]
  IN [l EXCEPT !.hand[w] = next,
               !.written[p] = IF there THEN Append(@, job.message) ELSE @]

Write(w) ==
  /\ logging.hand[w] # Idle
  /\ \/ logging' = Written(logging, w)
     \/ /\ Head(logging.hand[w].places) = "server"
        /\ logging.count < MaxMessages
        /\ logging' = Log([logging EXCEPT !.hand[w] = Idle], w, "common", Level["error"])

Take ==
  /\ logging.queue # <<>> /\ logging.hand[Worker] = Idle
  /\ logging.background \in {"running", "stopping"}
  /\ LET job == Head(logging.queue)
         rest == [logging EXCEPT !.queue = Tail(@)]
     IN logging' = IF job = Stop THEN [rest EXCEPT !.background = "ended"]
                   ELSE [rest EXCEPT !.hand[Worker] = job]

\* The object is destroyed at the end of main, background_ before all else.
Destroy ==
  /\ logging.background = "running"
  /\ \A t \in Threads : logging.hand[t] = Idle
  /\ logging' = [Send(logging, Stop) EXCEPT !.background = "stopping",
                                            !.given = Append(@, Stop)]

Next ==
  \/ \E command \in CommandLines, file \in ConfigFiles : Initialise(command, file)
  \/ \E t \in Threads : ThreadLogs(t)
  \/ \E session \in Sessions : InitialiseVlog(session)
  \/ FillVlog
  \/ \E w \in Writers : Write(w)
  \/ Take
  \/ Destroy

Spec == Init /\ [][Next]_logging

-----------------------------------------------------------------------------
Due(p, jobs) == SelectSeq(jobs, LAMBDA job : p \in ToSet(job.places))
Messages(jobs) == [i \in DOMAIN jobs |-> jobs[i].message]
By(w, messages) == SelectSeq(messages, LAMBDA m : m.by = w)
BeforeStop(jobs) ==
  IF Contains(jobs, Stop) THEN SubSeq(jobs, 1, SelectInSeq(jobs, LAMBDA j : j = Stop) - 1)
  ELSE jobs

\* Each file has its messages once and in the order in which each thread logged them,
\* when logging is asynchronous in the one order of all threads, so that what the
\* files have in common they have in common order; and when the object is gone they
\* have all that was logged before (Log, Send, WriteToLogfile, ~Logging).
FilesAgree ==
  \A p \in logging.open \cup {"print"} :
    LET due == Messages(Due(p, logging.given))
        have == logging.written[p]
    IN /\ \A w \in Writers : IsPrefix(By(w, have), By(w, due))
       /\ logging.async /\ p # "print" => IsPrefix(have, due)
       /\ logging.background = "ended" =>
            ToSet(Messages(Due(p, BeforeStop(logging.given)))) \subseteq ToSet(have)

\* A VLOG message that reaches the server is, or will be, in the file as well, under the
\* session it was made in, and both have the messages in one order: what the file has
\* too many the server could not be given (SendToServer, WriteToFile, InitialiseVlog).
ServerBehindFile ==
  logging.folder # "unusable" =>
    LET filed == Messages(Due("visualiser", logging.given))
        posted == logging.written["server"]
    IN /\ posted = SelectSeq(filed, LAMBDA m : m \in ToSet(posted))
       /\ \A i \in DOMAIN filed : filed[i].text = logging.vlog.next

\* Every place tells the same story.
LogsAgree == FilesAgree /\ ServerBehindFile
=============================================================================

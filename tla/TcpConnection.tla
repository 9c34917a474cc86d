---------------------------- MODULE TcpConnection ----------------------------
(***************************************************************************)
(* maidsafe::tcp::Connection (src/maidsafe/common/tcp/connection.cc), one  *)
(* at each end of a TCP connection: messages preceded by their size, a     *)
(* queue of those to send, a chain of reads, and a close that is reported  *)
(* once.  Either end may instead be a plain socket of another program.     *)
(*                                                                         *)
(* Handlers posted to an asio strand run one at a time and in order; a     *)
(* strand may be shared by several connections.  The completion handler of *)
(* ReadSize is not wrapped in the strand: it runs on any thread of the     *)
(* io_service, beside whatever the strand is running.                      *)
(*                                                                         *)
(* A handler is one step, except that DoClose first closes the socket and  *)
(* then calls on_connection_closed_, inside std::call_once: the other      *)
(* thread may run in between, and waits if it has to close as well.        *)
(***************************************************************************)
EXTENDS Integers, SequencesExt

CONSTANTS
  Ends,           \* the two ends of the connection
  Peer,           \* Peer[e]: the other end
  StrandOf,       \* StrandOf[e]: the strand that e's Connection was made with
  Messages,       \* what may be sent: records [id, size]
  MaxMessageSize, \* Connection::MaxMessageSize()
  PlainEnds,      \* the ends that may be a plain socket
  Outbox,         \* bound: Outbox[e], the messages that may be sent from e, in that order
  MaxCalls,       \* bound: how many are sent, from both ends
  WireCapacity    \* writes not yet read that the system buffers for one end

ASSUME EndsAssumption ==
  /\ Peer \in [Ends -> Ends]
  /\ \A e \in Ends : Peer[e] # e /\ Peer[Peer[e]] = e
  /\ PlainEnds \subseteq Ends
ASSUME SizesAssumption ==
  /\ MaxMessageSize \in Nat /\ WireCapacity \in Nat \ {0}
  /\ \A m \in Messages : m.size \in Nat
  /\ Outbox \in [Ends -> Seq(Messages)]

VARIABLES
  plain,    \* the ends that are not a Connection
  conn,     \* fields of each Connection
  socket,   \* each end's socket, and the operations outstanding on it
  strand,   \* the handlers posted to each strand
  reader,   \* the completion handler of ReadSize: none, or run with ok or error
  calls,    \* how many messages of its Outbox each end has sent
  sent,     \* history: those sent while the end's socket was open
  received, \* history: what on_message_received_ was called with
  notified  \* how often on_connection_closed_ was called

vars == <<plain, conn, socket, strand, reader, calls, sent, received, notified>>
history == <<calls, sent, received, notified>>

Strands == {StrandOf[e] : e \in Ends}
Sendable == {m \in Messages : m.size \in 1 .. MaxMessageSize} \* EncodeData

\* What async_write takes for one message: its two buffers.
Frame(m) == <<[part |-> "size", message |-> m], [part |-> "data", message |-> m]>>
Bytes == [part : {"size", "data"}, message : Messages]

Handler(e, op) == [end |-> e, op |-> op]
Carrying(e, op, m) == [end |-> e, op |-> op, message |-> m]
Completion(e, op, ok) == [end |-> e, op |-> op, ok |-> ok]

Posted(strands, e, h) == [strands EXCEPT ![StrandOf[e]] = Append(@, h)]

\* Nothing received yet, or cleared.
Nothing == [id |-> 0, size |-> 0]

Init ==
  /\ plain \in SUBSET PlainEnds
  /\ conn = [e \in Ends |->
       [started |-> FALSE, closer |-> "nobody", sendQueue |-> <<>>,
        size |-> 0, data |-> Nothing]]
  /\ socket = [e \in Ends |->
       [open |-> TRUE, reading |-> "none", writing |-> <<>>, unread |-> <<>>]]
  /\ strand = [s \in Strands |-> <<>>]
  /\ reader = [e \in Ends |-> "none"]
  /\ calls = [e \in Ends |-> 0]
  /\ sent = [e \in Ends |-> <<>>]
  /\ received = [e \in Ends |-> <<>>]
  /\ notified = [e \in Ends |-> 0]

-----------------------------------------------------------------------------
(* The public functions, called from any thread.                           *)

\* Starts reading, inside the strand if that is where it was called.
FirstStart(e) == ~conn[e].started
Start(e, inStrand) ==
  /\ e \notin plain
  /\ FirstStart(e)
  /\ conn' = [conn EXCEPT ![e].started = TRUE]
  /\ \/ /\ inStrand
        /\ socket' = [socket EXCEPT ![e].reading = "size"]
        /\ UNCHANGED strand
     \/ /\ ~inStrand
        /\ strand' = Posted(strand, e, Handler(e, "start"))
        /\ UNCHANGED socket
  /\ UNCHANGED <<plain, reader, history>>

\* Bound: no more calls once one is waiting in the strand or has run.
Close(e) ==
  /\ e \notin plain
  /\ conn[e].closer = "nobody"
  /\ Handler(e, "close") \notin ToSet(strand[StrandOf[e]])
  /\ strand' = Posted(strand, e, Handler(e, "close"))
  /\ UNCHANGED <<plain, conn, socket, reader, history>>

\* The next message of the Outbox; Send throws, and posts nothing, if it is empty
\* or too large.
NextOut(e) == Outbox[e][calls[e] + 1]
Called(e) ==
  /\ calls[e] < Len(Outbox[e]) /\ SumFunction(calls) < MaxCalls
  /\ calls' = [calls EXCEPT ![e] = @ + 1]
Send(e) ==
  /\ e \notin plain
  /\ Called(e)
  /\ \/ /\ NextOut(e) \in Sendable
        /\ strand' = Posted(strand, e, Carrying(e, "send", NextOut(e)))
        /\ sent' = IF socket[e].open THEN [sent EXCEPT ![e] = Append(@, NextOut(e))]
                   ELSE sent
     \/ /\ NextOut(e) \notin Sendable
        /\ UNCHANGED <<strand, sent>>
  /\ UNCHANGED <<plain, conn, socket, reader, received, notified>>

-----------------------------------------------------------------------------
(* Handlers.  Each takes the socket and changes it as the code does.       *)

DoSend(s, queue) == [s EXCEPT !.writing = Append(@, Frame(Head(queue)))]

\* Closing the socket throws away what was not read.
SocketClosed(s) == [s EXCEPT !.open = FALSE, !.unread = <<>>]

\* DoClose has closed the socket, and has still to report it.
BeginClose(e, who) ==
  /\ conn[e].closer = "nobody"
  /\ conn' = [conn EXCEPT ![e].closer = who]
  /\ socket' = [socket EXCEPT ![e] = SocketClosed(@)]

\* DoClose returns: at once if the socket had been closed before.
EndClose(e, who) ==
  /\ conn[e].closer \in {who, "done"}
  /\ conn' = [conn EXCEPT ![e].closer = "done"]
  /\ notified' = IF conn[e].closer = who /\ conn[e].started
                 THEN [notified EXCEPT ![e] = @ + 1] ELSE notified

\* The handler at the front of a strand, once it is done, is taken out.
AtFront(s, op) == strand[s] # <<>> /\ Head(strand[s]).op = op
Finished(s) == [strand EXCEPT ![s] = Tail(@)]

RunStart(s) ==
  /\ AtFront(s, "start")
  /\ socket' = [socket EXCEPT ![Head(strand[s]).end].reading = "size"]
  /\ strand' = Finished(s)
  /\ UNCHANGED <<plain, conn, reader, history>>

\* Faulty: starts a write although one is under way.
AlwaysSends(queue) == TRUE
StartsSending(queue) == queue = <<>>
RunSend(s) ==
  /\ AtFront(s, "send")
  /\ LET e == Head(strand[s]).end
         queue == Append(conn[e].sendQueue, Head(strand[s]).message)
     IN /\ conn' = [conn EXCEPT ![e].sendQueue = queue]
        /\ socket' = IF StartsSending(conn[e].sendQueue)
                     THEN [socket EXCEPT ![e] = DoSend(@, queue)] ELSE socket
  /\ strand' = Finished(s)
  /\ UNCHANGED <<plain, reader, history>>

\* Faulty: leaves the rest of the queue to the next Send.
SendsNoMore(queue) == FALSE
SendsNext(queue) == queue # <<>>
RunWritten(s) ==
  /\ AtFront(s, "written") /\ Head(strand[s]).ok
  /\ LET e == Head(strand[s]).end
         queue == Tail(conn[e].sendQueue)
     IN /\ conn' = [conn EXCEPT ![e].sendQueue = queue]
        /\ socket' = IF SendsNext(queue)
                     THEN [socket EXCEPT ![e] = DoSend(@, queue)] ELSE socket
  /\ strand' = Finished(s)
  /\ UNCHANGED <<plain, reader, history>>

\* The message is copied and posted to the strand; the next read begins inline.
RunBody(s) ==
  /\ AtFront(s, "body") /\ Head(strand[s]).ok
  /\ LET e == Head(strand[s]).end
     IN /\ strand' = Posted(Finished(s), e, Carrying(e, "deliver", conn[e].data))
        /\ socket' = [socket EXCEPT ![e].reading = "size"]
  /\ UNCHANGED <<plain, conn, reader, history>>

\* Faulty: hands over the buffer as it is now instead of the copy.
BufferContents(h) == conn[h.end].data
Delivered(h) == h.message
RunDeliver(s) ==
  /\ AtFront(s, "deliver")
  /\ LET h == Head(strand[s])
     IN received' = [received EXCEPT ![h.end] = Append(@, Delivered(h))]
  /\ strand' = Finished(s)
  /\ UNCHANGED <<plain, conn, socket, reader, calls, sent, notified>>

\* A handler that closes: that of Close, or a completion with an error.
ClosingFront(s) ==
  \/ AtFront(s, "close")
  \/ (AtFront(s, "written") \/ AtFront(s, "body")) /\ ~Head(strand[s]).ok
StrandCloses(s) ==
  /\ ClosingFront(s)
  /\ BeginClose(Head(strand[s]).end, "strand")
  /\ UNCHANGED <<plain, strand, reader, history>>
StrandHasClosed(s) ==
  /\ ClosingFront(s)
  /\ EndClose(Head(strand[s]).end, "strand")
  /\ strand' = Finished(s)
  /\ UNCHANGED <<plain, socket, reader, calls, sent, received>>

\* ReadSize's handler, outside the strand, has a size and reads the body.
TooLarge(size) == size > MaxMessageSize
ReadData(e) ==
  /\ reader[e] = "ok" /\ ~TooLarge(conn[e].size)
  /\ socket' = [socket EXCEPT ![e].reading = "data"]
  /\ reader' = [reader EXCEPT ![e] = "none"]
  /\ UNCHANGED <<plain, conn, strand, history>>

\* Faulty: returns without closing when the read has failed.
ReaderFailsOnSizeOnly(e) == reader[e] = "ok" /\ TooLarge(conn[e].size)
ReaderFails(e) == reader[e] = "error" \/ (reader[e] = "ok" /\ TooLarge(conn[e].size))
ReaderCloses(e) ==
  /\ ReaderFails(e)
  /\ BeginClose(e, "reader")
  /\ UNCHANGED <<plain, strand, reader, history>>
ReaderHasClosed(e) ==
  /\ ReaderFails(e)
  /\ EndClose(e, "reader")
  /\ reader' = [reader EXCEPT ![e] = "none"]
  /\ UNCHANGED <<plain, socket, strand, calls, sent, received>>

-----------------------------------------------------------------------------
(* The sockets (external).                                                 *)

\* Where the completion of a read goes: onto the strand for a body, to any
\* thread for a size.
ReadCompletes(e, ok) ==
  IF socket[e].reading = "size"
  THEN /\ reader' = [reader EXCEPT ![e] = IF ok THEN "ok" ELSE "error"]
       /\ UNCHANGED strand
  ELSE /\ strand' = Posted(strand, e, Completion(e, "body", ok))
       /\ UNCHANGED reader

ReadSucceeds(e) ==
  /\ socket[e].reading # "none" /\ socket[e].open
  /\ socket[e].unread # <<>>
  /\ LET m == Head(socket[e].unread).message
     IN conn' = IF socket[e].reading = "size"
                THEN [conn EXCEPT ![e].size = m.size]
                ELSE [conn EXCEPT ![e].data = m]
  /\ socket' = [socket EXCEPT ![e].reading = "none", ![e].unread = Tail(@)]
  /\ ReadCompletes(e, TRUE)
  /\ UNCHANGED <<plain, history>>

\* The socket is closed, or everything the closed peer sent has been read.
ReadFails(e) ==
  /\ socket[e].reading # "none"
  /\ ~socket[e].open \/ (socket[e].unread = <<>> /\ ~socket[Peer[e]].open)
  /\ socket' = [socket EXCEPT ![e].reading = "none"]
  /\ ReadCompletes(e, FALSE)
  /\ UNCHANGED <<plain, conn, history>>

\* Two writes at once would mix their buffers.
WritePart(e) ==
  /\ socket[e].open
  /\ \E i \in DOMAIN socket[e].writing :
       LET part == socket[e].writing[i]
           written == [socket EXCEPT ![e].writing[i] = Tail(@)]
       IN /\ part # <<>>
          /\ \/ /\ socket[Peer[e]].open
                /\ Len(socket[Peer[e]].unread) < WireCapacity
                /\ socket' = [written EXCEPT ![Peer[e]].unread = Append(@, Head(part))]
             \/ /\ ~socket[Peer[e]].open
                /\ socket' = written
  /\ UNCHANGED <<plain, conn, strand, reader, history>>

WriteCompletes(e, ok) ==
  \E i \in DOMAIN socket[e].writing :
    /\ IF ok THEN socket[e].writing[i] = <<>>
       ELSE ~socket[e].open \/ ~socket[Peer[e]].open
    /\ socket' = [socket EXCEPT ![e].writing = RemoveAt(@, i)]
    /\ strand' = Posted(strand, e, Completion(e, "written", ok))
    /\ UNCHANGED <<plain, conn, reader, history>>

\* A connection reset by the end that closed: what was on its way is lost.
Reset(e) ==
  /\ ~socket[Peer[e]].open
  /\ socket[e].unread # <<>>
  /\ socket' = [socket EXCEPT ![e].unread = Front(@)]
  /\ UNCHANGED <<plain, conn, strand, reader, history>>

-----------------------------------------------------------------------------
(* A plain socket of another program (external): it writes what it likes.  *)

PlainWrite(e) ==
  /\ e \in plain
  /\ Called(e)
  /\ socket[e].open /\ socket[e].writing = <<>>
  /\ socket' = [socket EXCEPT ![e].writing = <<Frame(NextOut(e))>>]
  /\ sent' = [sent EXCEPT ![e] = Append(@, NextOut(e))]
  /\ UNCHANGED <<plain, conn, strand, reader, received, notified>>

PlainWritten(e) ==
  /\ e \in plain
  /\ socket[e].writing = << <<>> >> \/ (socket[e].writing # <<>> /\ ~socket[Peer[e]].open)
  /\ socket' = [socket EXCEPT ![e].writing = <<>>]
  /\ UNCHANGED <<plain, conn, strand, reader, history>>

PlainRead(e) ==
  /\ e \in plain
  /\ socket[e].unread # <<>>
  /\ socket' = [socket EXCEPT ![e].unread = Tail(@)]
  /\ UNCHANGED <<plain, conn, strand, reader, history>>

PlainClose(e) ==
  /\ e \in plain
  /\ socket[e].open
  /\ socket' = [socket EXCEPT ![e] = [SocketClosed(@) EXCEPT !.writing = <<>>]]
  /\ UNCHANGED <<plain, conn, strand, reader, history>>

-----------------------------------------------------------------------------
Call ==
  \/ \E e \in Ends, inStrand \in BOOLEAN : Start(e, inStrand)
  \/ \E e \in Ends : Send(e)
  \/ \E e \in Ends : Close(e)
  \/ \E e \in Ends : PlainWrite(e)
  \/ \E e \in Ends : PlainRead(e)
  \/ \E e \in Ends : PlainClose(e)

RunHandler(s) ==
  \/ RunStart(s)
  \/ RunSend(s)
  \/ RunWritten(s)
  \/ RunBody(s)
  \/ RunDeliver(s)
  \/ StrandCloses(s)
  \/ StrandHasClosed(s)

RunReader(e) ==
  \/ ReadData(e)
  \/ ReaderCloses(e)
  \/ ReaderHasClosed(e)

ReadProgress(e) ==
  \/ ReadSucceeds(e)
  \/ ReadFails(e)

WriteProgress(e) ==
  \/ WritePart(e)
  \/ \E ok \in BOOLEAN : e \notin plain /\ WriteCompletes(e, ok)
  \/ PlainWritten(e)

Next ==
  \/ Call
  \/ \E s \in Strands : RunHandler(s)
  \/ \E e \in Ends : RunReader(e)
  \/ \E e \in Ends : ReadProgress(e)
  \/ \E e \in Ends : WriteProgress(e)
  \/ \E e \in Ends : Reset(e)

Spec == Init /\ [][Next]_vars

\* Threads run the io_service, and the system moves what it can.
Fairness ==
  /\ \A s \in Strands : WF_vars(RunHandler(s))
  /\ \A e \in Ends :
       WF_vars(RunReader(e)) /\ WF_vars(ReadProgress(e)) /\ WF_vars(WriteProgress(e))
FairSpec == Spec /\ Fairness
=============================================================================

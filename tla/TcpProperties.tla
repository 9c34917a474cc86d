---------------------------- MODULE TcpProperties ----------------------------
(***************************************************************************)
(* What should be true of two connected tcp::Connections.                  *)
(***************************************************************************)
EXTENDS TcpConnection

Handlers ==
  {Handler(e, op) : e \in Ends, op \in {"start", "close"}} \cup
  {Carrying(e, op, m) : e \in Ends, op \in {"send", "deliver"}, m \in Messages} \cup
  {Completion(e, op, ok) : e \in Ends, op \in {"body", "written"}, ok \in BOOLEAN}

\* The shape of the state; what is received and queued is what Send lets through
\* (EncodeData and the size check of ReadSize).
TypeOK ==
  /\ plain \subseteq PlainEnds
  /\ conn \in [Ends -> [started : BOOLEAN,
                        closer : {"nobody", "strand", "reader", "done"},
                        sendQueue : Seq(Sendable),
                        size : Nat,
                        data : Messages \cup {Nothing}]]
  /\ socket \in [Ends -> [open : BOOLEAN, reading : {"none", "size", "data"},
                          writing : Seq(Seq(Bytes)), unread : Seq(Bytes)]]
  /\ strand \in [Strands -> Seq(Handlers)]
  /\ reader \in [Ends -> {"none", "ok", "error"}]
  /\ calls \in [Ends -> Nat]
  /\ sent \in [Ends -> Seq(Messages)]
  /\ received \in [Ends -> Seq({m \in Messages : m.size <= MaxMessageSize})]
  /\ notified \in [Ends -> Nat]

\* A strand holds the handlers of both directions and of every connection made
\* with it: those of e.
Waiting(e, op) ==
  {i \in DOMAIN strand[StrandOf[e]] :
     strand[StrandOf[e]][i].end = e /\ strand[StrandOf[e]][i].op = op}

\* A connection has one write under way when it has something to send, and none
\* otherwise, counting one whose handler is waiting (send_queue_ in Send and
\* DoSend); asio requires that there never be two.
OneWriteAtATime ==
  \A e \in Ends \ plain :
    /\ Len(socket[e].writing) + Cardinality(Waiting(e, "written")) <= 1
    /\ socket[e].writing # <<>> => conn[e].sendQueue # <<>>
    /\ conn[e].sendQueue # <<>> /\ conn[e].closer = "nobody" =>
         Len(socket[e].writing) + Cardinality(Waiting(e, "written")) = 1

\* Reading is a chain: one read, or one handler that will begin the next, and so
\* nothing but the handler that filled receiving_message_ reads it.
OneReadAtATime ==
  \A e \in Ends \ plain :
    LET links == (IF socket[e].reading # "none" THEN 1 ELSE 0)
               + (IF reader[e] # "none" THEN 1 ELSE 0)
               + Cardinality(Waiting(e, "start")) + Cardinality(Waiting(e, "body"))
    IN /\ links <= 1
       /\ conn[e].started /\ conn[e].closer = "nobody" => links = 1

\* The state has its shape, and each direction has at most one operation.
OneAtATime == TypeOK /\ OneWriteAtATime /\ OneReadAtATime

-----------------------------------------------------------------------------
(* The refinement.                                                         *)

\* The pair implements MessageStream: on_message_received_ is given the peer's
\* messages whole, in order and once, none too large and none sent after the
\* close; on_connection_closed_ is called once, after the socket was closed.
Stream ==
  INSTANCE MessageStream WITH open <- [e \in Ends |-> socket[e].open]
MessagesStream == Stream!Spec

-----------------------------------------------------------------------------
(* Liveness.                                                               *)

\* Whatever is sent is received: once nobody sends more, two connections that were started and
\* are still open have each received just what the other sent, also one that sent while it
\* was reading, and behind messages that waited in the queue, the strand or the system's
\* buffers (Send, DoSend, ReadSize, ReadData).
SentIsReceived ==
  <>[]((\A e \in Ends : conn[e].started /\ socket[e].open)
         => \A e \in Ends : received[Peer[e]] = sent[e])

\* A connection that was started closes and its user hears of it, when the other end has closed
\* or when the size has come of a message that is too large; and one that closes comes to
\* rest: each outstanding operation returns, in whatever order, and no handler starts another
\* for ever (ReadSize, ReadData, DoSend: DoClose).
HasToClose(e) ==
  /\ conn[e].started /\ socket[e].open
  /\ ~socket[Peer[e]].open \/ (reader[e] = "ok" /\ conn[e].size > MaxMessageSize)
ClosingEnds ==
  /\ \A e \in Ends : HasToClose(e) ~> notified[e] = 1
  /\ <>[](\A e \in Ends :
           \/ socket[e].open \/ e \in plain
           \/ socket[e].reading = "none" /\ socket[e].writing = <<>> /\ reader[e] = "none")
=============================================================================

---------------------------- MODULE TcpListener -----------------------------
(***************************************************************************)
(* maidsafe::tcp::Listener (tcp/listener.h, listener.cc) on the service    *)
(* that runs its handlers: a chain of accept operations, which ends when   *)
(* the acceptor is closed, and which keeps the object alive until then.    *)
(* Calls of StopListening go to the service past the strand.               *)
(***************************************************************************)
EXTENDS AsioService

CONSTANTS
  Ports, BusyPorts,          \* the ports there are, and those another listens on
  kMaxRangeAboveDefaultPort,
  MaxStops,    \* bound: calls of StopListening
  MaxIncoming, \* bound: connections made to the port
  MaxErrors    \* bound: accepts that fail for another reason than the close

ASSUME PortsAssumption == Ports \subseteq Nat

\* The listener's part of the state.  port: of the open acceptor; accepting: an async_accept
\* is outstanding; incoming: connections nobody accepted yet; accepted, delivered: how many
\* were; owned: the user has its pointer still; closed: the acceptor was; stops, made,
\* errors: counted for the bounds.
NoPort == -1
Open == service.port # NoPort

NewListener ==
  [port |-> NoPort, started |-> FALSE, accepting |-> FALSE, owned |-> TRUE,
   closed |-> FALSE, stops |-> 0, made |-> 0, incoming |-> 0, accepted |-> 0,
   delivered |-> 0, errors |-> 0]

ListenerInit ==
  service = [field \in DOMAIN NewService \cup DOMAIN NewListener |->
               IF field \in DOMAIN NewService THEN NewService[field] ELSE NewListener[field]]

\* StartListening tries one port after another; with none free MakeShared throws.
FreePorts(desired) == {p \in Ports \ BusyPorts : p \in desired .. desired + kMaxRangeAboveDefaultPort}
StartListening(desired) ==
  /\ ~service.started
  /\ FreePorts(desired) # {}
  /\ service' = [service EXCEPT !.started = TRUE, !.accepting = TRUE,
                     !.port = CHOOSE p \in FreePorts(desired) : \A q \in FreePorts(desired) : p <= q]

Connect ==
  /\ Open /\ service.made < MaxIncoming
  /\ service' = [service EXCEPT !.made = @ + 1, !.incoming = @ + 1]

\* An accept completes: with a connection, with an error, or cancelled by the close.
Complete(handler, change) ==
  /\ service.accepting
  /\ service' = [Posted(change, handler) EXCEPT !.accepting = FALSE]
AcceptCompletes ==
  /\ Open /\ service.incoming > 0
  /\ Complete("accepted", [service EXCEPT !.incoming = @ - 1, !.accepted = @ + 1])
AcceptFails ==
  /\ Open /\ service.errors < MaxErrors
  /\ Complete("failed", [service EXCEPT !.errors = @ + 1])
AcceptCancelled == ~Open /\ Complete("failed", service)

\* Faulty: an accept that failed is the last.
GiveUpOnError(t) ==
  /\ service.at[t] \in {"accepted", "failed"}
  /\ service' = [Goes(service, t, IF Open /\ service.at[t] = "accepted" THEN "rearm" ELSE "run") EXCEPT
                   !.delivered = IF Open /\ service.at[t] = "accepted" THEN @ + 1 ELSE @]
\* HandleAccept, in two steps: the acceptor may be closed by another thread between.
HandleAccept(t) ==
  /\ service.at[t] \in {"accepted", "failed"}
  /\ service' = [Goes(service, t, IF Open THEN "rearm" ELSE "run") EXCEPT
                   !.delivered = IF Open /\ service.at[t] = "accepted" THEN @ + 1 ELSE @]

Armed(l) == [l EXCEPT !.accepting = TRUE]
AcceptNext(t) ==
  /\ service.at[t] = "rearm"
  /\ service' = Armed(Goes(service, t, "run"))

StopListening ==
  /\ service.started /\ service.owned /\ service.stops < MaxStops
  /\ \E t \in PoolThreads : service.at[t] # "exited"
  /\ service' = [Posted(service, "doStop") EXCEPT !.stops = @ + 1]

\* DoStopListening, in two steps.  The one call_once lets in closes the acceptor, which sets
\* the cancelled accept free to run on another thread; the rest wait for it to end, and pass.
DoStopListening(t) ==
  /\ service.at[t] = "doStop" /\ \A u \in PoolThreads : service.at[u] # "closing"
  /\ service' = IF service.closed THEN Goes(service, t, "run")
                ELSE [Goes(service, t, "closing") EXCEPT !.closed = TRUE, !.port = NoPort,
                                                         !.incoming = 0]
\* It looks at the error and sets stop_listening_flag_.
EndStopListening(t) == service.at[t] = "closing" /\ service' = Goes(service, t, "run")

\* The user lets go of its pointer, once it has asked the listener to stop.
Release ==
  /\ service.owned /\ service.stops > 0
  /\ service' = [service EXCEPT !.owned = FALSE]

ListenerHandles(t) ==
  HandleAccept(t) \/ AcceptNext(t) \/ DoStopListening(t) \/ EndStopListening(t)

ListenerNext ==
  \/ \E handler \in {"task", "stop"} : PostTask(handler)
  \/ \E t \in PoolThreads : Take(t)
  \/ \E t \in PoolThreads : FinishTask(t)
  \/ \E t \in PoolThreads : StopInHandler(t)
  \/ \E t \in PoolThreads : RunReturns(t, service.accepting)
  \/ \E c \in Callers : BeginStop(c)
  \/ \E c \in Callers : LockAndReset(c)
  \/ \E c \in Callers, t \in PoolThreads : Join(c, t)
  \/ \E c \in Callers : Return(c)
  \/ \E desired \in Ports : StartListening(desired)
  \/ Connect
  \/ AcceptCompletes \/ AcceptFails \/ AcceptCancelled
  \/ \E t \in PoolThreads : ListenerHandles(t)
  \/ StopListening
  \/ Release

ListenerSpec == ListenerInit /\ [][ListenerNext]_service

\* What goes on by itself: threads that can, accepts the system completes, a Stop that has
\* begun.  Nobody has to call or to connect.
ThreadRuns(t) == Take(t) \/ FinishTask(t) \/ StopInHandler(t)
StopGoesOn(c) == LockAndReset(c) \/ Return(c) \/ \E t \in PoolThreads : Join(c, t)
ListenerFairSpec ==
  /\ ListenerSpec
  /\ \A t \in PoolThreads :
       /\ WF_service(ThreadRuns(t)) /\ WF_service(ListenerHandles(t))
       /\ WF_service(RunReturns(t, service.accepting))
  /\ \A c \in Callers : WF_service(StopGoesOn(c))
  /\ WF_service(AcceptCompletes) /\ WF_service(AcceptCancelled)

-----------------------------------------------------------------------------
\* When a Stop has returned, to whichever caller, every thread has ended, and so no
\* handler runs or will ever run (Stop, ~IoService).
QuietAfterStop ==
  \A c \in Callers :
    service.at[c] = "returned" => \A t \in PoolThreads : service.at[t] = "exited"

Links ==
  (IF service.accepting THEN 1 ELSE 0)
  + Cardinality({i \in DOMAIN service.queue : service.queue[i] \in {"accepted", "failed"}})
  + Cardinality({t \in PoolThreads : service.at[t] \in {"accepted", "failed", "rearm"}})

\* An open acceptor has one accept under way or about to be, never two, and what
\* StopListening posted with a plain this finds the object alive and closes the acceptor
\* of it, because the chain of accepts holds it until then (HandleAccept, StopListening,
\* DoStopListening).  Nothing holds it from there on: while one thread is in EndStopListening,
\* which sets a flag of the object, another may end the chain, and the owner may have let go.
\* Of two calls of StopListening the second might find it gone from the start: what is
\* claimed is true of MaxStops up to 1.
ListenerStaysAlive ==
  /\ Links <= 1
  /\ service.port # NoPort => Links = 1
  /\ (\E t \in PoolThreads : service.at[t] = "doStop") => service.owned \/ Links = 1

\* A thread of the pool waits for mutex_ in Stop while its holder waits for it.
StopsBothWays ==
  (\E t \in PoolThreads : service.at[t] = "stop") /\ (\E c \in Callers : service.at[c] = "join")

StopIsWaiting(c) == service.at[c] \in {"lock", "join"} /\ ~Open
StopIsOver(c) == service.at[c] = "returned" \/ StopsBothWays \/ Open
Connected == service.incoming > 0 /\ \A t \in PoolThreads : service.at[t] # "exited"
HandedOver == service.delivered = service.made \/ ~Open \/ StopsBothWays

\* Neither a Stop nor a connection waits for ever.  Once nothing listens, Stop returns,
\* and does so for everybody who called it, but for the handler that calls it while
\* another thread does: work_ alone keeps idle threads, and every accept completes
\* when the acceptor is closed.  Whoever connects is handed over, whatever failed
\* before and whoever has begun to stop the service, unless the acceptor is closed
\* first: the chain of accepts keeps the threads, where they had not yet ended when
\* it began (Stop, HandleAccept).
NothingIsForgotten ==
  /\ \A c \in Callers : StopIsWaiting(c) ~> StopIsOver(c)
  /\ Connected ~> HandedOver
=============================================================================

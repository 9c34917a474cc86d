---------------------------- MODULE ListenerProofs -----------------------------
(***************************************************************************)
(* Proofs about AsioService under TcpListener, for any number of threads   *)
(* of the pool, of callers of Stop and of handlers.                        *)
(*                                                                         *)
(* QuietWhenStopped: QuietAfterStop speaks of a Stop that has returned;    *)
(* the strengthening Joining follows the ones that have not, by mutex_,    *)
(* work_ and threads_.                                                     *)
(*                                                                         *)
(* AcceptsKeepTheListener: with one StopListening at most, what it posted, *)
(* with the raw this, finds the listener alive until it has closed the     *)
(* acceptor.  The accepts hold it: there is exactly one, outstanding,      *)
(* ready or running, as long as the acceptor is open, and nothing else     *)
(* closes that (Chain).  Nothing is proved of the object behind the close. *)
(***************************************************************************)
EXTENDS TcpListener, FiniteSetTheorems, WellFoundedInduction, TLAPS

\* The members of service that the argument is about are there.
Shape ==
  /\ {"work", "mutex", "joined", "at"} \subseteq DOMAIN service
  /\ DOMAIN service.at = PoolThreads \cup Callers

Ended == \A t \in PoolThreads : service.at[t] = "exited"

\* Who joins holds mutex_; whom it has joined has ended; and when it has let go of
\* mutex_ with work_ gone, all have, which is why the next caller need not join.
Joining ==
  /\ \A c \in Callers : service.at[c] = "join" <=> service.mutex = c
  /\ service.mutex \in Callers \cup {Nobody}
  /\ \A t \in PoolThreads \cap service.joined : service.at[t] = "exited"
  /\ ~service.work /\ service.mutex = Nobody => Ended

IInv == Shape /\ Joining /\ QuietAfterStop

LEMMA InitIInv == ListenerInit => IInv
PROOF
  <1> SUFFICES ASSUME ListenerInit PROVE IInv
    OBVIOUS
  <1>1. /\ DOMAIN service = DOMAIN NewService \cup DOMAIN service
        /\ \A f \in DOMAIN NewService : service[f] = NewService[f]
    BY DEF ListenerInit
  <1>2. /\ {"work", "mutex", "joined", "at"} \subseteq DOMAIN NewService
        /\ NewService.work = TRUE /\ NewService.mutex = Nobody /\ NewService.joined = {}
        /\ NewService.at = [t \in PoolThreads \cup Callers |->
                              IF t \in PoolThreads THEN "run" ELSE "out"]
    BY DEF NewService
  <1>3. /\ {"work", "mutex", "joined", "at"} \subseteq DOMAIN service
        /\ service.work = TRUE /\ service.mutex = Nobody /\ service.joined = {}
        /\ service.at = [t \in PoolThreads \cup Callers |->
                           IF t \in PoolThreads THEN "run" ELSE "out"]
    BY <1>1, <1>2
  <1> QED
    BY <1>3, CallersAssumption DEF IInv, Shape, Joining, Ended, QuietAfterStop

\* What a step leaves alone when it is none of Stop's.
Untouched ==
  /\ DOMAIN service' = DOMAIN service
  /\ service'.work = service.work /\ service'.mutex = service.mutex
  /\ service'.joined = service.joined

LEMMA NobodyMoves ==
  ASSUME IInv, Untouched, service'.at = service.at PROVE IInv'
PROOF
  BY DEF Untouched, IInv, Shape, Joining, Ended, QuietAfterStop

\* A thread of the pool goes from one handler to the next, or ends.
LEMMA ThreadMoves ==
  ASSUME IInv, Untouched, NEW t \in PoolThreads, service.at[t] # "exited",
         NEW label, service'.at = [service.at EXCEPT ![t] = label]
  PROVE  IInv'
PROOF
  BY CallersAssumption DEF Untouched, IInv, Shape, Joining, Ended, QuietAfterStop

LEMMA ThreadSteps ==
  ASSUME IInv, NEW t \in PoolThreads,
         \/ Take(t) \/ FinishTask(t) \/ StopInHandler(t)
         \/ RunReturns(t, service.accepting) \/ ListenerHandles(t)
  PROVE  IInv'
PROOF
  <1> USE DEF Untouched, Goes, IInv, Shape
  <1>1. ASSUME Take(t) PROVE IInv'
    BY <1>1, ThreadMoves DEF Take
  <1>2. ASSUME FinishTask(t) PROVE IInv'
    BY <1>2, ThreadMoves DEF FinishTask
  <1>3. ASSUME StopInHandler(t) PROVE IInv'
    BY <1>3, ThreadMoves DEF StopInHandler
  <1>4. ASSUME RunReturns(t, service.accepting) PROVE IInv'
    BY <1>4, ThreadMoves DEF RunReturns
  <1>5. ASSUME HandleAccept(t) PROVE IInv'
    BY <1>5, ThreadMoves DEF HandleAccept
  <1>6. ASSUME AcceptNext(t) PROVE IInv'
    BY <1>6, ThreadMoves DEF AcceptNext, Armed
  <1>7. ASSUME DoStopListening(t), service.closed PROVE IInv'
    BY <1>7, ThreadMoves DEF DoStopListening
  <1>8. ASSUME DoStopListening(t), ~service.closed PROVE IInv'
    BY <1>8, ThreadMoves DEF DoStopListening
  <1>9. ASSUME EndStopListening(t) PROVE IInv'
    BY <1>9, ThreadMoves DEF EndStopListening
  <1> QED
    BY <1>1, <1>2, <1>3, <1>4, <1>5, <1>6, <1>7, <1>8, <1>9 DEF ListenerHandles

LEMMA OtherSteps ==
  ASSUME IInv,
         \/ \E handler \in {"task", "stop"} : PostTask(handler)
         \/ \E desired \in Ports : StartListening(desired)
         \/ Connect \/ AcceptCompletes \/ AcceptFails \/ AcceptCancelled
         \/ StopListening \/ Release
  PROVE  IInv'
PROOF
  <1> SUFFICES Untouched /\ service'.at = service.at
    BY NobodyMoves
  <1> USE DEF IInv, Shape, Untouched, Posted
  <1>1. CASE \E handler \in {"task", "stop"} : PostTask(handler)
    BY <1>1, SMTT(30) DEF PostTask
  <1>2. CASE \E desired \in Ports : StartListening(desired)
    BY <1>2 DEF StartListening
  <1>3. CASE Connect \/ Release
    BY <1>3 DEF Connect, Release
  <1>4. CASE AcceptCompletes
    BY <1>4 DEF AcceptCompletes, Complete
  <1>5. CASE AcceptFails
    BY <1>5 DEF AcceptFails, Complete
  <1>6. CASE AcceptCancelled
    BY <1>6 DEF AcceptCancelled, Complete
  <1>7. CASE StopListening
    BY <1>7 DEF StopListening
  <1> QED
    BY <1>1, <1>2, <1>3, <1>4, <1>5, <1>6, <1>7

\* A caller of Stop: it asks for mutex_, finds work_ there or gone, joins, returns.
LEMMA StopSteps ==
  ASSUME IInv, NEW c \in Callers,
         \/ BeginStop(c) \/ LockAndReset(c) \/ Return(c)
         \/ \E t \in PoolThreads : Join(c, t)
  PROVE  IInv'
PROOF
  <1> USE CallersAssumption DEF Goes, IInv, Shape, Joining, Ended, QuietAfterStop
  <1>1. ASSUME BeginStop(c) PROVE IInv'
    BY <1>1 DEF BeginStop
  <1>2. ASSUME LockAndReset(c), service.work PROVE IInv'
    BY <1>2 DEF LockAndReset, MayLock, WorkReset
  <1>3. ASSUME LockAndReset(c), ~service.work PROVE IInv'
    BY <1>3 DEF LockAndReset, MayLock
  <1>4. ASSUME NEW t \in PoolThreads, Join(c, t) PROVE IInv'
    BY <1>4 DEF Join
  <1>5. ASSUME Return(c) PROVE IInv'
    BY <1>5 DEF Return
  <1> QED
    BY <1>1, <1>2, <1>3, <1>4, <1>5

LEMMA Inductive == IInv /\ [ListenerNext]_service => IInv'
PROOF
  <1> SUFFICES ASSUME IInv, [ListenerNext]_service PROVE IInv'
    OBVIOUS
  <1>1. CASE UNCHANGED service
    BY <1>1 DEF IInv, Shape, Joining, Ended, QuietAfterStop
  <1>2. CASE ListenerNext
    BY <1>2, ThreadSteps, OtherSteps, StopSteps DEF ListenerNext
  <1> QED
    BY <1>1, <1>2

\* Once a Stop has returned, to any of its callers, every thread of the pool has ended,
\* and so no handler runs: for any number of threads, callers, handlers and accepts.
THEOREM QuietWhenStopped == ListenerSpec => []QuietAfterStop
PROOF
  <1>1. IInv => QuietAfterStop
    BY DEF IInv
  <1> QED
    BY <1>1, InitIInv, Inductive, PTL DEF ListenerSpec

-----------------------------------------------------------------------------
(* The accept chain.  What is ready, and what runs, of one kind of handlers: *)
(* q is the queue of the service, a says where its threads are.              *)

Ready(q, K) == {i \in DOMAIN q : q[i] \in K}
Running(a, K) == {t \in PoolThreads : a[t] \in K}
None(q, a, K) == Ready(q, K) = {} /\ Running(a, K) = {}
AtMostOne(q, a, K) ==
  /\ \A i, j \in Ready(q, K) : i = j
  /\ \A t, u \in Running(a, K) : t = u
  /\ Ready(q, K) = {} \/ Running(a, K) = {}

Accepts == {"accepted", "failed", "rearm"}
Stops == {"doStop"}
Handlers == {"task", "stop", "accepted", "failed", "doStop"}

\* A handler that is posted.
LEMMA PostedOne ==
  ASSUME NEW q \in Seq(Handlers), NEW a, NEW K, NEW h \in Handlers
  PROVE  LET r == Append(q, h)
         IN /\ r \in Seq(Handlers)
            /\ h \notin K => (AtMostOne(q, a, K) => AtMostOne(r, a, K))
                          /\ (None(r, a, K) <=> None(q, a, K))
            /\ h \in K /\ None(q, a, K) => AtMostOne(r, a, K) /\ ~None(r, a, K)
PROOF
  <1> DEFINE r == Append(q, h)
  <1>1. /\ r \in Seq(Handlers) /\ Len(q) \in Nat
        /\ DOMAIN q = 1 .. Len(q) /\ DOMAIN r = 1 .. Len(q) + 1
        /\ r[Len(q) + 1] = h /\ \A i \in 1 .. Len(q) : r[i] = q[i]
    OBVIOUS
  <1> HIDE DEF r
  <1>2. \A i : i \in 1 .. Len(q) + 1 <=> i \in 1 .. Len(q) \/ i = Len(q) + 1
    BY <1>1
  <1>3. ASSUME h \notin K PROVE Ready(r, K) = Ready(q, K)
    BY <1>1, <1>2, <1>3 DEF Ready
  <1>4. ASSUME h \in K, Ready(q, K) = {} PROVE Ready(r, K) = {Len(q) + 1}
    BY <1>1, <1>2, <1>4 DEF Ready
  <1> QED
    BY <1>1, <1>3, <1>4 DEF r, AtMostOne, None

\* A handler that a thread takes from the head of the queue.
LEMMA TakenOne ==
  ASSUME NEW q \in Seq(Handlers), q # <<>>, NEW a, NEW t \in PoolThreads \cap DOMAIN a,
         a[t] = "run", NEW K, "run" \notin K
  PROVE  LET r == Tail(q)
             b == [a EXCEPT ![t] = Head(q)]
         IN /\ r \in Seq(Handlers)
            /\ AtMostOne(q, a, K) => AtMostOne(r, b, K)
            /\ None(r, b, K) <=> None(q, a, K)
PROOF
  <1> DEFINE r == Tail(q)
             b == [a EXCEPT ![t] = Head(q)]
  <1>1. /\ r \in Seq(Handlers) /\ Len(q) \in Nat /\ Len(q) > 0
        /\ DOMAIN q = 1 .. Len(q) /\ DOMAIN r = 1 .. Len(q) - 1
        /\ Head(q) = q[1] /\ \A i \in 1 .. Len(q) - 1 : r[i] = q[i + 1]
    OBVIOUS
  <1>2. b[t] = q[1] /\ \A u \in PoolThreads \ {t} : b[u] = a[u]
    BY <1>1
  <1> HIDE DEF r, b
  <1>3. \A i : /\ i \in Ready(r, K) <=> i \in 1 .. Len(q) - 1 /\ i + 1 \in Ready(q, K)
               /\ i \in Ready(q, K) => i \in 1 .. Len(q) /\ (i = 1 \/ i - 1 \in Ready(r, K))
    BY <1>1 DEF Ready
  <1>4. 1 \in Ready(q, K) <=> q[1] \in K
    BY <1>1 DEF Ready
  <1>5. Running(b, K) = IF q[1] \in K THEN Running(a, K) \cup {t} ELSE Running(a, K)
    BY <1>2 DEF Running
  <1>6. t \notin Running(a, K)
    BY DEF Running
  <1>7. AtMostOne(q, a, K) => AtMostOne(r, b, K)
    <2> SUFFICES ASSUME AtMostOne(q, a, K) PROVE AtMostOne(r, b, K)
      OBVIOUS
    <2>0. \A i, j \in Ready(q, K) : i = j
      BY DEF AtMostOne
    <2>1. ASSUME NEW i \in Ready(r, K), NEW j \in Ready(r, K) PROVE i = j
      <3>1. i \in Int /\ j \in Int /\ i + 1 \in Ready(q, K) /\ j + 1 \in Ready(q, K)
        BY <1>1, <1>3
      <3>2. i + 1 = j + 1
        BY <2>0, <3>1
      <3> QED
        BY <3>1, <3>2
    <2>2. CASE q[1] \in K
      <3>1. Ready(r, K) = {}
        <4> SUFFICES ASSUME NEW i \in Ready(r, K) PROVE FALSE
          OBVIOUS
        <4>1. i \in 1 .. Len(q) - 1 /\ i + 1 \in Ready(q, K)
          BY <1>3
        <4>2. i \in Int /\ i > 0
          BY <1>1, <4>1
        <4>3. 1 \in Ready(q, K)
          BY <1>4, <2>2
        <4>4. i + 1 = 1
          BY <2>0, <4>1, <4>3
        <4> QED
          BY <4>2, <4>4
      <3> QED
        BY <1>4, <1>5, <2>1, <2>2, <3>1 DEF AtMostOne
    <2>3. CASE q[1] \notin K
      <3>1. Ready(q, K) = {} => Ready(r, K) = {}
        BY <1>3
      <3> QED
        BY <1>5, <2>1, <2>3, <3>1 DEF AtMostOne
    <2> QED
      BY <2>2, <2>3
  <1>8. None(r, b, K) <=> None(q, a, K)
    <2>1. CASE q[1] \in K
      BY <1>4, <1>5, <2>1 DEF None
    <2>2. CASE q[1] \notin K
      <3>1. Ready(r, K) = {} <=> Ready(q, K) = {}
        BY <1>1, <1>3, <1>4, <2>2
      <3> QED
        BY <1>5, <2>2, <3>1 DEF None
    <2> QED
      BY <2>1, <2>2
  <1> QED
    BY <1>1, <1>7, <1>8 DEF r, b

\* A thread goes from one statement to another, which are of the kind or not.
LEMMA MovedOne ==
  ASSUME NEW q, NEW a, NEW t \in DOMAIN a, NEW label, NEW K
  PROVE  LET b == [a EXCEPT ![t] = label]
         IN /\ label \notin K \/ a[t] \in K => (AtMostOne(q, a, K) => AtMostOne(q, b, K))
            /\ label \notin K => (None(q, a, K) => None(q, b, K))
            /\ t \notin PoolThreads \/ (label \in K <=> a[t] \in K) =>
                 (None(q, b, K) <=> None(q, a, K))
            /\ t \in PoolThreads /\ a[t] \in K /\ label \notin K /\ AtMostOne(q, a, K) =>
                 None(q, b, K)
            /\ t \in PoolThreads /\ label \in K => ~None(q, b, K)
PROOF
  <1> DEFINE b == [a EXCEPT ![t] = label]
  <1>1. b[t] = label /\ \A u \in PoolThreads \ {t} : b[u] = a[u]
    OBVIOUS
  <1> HIDE DEF b
  <1>2. Running(b, K) = {u \in PoolThreads : IF u = t THEN label \in K ELSE a[u] \in K}
    BY <1>1 DEF Running
  <1>3. Running(a, K) = {u \in PoolThreads : a[u] \in K}
    BY DEF Running
  <1> QED
    BY <1>2, <1>3 DEF b, AtMostOne, None

-----------------------------------------------------------------------------
\* The members of service that the argument is about are there.
ChainShape ==
  /\ {"queue", "port", "started", "owned", "accepting", "stops", "closed"} \subseteq DOMAIN service
  /\ service.queue \in Seq(Handlers) /\ service.stops \in Nat

\* An accept is outstanding, or its handler is ready or runs: never two of these, and one
\* as long as the acceptor is open.
OneAccept ==
  /\ AtMostOne(service.queue, service.at, Accepts)
  /\ service.accepting => None(service.queue, service.at, Accepts)
  /\ Open => service.accepting \/ ~None(service.queue, service.at, Accepts)

\* What the one StopListening posted has not run as long as the acceptor is not closed.
OneStop ==
  /\ AtMostOne(service.queue, service.at, Stops)
  /\ service.closed \/ service.stops = 0 => None(service.queue, service.at, Stops)
  /\ service.closed => service.stops # 0

\* There is no chain before StartListening; between that and the close the acceptor is open.
Begun ==
  /\ service.started => (Open <=> ~service.closed)
  /\ ~service.started =>
       /\ ~Open /\ ~service.accepting /\ service.stops = 0 /\ ~service.closed
       /\ None(service.queue, service.at, Accepts)

Chain == ChainShape /\ OneAccept /\ OneStop /\ Begun

\* The members that most steps leave alone.
Unlinked ==
  /\ DOMAIN service' = DOMAIN service
  /\ service'.port = service.port /\ service'.started = service.started
  /\ service'.accepting = service.accepting
  /\ service'.stops = service.stops /\ service'.closed = service.closed

LEMMA ChainKept ==
  ASSUME Chain, Unlinked, service'.queue \in Seq(Handlers),
         \A K \in {Accepts, Stops} :
           /\ AtMostOne(service.queue, service.at, K) => AtMostOne(service'.queue, service'.at, K)
           /\ None(service'.queue, service'.at, K) <=> None(service.queue, service.at, K)
  PROVE  Chain'
PROOF
  BY DEF Chain, ChainShape, OneAccept, OneStop, Begun, Unlinked, Open

\* A thread goes to a statement that is no part of the chain, from one that is none.
LEMMA ElsewhereKept ==
  ASSUME Chain, Unlinked, service'.queue = service.queue, NEW t \in DOMAIN service.at, NEW label,
         service'.at = [service.at EXCEPT ![t] = label], label \notin Accepts \cup Stops,
         t \in PoolThreads => service.at[t] \notin Accepts \cup Stops
  PROVE  Chain'
PROOF
  <1>1. \A K \in {Accepts, Stops} :
           /\ AtMostOne(service.queue, service.at, K) => AtMostOne(service'.queue, service'.at, K)
           /\ None(service'.queue, service'.at, K) <=> None(service.queue, service.at, K)
    BY MovedOne
  <1> QED
    BY <1>1, ChainKept DEF Chain, ChainShape

LEMMA InitChain == ListenerInit => Chain
PROOF
  <1> SUFFICES ASSUME ListenerInit PROVE Chain
    OBVIOUS
  <1>1. /\ DOMAIN service = DOMAIN NewService \cup DOMAIN NewListener
        /\ \A f \in DOMAIN NewService : service[f] = NewService[f]
        /\ \A f \in DOMAIN NewListener \ DOMAIN NewService : service[f] = NewListener[f]
    BY DEF ListenerInit
  <1>2. /\ "queue" \in DOMAIN NewService /\ "at" \in DOMAIN NewService
        /\ NewService.queue = <<>>
        /\ NewService.at = [t \in PoolThreads \cup Callers |->
                              IF t \in PoolThreads THEN "run" ELSE "out"]
    BY DEF NewService
  <1>3. {"port", "started", "owned", "accepting", "stops", "closed"}
          \subseteq DOMAIN NewListener \ DOMAIN NewService
    BY DEF NewListener, NewService
  <1>4. /\ NewListener.port = NoPort /\ NewListener.started = FALSE
        /\ NewListener.accepting = FALSE /\ NewListener.stops = 0 /\ NewListener.closed = FALSE
    BY DEF NewListener
  <1>5. /\ service.queue = <<>> /\ \A t \in PoolThreads : service.at[t] = "run"
        /\ service.port = NoPort /\ service.started = FALSE
        /\ service.accepting = FALSE /\ service.stops = 0 /\ service.closed = FALSE
    BY <1>1, <1>2, <1>3, <1>4
  <1>6. ChainShape
    BY <1>1, <1>2, <1>3, <1>5 DEF ChainShape
  <1>7. \A K \in {Accepts, Stops} : Ready(service.queue, K) = {} /\ Running(service.at, K) = {}
    BY <1>5 DEF Ready, Running, Accepts, Stops
  <1> QED
    BY <1>5, <1>6, <1>7 DEF Chain, OneAccept, OneStop, Begun, AtMostOne, None, Open

\* The threads of the pool between handlers, in a user's handler, and at their end.
LEMMA PoolSteps ==
  ASSUME Shape, Chain, NEW t \in PoolThreads,
         \/ Take(t) \/ FinishTask(t) \/ StopInHandler(t) \/ RunReturns(t, service.accepting)
  PROVE  Chain'
PROOF
  <1> USE DEF Goes, Unlinked, Shape
  <1>1. ASSUME Take(t) PROVE Chain'
    <2> DEFINE q == service.queue
               b == [service.at EXCEPT ![t] = Head(q)]
    <2>1. /\ q # <<>> /\ q \in Seq(Handlers) /\ service.at[t] = "run"
          /\ Unlinked /\ service'.queue = Tail(q) /\ service'.at = b
      BY <1>1 DEF Take, Chain, ChainShape
    <2>2. t \in PoolThreads \cap DOMAIN service.at /\ "run" \notin Accepts \cup Stops
      BY DEF Accepts, Stops
    <2>3. /\ Tail(q) \in Seq(Handlers)
          /\ \A K \in {Accepts, Stops} :
               /\ AtMostOne(q, service.at, K) => AtMostOne(Tail(q), b, K)
               /\ None(Tail(q), b, K) <=> None(q, service.at, K)
      BY <2>1, <2>2, TakenOne
    <2> QED
      BY <2>1, <2>3, ChainKept
  <1>2. ASSUME FinishTask(t) PROVE Chain'
    BY <1>2, ElsewhereKept DEF FinishTask, Accepts, Stops
  <1>3. ASSUME StopInHandler(t) PROVE Chain'
    BY <1>3, ElsewhereKept DEF StopInHandler, Accepts, Stops
  <1>4. ASSUME RunReturns(t, service.accepting) PROVE Chain'
    BY <1>4, ElsewhereKept DEF RunReturns, Accepts, Stops
  <1> QED
    BY <1>1, <1>2, <1>3, <1>4

\* A caller of Stop.
LEMMA CallerSteps ==
  ASSUME Shape, Chain, NEW c \in Callers,
         \/ BeginStop(c) \/ LockAndReset(c) \/ Return(c)
         \/ \E t \in PoolThreads : Join(c, t)
  PROVE  Chain'
PROOF
  <1> USE CallersAssumption DEF Goes, Unlinked, Shape, Accepts, Stops
  <1>1. ASSUME BeginStop(c) PROVE Chain'
    BY <1>1, ElsewhereKept DEF BeginStop
  <1>2. ASSUME LockAndReset(c), service.work PROVE Chain'
    BY <1>2, ElsewhereKept DEF LockAndReset, MayLock, WorkReset
  <1>3. ASSUME LockAndReset(c), ~service.work PROVE Chain'
    BY <1>3, ElsewhereKept DEF LockAndReset, MayLock
  <1>4. ASSUME NEW t \in PoolThreads, Join(c, t) PROVE Chain'
    <2>1. Unlinked /\ service'.queue = service.queue /\ service'.at = service.at
      BY <1>4 DEF Join
    <2> QED
      BY <2>1, ChainKept DEF Chain, ChainShape
  <1>5. ASSUME Return(c) PROVE Chain'
    BY <1>5, ElsewhereKept DEF Return
  <1> QED
    BY <1>1, <1>2, <1>3, <1>4, <1>5

\* What users and clients do beside the chain.
LEMMA UserSteps ==
  ASSUME Shape, Chain,
         (\E handler \in {"task", "stop"} : PostTask(handler)) \/ Connect \/ Release
  PROVE  Chain'
PROOF
  <1> USE DEF Unlinked, Shape
  <1>1. ASSUME NEW handler \in {"task", "stop"}, PostTask(handler) PROVE Chain'
    <2>1. Unlinked /\ service'.queue = Append(service.queue, handler) /\ service'.at = service.at
      <3> DEFINE s == Posted(service, handler)
      <3>1. service' = [s EXCEPT !.posts = s.posts + 1]
        BY <1>1 DEF PostTask
      <3>2. /\ DOMAIN s = DOMAIN service /\ s.queue = Append(service.queue, handler)
            /\ s.port = service.port /\ s.started = service.started /\ s.at = service.at
            /\ s.accepting = service.accepting /\ s.stops = service.stops
            /\ s.closed = service.closed
        BY DEF Posted, Chain, ChainShape
      <3>3. {"port", "started", "accepting", "stops", "closed", "queue", "at"} \subseteq DOMAIN s
        BY <3>2 DEF Chain, ChainShape
      <3> HIDE DEF s
      <3> QED
        BY <3>1, <3>2, <3>3
    <2>2. handler \in Handlers /\ handler \notin Accepts \cup Stops
      BY DEF Handlers, Accepts, Stops
    <2> QED
      BY <2>1, <2>2, PostedOne, ChainKept DEF Chain, ChainShape
  <1>2. ASSUME Connect \/ Release PROVE Chain'
    <2>1. Unlinked /\ service'.queue = service.queue /\ service'.at = service.at
      BY <1>2 DEF Connect, Release, Chain, ChainShape
    <2> QED
      BY <2>1, ChainKept DEF Chain, ChainShape
  <1> QED
    BY <1>1, <1>2

LEMMA StartSteps ==
  ASSUME Shape, Chain, NEW desired \in Ports, StartListening(desired) PROVE Chain'
PROOF
  <1> DEFINE free == FreePorts(desired)
             port == CHOOSE p \in free : \A q \in free : p <= q
             R == OpToRel(<, Nat)
  <1>1. free # {} /\ free \subseteq Nat /\ ~service.started
    BY PortsAssumption DEF StartListening, FreePorts
  <1>2. IsWellFoundedOn(R, Nat)
    BY NatLessThanWellFounded
  <1>3. \A x, y \in Nat : y < x => <<y, x>> \in R
    BY DEF OpToRel
  <1> HIDE DEF free, R
  <1>4. PICK p \in free : \A q \in free : ~(<<q, p>> \in R)
    BY <1>1, <1>2, WFMin
  <1>5. \A q \in free : p <= q
    <2> SUFFICES ASSUME NEW q \in free PROVE p <= q
      OBVIOUS
    <2>1. p \in Nat /\ q \in Nat /\ ~(q < p)
      BY <1>1, <1>3, <1>4
    <2> QED
      BY <2>1
  <1>6. port \in Nat
    BY Zenon, <1>1, <1>4, <1>5
  <1>7. port # NoPort
    <2> HIDE DEF port
    <2> QED
      BY <1>6 DEF NoPort
  <1>8. /\ DOMAIN service' = DOMAIN service
        /\ service'.started /\ service'.accepting /\ service'.port = port
        /\ service'.queue = service.queue /\ service'.at = service.at
        /\ service'.stops = service.stops /\ service'.closed = service.closed
    BY DEF StartListening, Chain, ChainShape, Shape, free
  <1> HIDE DEF port
  <1> QED
    BY <1>1, <1>7, <1>8 DEF Chain, ChainShape, OneAccept, OneStop, Begun, Open

\* An accept completes, one way or another: its handler is posted.
LEMMA AcceptSteps ==
  ASSUME Shape, Chain, AcceptCompletes \/ AcceptFails \/ AcceptCancelled PROVE Chain'
PROOF
  <1> SUFFICES ASSUME NEW handler \in {"accepted", "failed"}, service.accepting,
                      DOMAIN service' = DOMAIN service, ~service'.accepting,
                      service'.queue = Append(service.queue, handler),
                      service'.at = service.at, service'.port = service.port,
                      service'.started = service.started, service'.stops = service.stops,
                      service'.closed = service.closed
               PROVE  Chain'
    <2> USE DEF Complete, Posted, Shape, Chain, ChainShape
    <2>1. CASE AcceptCompletes
      <3> DEFINE s == [service EXCEPT !.incoming = @ - 1, !.accepted = @ + 1]
      <3>1. /\ DOMAIN s = DOMAIN service /\ s.queue = service.queue /\ s.at = service.at
            /\ s.port = service.port /\ s.started = service.started
            /\ s.stops = service.stops /\ s.closed = service.closed
        OBVIOUS
      <3>2. service.accepting /\ service' = [Posted(s, "accepted") EXCEPT !.accepting = FALSE]
        BY <2>1 DEF AcceptCompletes
      <3> HIDE DEF s
      <3> QED
        BY <3>1, <3>2
    <2>2. CASE AcceptFails
      <3> DEFINE s == [service EXCEPT !.errors = @ + 1]
      <3>1. /\ DOMAIN s = DOMAIN service /\ s.queue = service.queue /\ s.at = service.at
            /\ s.port = service.port /\ s.started = service.started
            /\ s.stops = service.stops /\ s.closed = service.closed
        OBVIOUS
      <3>2. service.accepting /\ service' = [Posted(s, "failed") EXCEPT !.accepting = FALSE]
        BY <2>2 DEF AcceptFails
      <3> HIDE DEF s
      <3> QED
        BY <3>1, <3>2
    <2>3. CASE AcceptCancelled
      BY <2>3 DEF AcceptCancelled
    <2> QED
      BY <2>1, <2>2, <2>3
  <1> DEFINE q == service.queue
             r == Append(q, handler)
  <1>1. handler \in Handlers /\ handler \in Accepts /\ handler \notin Stops
    BY DEF Handlers, Accepts, Stops
  <1>2. q \in Seq(Handlers) /\ None(q, service.at, Accepts)
    BY DEF Chain, ChainShape, OneAccept
  <1>3. /\ r \in Seq(Handlers)
        /\ AtMostOne(r, service.at, Accepts) /\ ~None(r, service.at, Accepts)
        /\ AtMostOne(q, service.at, Stops) => AtMostOne(r, service.at, Stops)
        /\ None(r, service.at, Stops) <=> None(q, service.at, Stops)
    BY <1>1, <1>2, PostedOne
  <1> HIDE DEF r
  <1>4. service'.queue = r
    BY DEF r
  <1> QED
    BY <1>3, <1>4 DEF Chain, ChainShape, OneAccept, OneStop, Begun, Open

\* The handler of an accept looks at the acceptor, and starts the next accept.
LEMMA HandlerSteps ==
  ASSUME Shape, Chain, NEW t \in PoolThreads, HandleAccept(t) \/ AcceptNext(t) PROVE Chain'
PROOF
  <1> DEFINE q == service.queue
             At(label) == [service.at EXCEPT ![t] = label]
  <1>1. ASSUME HandleAccept(t), Open PROVE Chain'
    <2>1. /\ Unlinked /\ service'.queue = q /\ service'.at = At("rearm")
          /\ service.at[t] \in {"accepted", "failed"}
      BY <1>1 DEF HandleAccept, Goes, Unlinked, Shape, Chain, ChainShape
    <2>2. \A K \in {Accepts, Stops} : "rearm" \in K <=> service.at[t] \in K
      BY <2>1 DEF Accepts, Stops
    <2>3. \A K \in {Accepts, Stops} :
            /\ AtMostOne(q, service.at, K) => AtMostOne(q, service'.at, K)
            /\ None(q, service'.at, K) <=> None(q, service.at, K)
      BY <2>1, <2>2, MovedOne DEF Shape
    <2> QED
      BY <2>1, <2>3, ChainKept DEF Chain, ChainShape
  <1>2. ASSUME HandleAccept(t), ~Open PROVE Chain'
    <2>1. /\ Unlinked /\ service'.queue = q /\ service'.at = At("run")
          /\ service.at[t] \in {"accepted", "failed"}
      BY <1>2 DEF HandleAccept, Goes, Unlinked, Shape, Chain, ChainShape
    <2>2. /\ service.at[t] \in Accepts /\ service.at[t] \notin Stops
          /\ "run" \notin Accepts /\ "run" \notin Stops
      BY <2>1 DEF Accepts, Stops
    <2>3. /\ AtMostOne(q, service.at, Accepts) /\ AtMostOne(q, service.at, Stops)
      BY DEF Chain, OneAccept, OneStop
    <2>4. /\ AtMostOne(q, service'.at, Accepts) /\ None(q, service'.at, Accepts)
          /\ AtMostOne(q, service'.at, Stops)
          /\ None(q, service'.at, Stops) <=> None(q, service.at, Stops)
      BY <2>1, <2>2, <2>3, MovedOne DEF Shape
    <2>5. ~Open'
      BY <1>2, <2>1 DEF Open, Unlinked
    <2> QED
      BY <2>1, <2>4, <2>5, <1>2 DEF Chain, ChainShape, OneAccept, OneStop, Begun, Unlinked
  <1>3. ASSUME AcceptNext(t) PROVE Chain'
    <2>1. /\ DOMAIN service' = DOMAIN service /\ service'.accepting
          /\ service'.queue = q /\ service'.at = At("run")
          /\ service'.port = service.port /\ service'.started = service.started
          /\ service'.stops = service.stops /\ service'.closed = service.closed
          /\ service.at[t] = "rearm"
      BY <1>3 DEF AcceptNext, Armed, Goes, Shape, Chain, ChainShape
    <2>2. /\ service.at[t] \in Accepts /\ service.at[t] \notin Stops
          /\ "run" \notin Accepts /\ "run" \notin Stops
      BY <2>1 DEF Accepts, Stops
    <2>3. /\ AtMostOne(q, service.at, Accepts) /\ AtMostOne(q, service.at, Stops)
      BY DEF Chain, OneAccept, OneStop
    <2>4. /\ AtMostOne(q, service'.at, Accepts) /\ None(q, service'.at, Accepts)
          /\ AtMostOne(q, service'.at, Stops)
          /\ None(q, service'.at, Stops) <=> None(q, service.at, Stops)
      BY <2>1, <2>2, <2>3, MovedOne DEF Shape
    <2>5. ~None(q, service.at, Accepts)
      BY <2>2 DEF None, Running
    <2>6. service.started /\ (Open' <=> Open)
      BY <2>1, <2>5 DEF Chain, Begun, Open
    <2> QED
      BY <2>1, <2>4, <2>6 DEF Chain, ChainShape, OneAccept, OneStop, Begun
  <1> QED
    BY <1>1, <1>2, <1>3

\* StopListening posts what closes the acceptor, once.
LEMMA CloseSteps ==
  ASSUME MaxStops \in {0, 1}, Shape, Chain,
         StopListening \/ \E t \in PoolThreads : DoStopListening(t) \/ EndStopListening(t)
  PROVE  Chain'
PROOF
  <1> DEFINE q == service.queue
  <1>1. ASSUME StopListening PROVE Chain'
    <2> DEFINE r == Append(q, "doStop")
    <2>1. /\ DOMAIN service' = DOMAIN service /\ service'.queue = r
          /\ service'.at = service.at /\ service'.port = service.port
          /\ service'.started = service.started /\ service'.accepting = service.accepting
          /\ service'.closed = service.closed
      <3> DEFINE s == Posted(service, "doStop")
      <3>1. service' = [s EXCEPT !.stops = s.stops + 1]
        BY <1>1 DEF StopListening
      <3>2. /\ DOMAIN s = DOMAIN service /\ s.queue = r /\ s.at = service.at
            /\ s.port = service.port /\ s.started = service.started
            /\ s.accepting = service.accepting /\ s.closed = service.closed
        BY DEF Posted, Chain, ChainShape, Shape
      <3> HIDE DEF s, r
      <3> QED
        BY <3>1, <3>2 DEF Chain, ChainShape, Shape
    <2>2. service.started /\ service'.stops = service.stops + 1 /\ service.stops < MaxStops
      BY <1>1 DEF StopListening, Posted, Chain, ChainShape
    <2>3. service.stops = 0 /\ service'.stops # 0
      BY <2>2 DEF Chain, ChainShape
    <2>4. "doStop" \in Handlers /\ "doStop" \in Stops /\ "doStop" \notin Accepts
      BY DEF Handlers, Accepts, Stops
    <2>5. q \in Seq(Handlers) /\ None(q, service.at, Stops)
      BY <2>3 DEF Chain, ChainShape, OneStop
    <2>6. /\ r \in Seq(Handlers) /\ AtMostOne(r, service.at, Stops)
          /\ AtMostOne(q, service.at, Accepts) => AtMostOne(r, service.at, Accepts)
          /\ None(r, service.at, Accepts) <=> None(q, service.at, Accepts)
      BY <2>4, <2>5, PostedOne
    <2> HIDE DEF r
    <2> QED
      BY <2>1, <2>2, <2>3, <2>6 DEF Chain, ChainShape, OneAccept, OneStop, Begun, Open
  <1>2. ASSUME NEW t \in PoolThreads, DoStopListening(t) PROVE Chain'
    <2>1. /\ DOMAIN service' = DOMAIN service /\ service'.queue = q
          /\ service'.at = [service.at EXCEPT ![t] = "closing"] /\ service'.port = NoPort
          /\ service'.started = service.started /\ service'.accepting = service.accepting
          /\ service'.closed /\ service'.stops = service.stops /\ service.at[t] = "doStop"
      <3>1. service.at[t] = "doStop" BY <1>2 DEF DoStopListening
      <3>2. ~None(q, service.at, Stops) BY <3>1 DEF None, Running, Stops
      <3>3. ~service.closed BY <3>2 DEF Chain, OneStop
      <3> QED BY <1>2, <3>3 DEF DoStopListening, Goes, Shape, Chain, ChainShape
    <2>2. /\ service.at[t] \notin Accepts /\ service.at[t] \in Stops
          /\ "closing" \notin Accepts /\ "closing" \notin Stops
      BY <2>1 DEF Accepts, Stops
    <2>3. AtMostOne(q, service.at, Accepts) /\ AtMostOne(q, service.at, Stops)
      BY DEF Chain, OneAccept, OneStop
    <2>4. /\ AtMostOne(q, service'.at, Accepts)
          /\ None(q, service'.at, Accepts) <=> None(q, service.at, Accepts)
          /\ AtMostOne(q, service'.at, Stops) /\ None(q, service'.at, Stops)
      BY <2>1, <2>2, <2>3, MovedOne DEF Shape
    <2>5. ~None(q, service.at, Stops)
      BY <2>2 DEF None, Running
    <2>6. service.stops # 0 /\ service.started
      BY <2>5 DEF Chain, OneStop, Begun
    <2> QED
      BY <2>1, <2>4, <2>6 DEF Chain, ChainShape, OneAccept, OneStop, Begun, Open
  <1>3. ASSUME NEW t \in PoolThreads, EndStopListening(t) PROVE Chain'
    <2>1. /\ Unlinked /\ service'.queue = q /\ service.at[t] = "closing"
          /\ service'.at = [service.at EXCEPT ![t] = "run"]
      BY <1>3 DEF EndStopListening, Goes, Unlinked, Shape, Chain, ChainShape
    <2>2. t \in DOMAIN service.at /\ "run" \notin Accepts \cup Stops
          /\ service.at[t] \notin Accepts \cup Stops
      BY <2>1 DEF Shape, Accepts, Stops
    <2> QED
      BY <2>1, <2>2, ElsewhereKept
  <1> QED
    BY <1>1, <1>2, <1>3

-----------------------------------------------------------------------------
\* A set of which any two members are the same has one, or none.
LEMMA FewAreOne ==
  ASSUME NEW S, \A x, y \in S : x = y
  PROVE  Cardinality(S) = IF S = {} THEN 0 ELSE 1
PROOF
  <1>1. CASE S = {}
    BY <1>1, FS_EmptySet
  <1>2. ASSUME NEW x \in S PROVE Cardinality(S) = 1
    <2>1. S = {x}
      OBVIOUS
    <2> QED
      BY <2>1, FS_Singleton
  <1> QED
    BY <1>1, <1>2

LEMMA ChainIsEnough == ASSUME Chain PROVE ListenerStaysAlive
PROOF
  <1> DEFINE ready == Ready(service.queue, Accepts)
             running == Running(service.at, Accepts)
  <1>1. {i \in DOMAIN service.queue : service.queue[i] \in {"accepted", "failed"}} = ready
    <2>1. \A i \in DOMAIN service.queue : service.queue[i] \in Handlers
      BY DEF Chain, ChainShape
    <2> QED
      BY <2>1 DEF Ready, Handlers, Accepts
  <1>2. {t \in PoolThreads : service.at[t] \in {"accepted", "failed", "rearm"}} = running
    BY DEF Running, Accepts
  <1>3. /\ \A i, j \in ready : i = j
        /\ \A t, u \in running : t = u
        /\ ready = {} \/ running = {}
        /\ service.accepting => ready = {} /\ running = {}
        /\ Open => service.accepting \/ ready # {} \/ running # {}
    BY DEF Chain, OneAccept, AtMostOne, None
  <1> HIDE DEF ready, running
  <1>4. /\ Cardinality(ready) = IF ready = {} THEN 0 ELSE 1
        /\ Cardinality(running) = IF running = {} THEN 0 ELSE 1
    BY <1>3, FewAreOne
  <1>5. Links = (IF service.accepting THEN 1 ELSE 0) + Cardinality(ready) + Cardinality(running)
    BY <1>1, <1>2 DEF Links
  <1>6. Links <= 1 /\ (Open => Links = 1)
    BY <1>3, <1>4, <1>5
  <1>7. ASSUME NEW t \in PoolThreads, service.at[t] = "doStop" PROVE Open
    <2>1. ~None(service.queue, service.at, Stops)
      BY <1>7 DEF None, Running, Stops
    <2> QED
      BY <2>1 DEF Chain, OneStop, Begun
  <1> QED
    BY <1>6, <1>7 DEF ListenerStaysAlive, Open

\* An open acceptor has exactly one accept under way or about to be, and the handler that
\* StopListening posted has an object that is there up to the step that closes the acceptor:
\* for any number of threads, connections, errors and callers of Stop, if StopListening is
\* called once.  What the handler does behind that step is not covered (DoStopListening).
THEOREM AcceptsKeepTheListener ==
  ASSUME MaxStops \in {0, 1} PROVE ListenerSpec => []ListenerStaysAlive
PROOF
  <1>1. ListenerInit => IInv /\ Chain
    BY InitIInv, InitChain
  <1>2. IInv /\ Chain /\ [ListenerNext]_service => IInv' /\ Chain'
    <2> SUFFICES ASSUME IInv, Chain, [ListenerNext]_service PROVE IInv' /\ Chain'
      OBVIOUS
    <2>1. Shape
      BY DEF IInv
    <2>2. IInv'
      BY Inductive
    <2> SUFFICES Chain'
      BY <2>2
    <2>3. CASE UNCHANGED service
      BY <2>3, ChainKept DEF Unlinked, Chain, ChainShape
    <2>4. CASE ListenerNext
      <3>1. CASE \E t \in PoolThreads : ListenerHandles(t)
        BY <2>1, <3>1, HandlerSteps, CloseSteps DEF ListenerHandles
      <3>2. CASE \E c \in Callers : BeginStop(c) \/ LockAndReset(c) \/ Return(c)
                                      \/ \E t \in PoolThreads : Join(c, t)
        BY <2>1, <3>2, CallerSteps
      <3> QED
        BY <2>1, <2>4, <3>1, <3>2, PoolSteps, UserSteps, StartSteps, AcceptSteps,
           CloseSteps DEF ListenerNext
    <2> QED
      BY <2>3, <2>4
  <1>3. Chain => ListenerStaysAlive
    BY ChainIsEnough
  <1> QED
    BY <1>1, <1>2, <1>3, PTL DEF ListenerSpec
=============================================================================

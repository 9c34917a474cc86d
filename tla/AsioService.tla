---------------------------- MODULE AsioService -----------------------------
(***************************************************************************)
(* maidsafe::IoService (asio_service.h): a pool of threads inside          *)
(* io_service::run, kept there by work_, and Stop, which the destructor    *)
(* calls and other threads may.                                            *)
(***************************************************************************)
EXTENDS Integers, Sequences, FiniteSets

CONSTANTS
  PoolThreads, Callers, Nobody,
  MaxPosts \* bound: handlers posted by users of the service

ASSUME PoolAssumption == IsFiniteSet(PoolThreads)
ASSUME CallersAssumption == Nobody \notin Callers /\ PoolThreads \cap Callers = {}

\* count: thread_count_; work: work_ is set; mutex: who holds mutex_; queue: handlers
\* ready to run; at: where each thread is, by the handler it runs or the next
\* statement of Stop; joined: threads no longer in threads_; posts: handlers posted.
VARIABLE service

NewService ==
  [count |-> Cardinality(PoolThreads), work |-> TRUE, mutex |-> Nobody,
             queue |-> <<>>, joined |-> {}, posts |-> 0,
             at |-> [t \in PoolThreads \cup Callers |->
                       IF t \in PoolThreads THEN "run" ELSE "out"]]

Posted(s, handler) == [s EXCEPT !.queue = Append(@, handler)]
Goes(s, t, label) == [s EXCEPT !.at[t] = label]

\* A user's handler: it does something of its own, or calls Stop.
PostTask(handler) ==
  /\ service.posts < MaxPosts
  /\ \E t \in PoolThreads : service.at[t] # "exited"
  /\ service' = [Posted(service, handler) EXCEPT !.posts = @ + 1]

Take(t) ==
  /\ service.at[t] = "run" /\ service.queue # <<>>
  /\ LET handler == Head(service.queue)
     IN service' = [Goes(service, t, handler) EXCEPT
                      !.queue = Tail(@), !.count = IF handler = "stop" THEN 0 ELSE @]

FinishTask(t) == service.at[t] = "task" /\ service' = Goes(service, t, "run")

\* run returns when there is neither work nor a handler, ready or running, nor
\* an operation of others outstanding, or has returned for another thread.
RunReturns(t, outstanding) ==
  /\ service.at[t] = "run"
  /\ \/ \E u \in PoolThreads : service.at[u] = "exited"
     \/ /\ ~service.work /\ ~outstanding /\ service.queue = <<>>
        /\ \A u \in PoolThreads : service.at[u] = "run"
  /\ service' = Goes(service, t, "exited")

-----------------------------------------------------------------------------
BeginStop(c) ==
  /\ service.at[c] = "out"
  /\ service' = [Goes(service, c, "lock") EXCEPT !.count = 0]

\* Faulty: whether there is work left is looked at before mutex_ is locked.
LockIfWork(c) == service.mutex = Nobody \/ ~service.work
MayLock(c) == service.mutex = Nobody
\* Faulty: the threads are joined with work_ still there.
WorkKept(s) == s
WorkReset(s) == [s EXCEPT !.work = FALSE]
LockAndReset(c) ==
  /\ service.at[c] = "lock" /\ MayLock(c)
  /\ service' =
       IF service.work
       THEN WorkReset([Goes(service, c, "join") EXCEPT !.mutex = c])
       ELSE Goes(service, c, "returned")

Join(c, t) ==
  /\ service.at[c] = "join" /\ t \notin service.joined
  /\ service.at[t] = "exited"
  /\ service' = [service EXCEPT !.joined = @ \cup {t}]

Return(c) ==
  /\ service.at[c] = "join" /\ service.joined = PoolThreads
  /\ service' = [Goes(service, c, "returned") EXCEPT !.mutex = Nobody]

\* A handler that calls Stop waits for mutex_ too.  It is a thread of the pool, so
\* that Stop throws (the handler is taken to catch it) or finds no work left.
StopInHandler(t) ==
  /\ service.at[t] = "stop" /\ service.mutex = Nobody
  /\ service' = Goes(service, t, "run")
=============================================================================

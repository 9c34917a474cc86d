------------------------------- MODULE Active --------------------------------
(***************************************************************************)
(* maidsafe::Active (src/maidsafe/common/active.cc): a thread that runs,   *)
(* one after another, the functors that other threads send it.  A functor  *)
(* may itself send more.  The destructor sends one last functor, which     *)
(* clears running_, and joins the thread.                                  *)
(*                                                                         *)
(* flags_mutex_ guards running_ and is held by Send from the test of       *)
(* running_ until its functor is queued.  mutex_ guards the queue and is   *)
(* only held between two points at which others can interfere, so that it  *)
(* does not appear: pushing and popping are single steps.                  *)
(***************************************************************************)
EXTENDS Integers, Sequences

CONSTANTS
  Clients,   \* the threads that send functors
  Owner,     \* the thread that destroys the object
  Worker,    \* thread_
  Nobody,    \* owns a free mutex
  Functors,  \* the functors that are sent
  Stop,      \* the functor that the destructor sends
  Script,    \* Script[c]: the functors that client c sends, in order
  Body       \* Body[f]: the functors that f sends when it runs, in order

Threads == Clients \cup {Owner, Worker}

ASSUME ThreadsAssumption ==
  /\ Owner \notin Clients /\ Worker \notin Clients /\ Owner # Worker
  /\ Nobody \notin Threads
ASSUME FunctorsAssumption ==
  /\ Stop \notin Functors
  /\ Script \in [Clients -> Seq(Functors)]
  /\ Body \in [Functors -> Seq(Functors)]

VARIABLES
  running,  \* running_
  flags,    \* the thread that holds flags_mutex_
  functors, \* functors_
  asleep,   \* the worker waits on condition_
  pc,       \* the statement that comes next in each thread
  todo,     \* the functors that each thread has still to send
  hand,     \* the functor being run: a sequence of none or one
  sent,     \* history: the functors pushed
  ran       \* history: the functors run to their end

vars == <<running, flags, functors, asleep, pc, todo, hand, sent, ran>>

Init ==
  /\ running = TRUE
  /\ flags = Nobody
  /\ functors = <<>> /\ asleep = FALSE
  /\ pc = [t \in Threads |-> IF t = Worker THEN "loop" ELSE "ready"]
  /\ todo = [t \in Threads |-> IF t \in Clients THEN Script[t] ELSE <<>>]
  /\ hand = <<>>
  /\ sent = <<>> /\ ran = <<>>

\* Whoever calls after the destructor has returned uses an object that is gone.
Alive == pc[Owner] # "gone"

Goto(t, label) == pc' = [pc EXCEPT ![t] = label]

-----------------------------------------------------------------------------
(* Send, in a client, in a functor that the worker runs, or in ~Active.    *)

\* Where a thread goes when Send returns.
AfterSend(t) == IF t = Owner THEN "join" ELSE "ready"

\* flags_mutex_ is taken; unless running_, Send returns at once.
LockFlags(t) ==
  /\ Alive
  /\ pc[t] = "ready" /\ todo[t] # <<>>
  /\ flags = Nobody
  /\ \/ /\ running
        /\ flags' = t
        /\ Goto(t, "push")
        /\ UNCHANGED todo
     \/ /\ ~running
        /\ todo' = [todo EXCEPT ![t] = Tail(@)]
        /\ Goto(t, AfterSend(t))
        /\ UNCHANGED flags
  /\ UNCHANGED <<running, functors, asleep, hand, sent, ran>>

UnlockFlags == flags' = Nobody

\* Faulty: does not wake the worker.
DoNotNotify == UNCHANGED asleep
NotifyOne == asleep' = FALSE

\* Faulty: the newest functor goes first.
PushedInFront(f) == <<f>> \o functors
Pushed(f) == Append(functors, f)

Push(t) ==
  /\ Alive
  /\ pc[t] = "push"
  /\ functors' = Pushed(Head(todo[t]))
  /\ NotifyOne
  /\ UnlockFlags
  /\ todo' = [todo EXCEPT ![t] = Tail(@)]
  /\ sent' = Append(sent, Head(todo[t]))
  /\ Goto(t, AfterSend(t))
  /\ UNCHANGED <<running, hand, ran>>

-----------------------------------------------------------------------------
(* ~Active.                                                                *)

Destroy ==
  /\ pc[Owner] = "ready" /\ todo[Owner] = <<>>
  /\ todo' = [todo EXCEPT ![Owner] = <<Stop>>]
  /\ UNCHANGED <<running, flags, functors, asleep, pc, hand, sent, ran>>

\* Faulty: does not wait for the thread.
JoinAnyway == TRUE
Joinable == pc[Worker] = "exited"
Join ==
  /\ pc[Owner] = "join"
  /\ Joinable
  /\ Goto(Owner, "gone")
  /\ UNCHANGED <<running, flags, functors, asleep, todo, hand, sent, ran>>

-----------------------------------------------------------------------------
(* Run, in the worker.                                                     *)

\* The condition of the loop, under flags_mutex_.
TestRunning ==
  /\ pc[Worker] = "loop"
  /\ flags = Nobody
  /\ Goto(Worker, IF running THEN "take" ELSE "exited")
  /\ UNCHANGED <<running, flags, functors, asleep, todo, hand, sent, ran>>

Wait ==
  /\ pc[Worker] = "take" /\ ~asleep
  /\ functors = <<>>
  /\ asleep' = TRUE
  /\ UNCHANGED <<running, flags, functors, pc, todo, hand, sent, ran>>

SendsOf(f) == IF f = Stop THEN <<>> ELSE Body[f]
Take ==
  /\ pc[Worker] = "take" /\ ~asleep
  /\ functors # <<>>
  /\ functors' = Tail(functors)
  /\ hand' = <<Head(functors)>>
  /\ todo' = [todo EXCEPT ![Worker] = SendsOf(Head(functors))]
  /\ Goto(Worker, "ready")
  /\ UNCHANGED <<running, flags, asleep, sent, ran>>

\* The functor has made its calls, or is the one that clears running_.
RunFunctor ==
  /\ pc[Worker] = "ready" /\ todo[Worker] = <<>>
  /\ \/ /\ hand = <<Stop>>
        /\ flags = Nobody
        /\ running' = FALSE
     \/ /\ hand # <<Stop>>
        /\ UNCHANGED running
  /\ ran' = ran \o hand
  /\ hand' = <<>>
  /\ Goto(Worker, "loop")
  /\ UNCHANGED <<flags, functors, asleep, todo, sent>>

-----------------------------------------------------------------------------
Next ==
  \/ \E t \in Threads : LockFlags(t)
  \/ \E t \in Threads : Push(t)
  \/ Destroy
  \/ Join
  \/ TestRunning
  \/ Wait
  \/ Take
  \/ RunFunctor

Spec == Init /\ [][Next]_vars

\* The scheduler runs every thread that is ready.  That is enough, although others
\* may take a mutex first, when only so many functors are sent; and nobody has to
\* call ~Active.
FairSpec ==
  /\ Spec
  /\ \A t \in Threads : WF_vars(LockFlags(t)) /\ WF_vars(Push(t))
  /\ WF_vars(Join)
  /\ WF_vars(TestRunning) /\ WF_vars(Wait) /\ WF_vars(Take) /\ WF_vars(RunFunctor)
=============================================================================

-------------------------- MODULE ActiveProperties ---------------------------
(***************************************************************************)
(* What should be true of maidsafe::Active.                                *)
(***************************************************************************)
EXTENDS Active, SequencesExt

Sendable == Functors \cup {Stop}

\* The shape of the state.  Whoever holds flags_mutex_ is in Send, about to push
\* the functor it was called with; the worker has a functor in hand exactly while
\* it is running one, and only the worker is ever in the loop.
TypeOK ==
  /\ running \in BOOLEAN /\ asleep \in BOOLEAN
  /\ flags \in Threads \cup {Nobody}
  /\ functors \in Seq(Sendable) /\ hand \in Seq(Sendable)
  /\ sent \in Seq(Sendable) /\ ran \in Seq(Sendable)
  /\ todo \in [Threads -> Seq(Sendable)]
  /\ pc \in [Threads -> {"ready", "push", "join", "gone", "loop", "take", "exited"}]
  /\ \A t \in Threads : pc[t] = "push" <=> flags = t
  /\ \A t \in Threads : pc[t] = "push" => todo[t] # <<>>
  /\ \A t \in Threads \ {Worker} : pc[t] \notin {"loop", "take", "exited"}
  /\ hand # <<>> <=> pc[Worker] \in {"ready", "push"}
  /\ Len(hand) <= 1

\* Functors are run in the order in which they were sent, by whatever thread, each
\* of them once and one at a time: those run, the one running and those queued are
\* at every moment all that were sent (Send, Run).
FirstInFirstOut == sent = ran \o hand \o functors

\* When the destructor has returned, the thread has ended, everything sent before
\* the destructor's own functor has been run, and nothing after it: what was sent
\* while it waited, from a client or a functor, is dropped unseen.
AllBeforeStopHaveRun ==
  pc[Owner] = "gone" =>
    /\ pc[Worker] = "exited"
    /\ ran # <<>> /\ Last(ran) = Stop /\ IsPrefix(ran, sent)
    /\ \A i \in 1 .. Len(ran) - 1 : ran[i] # Stop

\* The destructor returns, although others go on sending and functors send more; and what
\* is queued before the destructor's functor is run, asleep as the worker may have been
\* (notify_one follows the push, with flags_mutex_ still held).
EverythingEnds ==
  /\ todo[Owner] # <<>> ~> pc[Owner] = "gone"
  /\ \A f \in Functors :
       f \in ToSet(sent) /\ Stop \notin ToSet(sent) ~> f \in ToSet(ran)
=============================================================================

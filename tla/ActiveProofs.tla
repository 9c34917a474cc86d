---------------------------- MODULE ActiveProofs -----------------------------
(***************************************************************************)
(* Proofs about Active, for every choice of its constants: any number of   *)
(* clients, scripts of any length, functors that send any others.          *)
(*                                                                         *)
(* TypeCorrect and FunctorsRunInOrder: TypeOK, with FirstInFirstOut, is    *)
(* inductive as it stands.  DestructorWaitsForAll: AllBeforeStopHaveRun is *)
(* a consequence of StopIsLast, which follows the worker from the functor  *)
(* that clears running_ to the end of its thread.                          *)
(***************************************************************************)
EXTENDS ActiveProperties, SequenceTheorems, TLAPS

\* A functor's calls and a client's are sequences of sendable functors.
LEMMA Sends ==
  /\ \A c \in Clients : Script[c] \in Seq(Sendable)
  /\ \A f \in Sendable : SendsOf(f) \in Seq(Sendable)
PROOF
  <1>1. \A q \in Seq(Functors) : q \in Seq(Sendable)
    BY SeqMonotonic DEF Sendable
  <1>2. \A f \in Functors : Body[f] \in Seq(Sendable)
    BY <1>1, FunctorsAssumption
  <1>3. <<>> \in Seq(Sendable)
    OBVIOUS
  <1> QED
    BY <1>1, <1>2, <1>3, FunctorsAssumption DEF SendsOf, Sendable

-----------------------------------------------------------------------------
(* Types.                                                                  *)

LEMMA TypeInit == Init => TypeOK
PROOF
  <1> SUFFICES ASSUME Init PROVE TypeOK
    OBVIOUS
  <1>1. todo \in [Threads -> Seq(Sendable)]
    BY Sends DEF Init
  <1>2. /\ pc \in [Threads -> {"ready", "push", "join", "gone", "loop", "take", "exited"}]
        /\ pc[Worker] = "loop"
        /\ \A t \in Threads : pc[t] # "push"
        /\ \A t \in Threads \ {Worker} : pc[t] = "ready"
    BY DEF Init, Threads
  <1>3. flags = Nobody /\ \A t \in Threads : flags # t
    BY ThreadsAssumption DEF Init
  <1>4. hand = <<>> /\ Len(hand) <= 1
    BY DEF Init
  <1>5. /\ functors \in Seq(Sendable) /\ hand \in Seq(Sendable)
        /\ sent \in Seq(Sendable) /\ ran \in Seq(Sendable)
    BY EmptySeq DEF Init
  <1>6. running \in BOOLEAN /\ asleep \in BOOLEAN
    BY DEF Init
  <1>7. /\ \A t \in Threads : pc[t] = "push" <=> flags = t
        /\ \A t \in Threads : pc[t] = "push" => todo[t] # <<>>
        /\ \A t \in Threads \ {Worker} : pc[t] \notin {"loop", "take", "exited"}
        /\ hand # <<>> <=> pc[Worker] \in {"ready", "push"}
    BY <1>2, <1>3, <1>4
  <1> QED
    BY <1>1, <1>2, <1>3, <1>4, <1>5, <1>6, <1>7 DEF TypeOK

LEMMA TypeStep == TypeOK /\ [Next]_vars => TypeOK'
PROOF
  <1> SUFFICES ASSUME TypeOK, [Next]_vars PROVE TypeOK'
    OBVIOUS
  <1> USE ThreadsAssumption
  <1>1. ASSUME NEW t \in Threads, LockFlags(t) PROVE TypeOK'
    <2>1. /\ flags = Nobody /\ pc[t] = "ready" /\ todo[t] # <<>>
          /\ UNCHANGED <<running, functors, asleep, hand, sent, ran>>
      BY <1>1 DEF LockFlags
    <2>2. t = Worker => hand # <<>>
      BY <2>1 DEF TypeOK
    <2>3. CASE flags' = t /\ Goto(t, "push") /\ UNCHANGED todo
      BY <2>1, <2>2, <2>3 DEF Goto, TypeOK, Threads
    <2>4. CASE /\ todo' = [todo EXCEPT ![t] = Tail(@)]
               /\ Goto(t, AfterSend(t)) /\ UNCHANGED flags
      <3>1. todo' \in [Threads -> Seq(Sendable)]
        BY <2>1, <2>4 DEF TypeOK
      <3>2. AfterSend(t) \in {"join", "ready"} /\ (t = Worker => AfterSend(t) = "ready")
        BY DEF AfterSend
      <3>3. /\ pc' = [pc EXCEPT ![t] = AfterSend(t)]
            /\ flags' = Nobody
        BY <2>1, <2>4 DEF Goto
      <3>4. \A s \in Threads : pc'[s] # "push"
        BY <2>1, <3>2, <3>3 DEF TypeOK
      <3> QED
        BY <2>1, <2>2, <3>1, <3>2, <3>3, <3>4 DEF TypeOK, Threads
    <2> QED
      BY <1>1, <2>3, <2>4 DEF LockFlags
  <1>2. ASSUME NEW t \in Threads, Push(t) PROVE TypeOK'
    <2>1. Head(todo[t]) \in Sendable /\ Tail(todo[t]) \in Seq(Sendable)
      BY <1>2 DEF Push, TypeOK
    <2>2. functors' \in Seq(Sendable) /\ sent' \in Seq(Sendable)
      BY <1>2, <2>1 DEF Push, Pushed, TypeOK
    <2> QED
      BY <1>2, <2>1, <2>2
      DEF Push, NotifyOne, UnlockFlags, AfterSend, Goto, TypeOK, Threads
  <1>3. CASE Destroy
    <2>1. <<Stop>> \in Seq(Sendable)
      BY DEF Sendable
    <2> QED
      BY <1>3, <2>1 DEF Destroy, TypeOK, Threads
  <1>4. CASE Join
    BY <1>4 DEF Join, Goto, TypeOK, Threads
  <1>5. CASE TestRunning
    BY <1>5 DEF TestRunning, Goto, TypeOK, Threads
  <1>6. CASE Wait
    BY <1>6 DEF Wait, TypeOK
  <1>7. CASE Take
    <2>1. Head(functors) \in Sendable /\ Tail(functors) \in Seq(Sendable)
      BY <1>7 DEF Take, TypeOK
    <2>2. SendsOf(Head(functors)) \in Seq(Sendable)
      BY <2>1, Sends
    <2>3. hand' \in Seq(Sendable) /\ hand' # <<>> /\ Len(hand') = 1
      BY <1>7, <2>1 DEF Take
    <2> QED
      BY <1>7, <2>1, <2>2, <2>3 DEF Take, Goto, TypeOK, Threads
  <1>8. CASE RunFunctor
    <2>1. ran' \in Seq(Sendable)
      BY <1>8, ConcatProperties DEF RunFunctor, TypeOK
    <2>2. /\ pc[Worker] = "ready" /\ pc' = [pc EXCEPT ![Worker] = "loop"]
          /\ hand' = <<>> /\ hand' \in Seq(Sendable) /\ Len(hand') <= 1
          /\ UNCHANGED <<flags, functors, asleep, todo, sent>>
      BY <1>8 DEF RunFunctor, Goto
    <2>3. running' \in BOOLEAN
      BY <1>8 DEF RunFunctor, TypeOK
    <2> QED
      BY <1>8, <2>1, <2>2, <2>3 DEF TypeOK, Threads
  <1>9. CASE UNCHANGED vars
    BY <1>9 DEF vars, TypeOK
  <1> QED
    BY <1>1, <1>2, <1>3, <1>4, <1>5, <1>6, <1>7, <1>8, <1>9 DEF Next

\* Every variable keeps its type, and whoever holds flags_mutex_ is in Send, about
\* to push a functor.
THEOREM TypeCorrect == Spec => []TypeOK
PROOF
  <1>1. Init => TypeOK
    BY TypeInit
  <1>2. TypeOK /\ [Next]_vars => TypeOK'
    BY TypeStep
  <1> QED
    BY <1>1, <1>2, PTL DEF Spec

-----------------------------------------------------------------------------
(* The order of the functors.                                              *)

LEMMA OrderStep ==
  TypeOK /\ FirstInFirstOut /\ [Next]_vars => FirstInFirstOut'
PROOF
  <1> SUFFICES ASSUME TypeOK, FirstInFirstOut, [Next]_vars PROVE FirstInFirstOut'
    OBVIOUS
  <1>0. /\ ran \in Seq(Sendable) /\ hand \in Seq(Sendable)
        /\ functors \in Seq(Sendable)
    BY DEF TypeOK
  <1>1. ASSUME NEW t \in Threads, Push(t) PROVE FirstInFirstOut'
    <2> DEFINE f == Head(todo[t])
    <2>1. f \in Sendable
      BY <1>1 DEF Push, TypeOK
    <2>2. /\ sent' = Append(sent, f) /\ functors' = Append(functors, f)
          /\ hand' = hand /\ ran' = ran
      BY <1>1 DEF Push, Pushed
    <2> HIDE DEF f
    <2>3. ran \o hand \in Seq(Sendable)
      BY <1>0, ConcatProperties
    <2>4. Append((ran \o hand) \o functors, f) = (ran \o hand) \o Append(functors, f)
      <3>1. <<f>> \in Seq(Sendable) /\ (ran \o hand) \o functors \in Seq(Sendable)
        BY <1>0, <2>1, <2>3, ConcatProperties
      <3>2. Append((ran \o hand) \o functors, f) = ((ran \o hand) \o functors) \o <<f>>
        BY <2>1, <3>1, AppendIsConcat
      <3>3. Append(functors, f) = functors \o <<f>>
        BY <1>0, <2>1, AppendIsConcat
      <3> DEFINE a == ran \o hand
                 b == <<f>>
      <3>4. a \in Seq(Sendable) /\ b \in Seq(Sendable) /\ functors \in Seq(Sendable)
        BY <1>0, <2>3, <3>1
      <3> HIDE DEF a, b
      <3>5. (a \o functors) \o b = a \o (functors \o b)
        BY <3>4, ConcatAssociative, SMTT(30)
      <3> QED BY <3>2, <3>3, <3>5, Zenon DEF a, b
    <2> QED
      BY <2>2, <2>4 DEF FirstInFirstOut
  <1>2. CASE Take
    <2>1. hand = <<>> /\ functors # <<>>
      BY <1>2 DEF Take, TypeOK
    <2>2. /\ hand' = <<Head(functors)>> /\ functors' = Tail(functors)
          /\ sent' = sent /\ ran' = ran
      BY <1>2 DEF Take
    <2>3. <<Head(functors)>> \o Tail(functors) = functors
      BY <1>0, <2>1
    <2>4. hand' \in Seq(Sendable) /\ functors' \in Seq(Sendable)
      BY <1>0, <2>1, <2>2
    <2>5. (ran' \o hand') \o functors' = ran \o functors
      <3> DEFINE h == <<Head(functors)>>
                 rest == Tail(functors)
      <3>1. ran \in Seq(Sendable) /\ h \in Seq(Sendable) /\ rest \in Seq(Sendable)
        BY <1>0, <2>2, <2>4
      <3> HIDE DEF h, rest
      <3>2. (ran \o h) \o rest = ran \o (h \o rest)
        BY <3>1, ConcatAssociative, SMTT(30)
      <3> QED BY <2>2, <2>3, <3>2, Zenon DEF h, rest
    <2>6. (ran \o hand) \o functors = ran \o functors
      BY <1>0, <2>1, ConcatEmptySeq
    <2> QED
      BY <2>2, <2>5, <2>6 DEF FirstInFirstOut
  <1>3. CASE RunFunctor
    <2>1. /\ ran' = ran \o hand /\ hand' = <<>>
          /\ functors' = functors /\ sent' = sent
      BY <1>3 DEF RunFunctor
    <2>2. ran' \in Seq(Sendable)
      BY <1>0, <2>1, ConcatProperties
    <2>3. ran' \o hand' = ran'
      BY <2>1, <2>2, ConcatEmptySeq
    <2> QED
      BY <2>1, <2>3 DEF FirstInFirstOut
  <1>4. CASE UNCHANGED <<sent, ran, hand, functors>>
    BY <1>4 DEF FirstInFirstOut
  <1>5. ASSUME NEW t \in Threads, LockFlags(t)
        PROVE  UNCHANGED <<sent, ran, hand, functors>>
    BY <1>5 DEF LockFlags
  <1>6. Destroy \/ Join \/ TestRunning \/ Wait \/ UNCHANGED vars
          => UNCHANGED <<sent, ran, hand, functors>>
    BY DEF Destroy, Join, TestRunning, Wait, vars
  <1> QED
    BY <1>1, <1>2, <1>3, <1>4, <1>5, <1>6 DEF Next

\* Functors are run in the order of Send, each once: for any number of threads.
THEOREM FunctorsRunInOrder == Spec => []FirstInFirstOut
PROOF
  <1>1. Init => FirstInFirstOut
    BY DEF Init, FirstInFirstOut
  <1> QED
    BY <1>1, OrderStep, TypeCorrect, PTL DEF Spec

-----------------------------------------------------------------------------
(* The destructor.                                                         *)

\* While running_ is set nothing that has run was the destructor's functor; once
\* it is clear, that functor was the last, and the worker goes to the end of Run.
StopIsLast ==
  /\ running => \A i \in 1 .. Len(ran) : ran[i] # Stop
  /\ ~running =>
       /\ pc[Worker] \in {"loop", "exited"}
       /\ Len(ran) > 0 /\ ran[Len(ran)] = Stop
       /\ \A i \in 1 .. Len(ran) - 1 : ran[i] # Stop
  /\ pc[Worker] = "exited" => ~running
  /\ pc[Owner] = "gone" => pc[Worker] = "exited"

LEMMA StopStep == TypeOK /\ StopIsLast /\ [Next]_vars => StopIsLast'
PROOF
  <1> SUFFICES ASSUME TypeOK, StopIsLast, [Next]_vars PROVE StopIsLast'
    OBVIOUS
  <1> USE ThreadsAssumption
  <1>1. ASSUME NEW t \in Threads, LockFlags(t) PROVE StopIsLast'
    BY <1>1 DEF LockFlags, AfterSend, Goto, StopIsLast, TypeOK, Threads
  <1>2. ASSUME NEW t \in Threads, Push(t) PROVE StopIsLast'
    BY <1>2 DEF Push, AfterSend, Goto, StopIsLast, TypeOK, Threads
  <1>3. CASE RunFunctor
    <2>1. running
      BY <1>3 DEF RunFunctor, StopIsLast
    <2>2. PICK f \in Sendable : hand = <<f>>
      <3>1. hand # <<>> /\ hand \in Seq(Sendable) /\ Len(hand) <= 1
        BY <1>3 DEF RunFunctor, TypeOK
      <3>2. Len(hand) = 1 /\ hand[1] \in Sendable
        <4>1. Len(hand) \in Nat \ {0}
          BY <3>1, EmptySeq
        <4>2. \A n \in Nat \ {0} : n <= 1 => n = 1
          OBVIOUS
        <4>3. Len(hand) = 1
          BY <3>1, <4>1, <4>2
        <4> QED
          BY <3>1, <4>3, ElementOfSeq
      <3>3. hand = <<hand[1]>>
        BY <3>1, <3>2
      <3> QED BY <3>2, <3>3
    <2>3. /\ Len(ran') = Len(ran) + 1
          /\ ran'[Len(ran')] = f
          /\ \A i \in 1 .. Len(ran) : ran'[i] = ran[i]
      BY <1>3, <2>2 DEF RunFunctor, TypeOK
    <2>4. \A i \in 1 .. Len(ran) : ran'[i] # Stop
      BY <2>1, <2>3 DEF StopIsLast
    <2>5. pc'[Worker] = "loop" /\ pc'[Owner] # "gone"
      BY <1>3 DEF RunFunctor, Goto, StopIsLast, TypeOK, Threads
    <2>6. Len(ran) \in Nat
      BY DEF TypeOK
    <2>7. CASE f = Stop
      <3>1. ~running'
        BY <1>3, <2>2, <2>7 DEF RunFunctor
      <3> QED
        BY <2>3, <2>4, <2>5, <2>6, <2>7, <3>1 DEF StopIsLast
    <2>8. CASE f # Stop
      <3>1. running'
        <4>1. hand # <<Stop>>
          BY <2>2, <2>8
        <4> QED BY <1>3, <2>1, <4>1 DEF RunFunctor
      <3>2. \A i \in 1 .. Len(ran') : ran'[i] # Stop
        BY <2>3, <2>4, <2>6, <2>8
      <3> QED
        BY <2>5, <3>1, <3>2 DEF StopIsLast
    <2> QED BY <2>7, <2>8
  <1>4. CASE Destroy
    BY <1>4 DEF Destroy, StopIsLast
  <1>5. CASE Join
    BY <1>5 DEF Join, Joinable, Goto, StopIsLast, TypeOK, Threads
  <1>6. CASE TestRunning
    BY <1>6 DEF TestRunning, Goto, StopIsLast, TypeOK, Threads
  <1>7. CASE Wait
    BY <1>7 DEF Wait, StopIsLast
  <1>8. CASE Take
    BY <1>8 DEF Take, Goto, StopIsLast, TypeOK, Threads
  <1>9. CASE UNCHANGED vars
    BY <1>9 DEF vars, StopIsLast
  <1> QED
    BY <1>1, <1>2, <1>3, <1>4, <1>5, <1>6, <1>7, <1>8, <1>9 DEF Next

\* What has run is a prefix of what was sent.
LEMMA RanIsPrefix ==
  ASSUME TypeOK, FirstInFirstOut
  PROVE  IsPrefix(ran, sent)
PROOF
  <1>0. /\ ran \in Seq(Sendable) /\ hand \in Seq(Sendable)
        /\ functors \in Seq(Sendable)
    BY DEF TypeOK
  <1> DEFINE rest == hand \o functors
  <1>1. rest \in Seq(Sendable) /\ sent = ran \o rest
    BY <1>0, ConcatProperties, ConcatAssociative, SMTT(30) DEF FirstInFirstOut
  <1> HIDE DEF rest
  <1>2. Len(sent) = Len(ran) + Len(rest)
    BY <1>0, <1>1
  <1>3. SubSeq(sent, 1, Len(ran)) = ran
    BY <1>0, <1>1
  <1>4. SubSeq(ran, 1, Len(ran)) = ran
    BY <1>0
  <1>5. Len(ran) \in Nat /\ Len(rest) \in Nat
    BY <1>0, <1>1
  <1> QED
    BY <1>2, <1>3, <1>4, <1>5 DEF IsPrefix

\* Whoever has returned from the destructor knows that everything sent before its
\* own functor was run, and nothing after it.
THEOREM DestructorWaitsForAll == Spec => []AllBeforeStopHaveRun
PROOF
  <1>1. Init => StopIsLast
    BY ThreadsAssumption DEF Init, StopIsLast, Threads
  <1>2. TypeOK /\ FirstInFirstOut /\ StopIsLast => AllBeforeStopHaveRun
    <2> SUFFICES ASSUME TypeOK, FirstInFirstOut, StopIsLast, pc[Owner] = "gone"
                 PROVE  /\ pc[Worker] = "exited"
                        /\ ran # <<>> /\ Last(ran) = Stop /\ IsPrefix(ran, sent)
                        /\ \A i \in 1 .. Len(ran) - 1 : ran[i] # Stop
      BY DEF AllBeforeStopHaveRun
    <2>1. ~running
      BY DEF StopIsLast
    <2>2. Len(ran) > 0 /\ ran[Len(ran)] = Stop
      BY <2>1 DEF StopIsLast
    <2>3. ran # <<>>
      BY <2>2
    <2> QED
      BY <2>1, <2>2, <2>3, RanIsPrefix DEF StopIsLast, Last
  <1>3. Spec => []StopIsLast
    BY <1>1, StopStep, TypeCorrect, PTL DEF Spec
  <1> QED
    BY <1>2, <1>3, TypeCorrect, FunctorsRunInOrder, PTL
=============================================================================

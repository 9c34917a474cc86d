------------------------------- MODULE TcpProofs -------------------------------
(***************************************************************************)
(* Proofs about TcpConnection, for any number of ends, any messages, any   *)
(* strands that they share, and any capacity of the system's buffers:      *)
(* OneOperationAtATime and ImplementsStream.  Neither property is          *)
(* inductive.  What each end has queued, posted, written and not yet read  *)
(* is a stretch of what was sent, and IInv says which one.                 *)
(***************************************************************************)
EXTENDS TcpProperties, SequenceTheorems, FiniteSetTheorems, TLAPS

Ops == {"start", "close", "send", "deliver", "body", "written"}

\* Where a sequence of handlers has those of e, and which of them are behind i.
Where(s, e, op) == {i \in DOMAIN s : s[i].end = e /\ s[i].op = op}
Behind(s, e, op, i) == {j \in Where(s, e, op) : j > i}

-----------------------------------------------------------------------------
(* Handlers in a sequence.                                                 *)

\* Sets of positions of which one is the other, moved by one, are as large.
LEMMA MovedByOne ==
  ASSUME NEW A \in SUBSET Nat, NEW B \in SUBSET Nat, IsFiniteSet(A),
         \A i \in A : i + 1 \in B, \A i \in B : i - 1 \in A
  PROVE  Cardinality(A) = Cardinality(B)
PROOF
  <1> DEFINE f == [i \in A |-> i + 1]
  <1>1. f \in Injection(A, B)
    BY DEF Injection, IsInjective
  <1>2. f \in Surjection(A, B)
    <2>1. \A j \in B : f[j - 1] = j
      OBVIOUS
    <2> QED BY <1>1, <2>1 DEF Surjection, Injection
  <1>3. ExistsBijection(A, B)
    BY <1>1, <1>2 DEF ExistsBijection, Bijection
  <1> QED BY <1>3, FS_Bijection

LEMMA Finite ==
  ASSUME NEW s \in Seq(Handlers), NEW e, NEW op
  PROVE  /\ IsFiniteSet(Where(s, e, op)) /\ Where(s, e, op) \subseteq 1 .. Len(s)
         /\ Cardinality(Where(s, e, op)) \in Nat
         /\ Cardinality(Where(s, e, op)) = 0 <=> Where(s, e, op) = {}
         /\ \A i : /\ IsFiniteSet(Behind(s, e, op, i))
                   /\ Cardinality(Behind(s, e, op, i)) \in Nat
PROOF
  <1>1. Where(s, e, op) \subseteq 1 .. Len(s) /\ Len(s) \in Nat
    BY DEF Where
  <1>2. IsFiniteSet(Where(s, e, op))
    <2>1. IsFiniteSet(1 .. Len(s))
      BY <1>1, FS_Interval
    <2> QED BY <1>1, <2>1, FS_Subset
  <1>3. ASSUME NEW i
        PROVE  IsFiniteSet(Behind(s, e, op, i)) /\ Cardinality(Behind(s, e, op, i)) \in Nat
    <2>1. Behind(s, e, op, i) \subseteq Where(s, e, op)
      BY DEF Behind
    <2>2. IsFiniteSet(Behind(s, e, op, i))
      BY <1>2, <2>1, FS_Subset
    <2> QED BY <2>2, FS_CardinalityType
  <1> QED BY <1>1, <1>2, <1>3, FS_CardinalityType, FS_EmptySet

LEMMA OneMore ==
  ASSUME NEW A, NEW B, NEW n, IsFiniteSet(A), n \notin A, B = A \cup {n}
  PROVE  Cardinality(B) = Cardinality(A) + 1
PROOF
  BY FS_AddElement

\* A handler is put behind all others.
LEMMA WhereAppended ==
  ASSUME NEW s \in Seq(Handlers), NEW h \in Handlers
  PROVE  LET n == Len(s) + 1
             r == Append(s, h)
             e == h.end
             op == h.op IN
         /\ Where(r, e, op) = Where(s, e, op) \cup {n} /\ r[n] = h
         /\ Cardinality(Where(r, e, op)) = Cardinality(Where(s, e, op)) + 1
         /\ Cardinality(Behind(r, e, op, n)) = 0
         /\ \A i \in Where(s, e, op) :
              /\ r[i] = s[i] /\ i < n
              /\ Cardinality(Behind(r, e, op, i)) = Cardinality(Behind(s, e, op, i)) + 1
PROOF
  <1> DEFINE n == Len(s) + 1
             r == Append(s, h)
             e == h.end
             op == h.op
  <1>1. /\ DOMAIN r = 1 .. n /\ DOMAIN s = 1 .. (n - 1) /\ r[n] = h /\ n \in Nat
        /\ \A i \in 1 .. (n - 1) : r[i] = s[i]
    OBVIOUS
  <1>2. Where(s, e, op) \subseteq 1 .. (n - 1)
    BY <1>1 DEF Where
  <1>3. Where(r, e, op) = Where(s, e, op) \cup {n} /\ n \notin Where(s, e, op)
    BY <1>1, <1>2 DEF Where
  <1> HIDE DEF n, r
  <1>4. Behind(r, e, op, n) = {}
    BY <1>1, <1>2, <1>3 DEF Behind
  <1>5. Cardinality(Where(r, e, op)) = Cardinality(Where(s, e, op)) + 1
    <2>1. IsFiniteSet(Where(s, e, op))
      BY Finite
    <2> QED BY <1>3, <2>1, OneMore
  <1>6. ASSUME NEW i \in Where(s, e, op)
        PROVE  Cardinality(Behind(r, e, op, i)) = Cardinality(Behind(s, e, op, i)) + 1
    <2>1. Behind(r, e, op, i) = Behind(s, e, op, i) \cup {n} /\ n \notin Behind(s, e, op, i)
      BY <1>1, <1>2, <1>3 DEF Behind
    <2>2. IsFiniteSet(Behind(s, e, op, i))
      BY Finite
    <2> QED BY <2>1, <2>2, OneMore
  <1>7. r[n] = h /\ \A i \in Where(s, e, op) : r[i] = s[i] /\ i < n
    BY <1>1, <1>2
  <1> QED BY <1>3, <1>4, <1>5, <1>6, <1>7, FS_EmptySet DEF n, r

LEMMA WhereOthersAppended ==
  ASSUME NEW s \in Seq(Handlers), NEW h \in Handlers, NEW e, NEW op, h.end # e \/ h.op # op
  PROVE  LET r == Append(s, h) IN
         /\ Where(r, e, op) = Where(s, e, op)
         /\ \A i \in Where(s, e, op) : /\ r[i] = s[i] /\ i \in 1 .. Len(s)
                                       /\ Behind(r, e, op, i) = Behind(s, e, op, i)
PROOF
  <1> DEFINE r == Append(s, h)
  <1>1. /\ DOMAIN r = 1 .. (Len(s) + 1) /\ DOMAIN s = 1 .. Len(s) /\ r[Len(s) + 1] = h
        /\ Len(s) \in Nat /\ \A i \in 1 .. Len(s) : r[i] = s[i]
    OBVIOUS
  <1>2. Where(s, e, op) \subseteq 1 .. Len(s)
    BY <1>1 DEF Where
  <1>3. Where(r, e, op) = Where(s, e, op)
    BY <1>1 DEF Where
  <1>4. \A i \in Where(s, e, op) : Behind(r, e, op, i) = Behind(s, e, op, i)
    BY <1>3 DEF Behind
  <1> QED BY <1>1, <1>2, <1>3, <1>4

\* The handler in front is taken out.
LEMMA WhereTaken ==
  ASSUME NEW s \in Seq(Handlers), s # <<>>, NEW e, NEW op
  PROVE  /\ \A i \in Where(Tail(s), e, op) :
              /\ i + 1 \in Where(s, e, op) /\ Tail(s)[i] = s[i + 1]
              /\ Cardinality(Behind(Tail(s), e, op, i)) = Cardinality(Behind(s, e, op, i + 1))
         /\ \A i \in Where(s, e, op) : i # 1 => i - 1 \in Where(Tail(s), e, op)
         /\ 1 \in Where(s, e, op) <=> Head(s).end = e /\ Head(s).op = op
         /\ 1 \in Where(s, e, op) =>
              /\ Cardinality(Where(s, e, op)) = Cardinality(Where(Tail(s), e, op)) + 1
              /\ Cardinality(Where(s, e, op)) = Cardinality(Behind(s, e, op, 1)) + 1
         /\ 1 \notin Where(s, e, op) =>
              Cardinality(Where(s, e, op)) = Cardinality(Where(Tail(s), e, op))
PROOF
  <1> DEFINE r == Tail(s)
  <1>1. /\ DOMAIN s = 1 .. Len(s) /\ DOMAIN r = 1 .. (Len(s) - 1) /\ Len(s) \in Nat \ {0}
        /\ r \in Seq(Handlers) /\ s[1] = Head(s) /\ \A i \in 1 .. (Len(s) - 1) : r[i] = s[i + 1]
    OBVIOUS
  <1> HIDE DEF r
  <1>2. \A i \in Where(r, e, op) : i \in 1 .. (Len(s) - 1) /\ i + 1 \in Where(s, e, op) /\ r[i] = s[i + 1]
    BY <1>1 DEF Where
  <1>3. ASSUME NEW i \in Where(s, e, op), i # 1 PROVE i - 1 \in Where(r, e, op)
    <2>1. i \in 1 .. Len(s) /\ i - 1 \in 1 .. (Len(s) - 1) /\ r[i - 1] = s[(i - 1) + 1] /\ (i - 1) + 1 = i
      BY <1>1, <1>3 DEF Where
    <2> QED BY <1>1, <1>3, <2>1 DEF Where
  <1>4. /\ Where(r, e, op) \in SUBSET Nat /\ Where(s, e, op) \in SUBSET (1 .. Len(s))
        /\ IsFiniteSet(Where(r, e, op)) /\ IsFiniteSet(Where(s, e, op))
    BY <1>1, Finite
  <1>5. ASSUME NEW i \in Where(r, e, op)
        PROVE  Cardinality(Behind(r, e, op, i)) = Cardinality(Behind(s, e, op, i + 1))
    <2> DEFINE A == Behind(r, e, op, i)
               B == Behind(s, e, op, i + 1)
    <2>1. A \in SUBSET Nat /\ B \in SUBSET Nat /\ IsFiniteSet(A)
      <3>1. IsFiniteSet(Behind(r, e, op, i))
        BY <1>1, Finite
      <3> QED BY <1>4, <3>1 DEF Behind
    <2>2. \A j \in A : j + 1 \in B
      BY <1>2, <1>4 DEF Behind
    <2>3. \A j \in B : j - 1 \in A
      BY <1>3, <1>4 DEF Behind
    <2> HIDE DEF A, B
    <2>4. Cardinality(A) = Cardinality(B)
      BY <2>1, <2>2, <2>3, MovedByOne
    <2> QED BY <2>4 DEF A, B
  <1>6. 1 \in Where(s, e, op) <=> Head(s).end = e /\ Head(s).op = op
    BY <1>1 DEF Where
  <1>7. Cardinality(Where(r, e, op)) = Cardinality(Where(s, e, op) \ {1})
    <2> DEFINE A == Where(r, e, op)
               B == Where(s, e, op) \ {1}
    <2>1. \A j \in A : j + 1 \in B
      BY <1>2
    <2>2. \A j \in B : j - 1 \in A
      BY <1>3
    <2>3. A \in SUBSET Nat /\ B \in SUBSET Nat /\ IsFiniteSet(A)
      BY <1>4
    <2> HIDE DEF A, B
    <2>4. Cardinality(A) = Cardinality(B)
      BY <2>1, <2>2, <2>3, MovedByOne
    <2> QED BY <2>4 DEF A, B
  <1>8. 1 \notin Where(s, e, op) => Where(s, e, op) \ {1} = Where(s, e, op)
    OBVIOUS
  <1>9. ASSUME 1 \in Where(s, e, op)
        PROVE  /\ Cardinality(Where(s, e, op)) = Cardinality(Where(r, e, op)) + 1
               /\ Cardinality(Where(s, e, op)) = Cardinality(Behind(s, e, op, 1)) + 1
    <2>1. Behind(s, e, op, 1) = Where(s, e, op) \ {1}
      BY <1>4 DEF Behind
    <2>2. Cardinality(Where(s, e, op) \ {1}) = Cardinality(Where(s, e, op)) - 1
      BY <1>4, <1>9, FS_RemoveElement
    <2>3. Cardinality(Where(s, e, op)) \in Nat
      BY <1>1, Finite
    <2> DEFINE n == Cardinality(Where(s, e, op))
               m == Cardinality(Where(s, e, op) \ {1})
    <2>4. n \in Nat /\ m = n - 1
      BY <2>2, <2>3
    <2>5. Cardinality(Where(r, e, op)) = m /\ Cardinality(Behind(s, e, op, 1)) = m
      BY <1>7, <2>1, Zenon
    <2> HIDE DEF n, m
    <2>6. n = m + 1
      BY <2>4
    <2> QED BY <2>5, <2>6, Zenon DEF n
  <1> HIDE DEF Where, Behind
  <1>10. 1 \notin Where(s, e, op) => Cardinality(Where(s, e, op)) = Cardinality(Where(r, e, op))
    BY <1>7, <1>8
  <1>11. \A i \in Where(r, e, op) :
           /\ i + 1 \in Where(s, e, op) /\ r[i] = s[i + 1]
           /\ Cardinality(Behind(r, e, op, i)) = Cardinality(Behind(s, e, op, i + 1))
    BY <1>2, <1>5
  <1>12. \A i \in Where(s, e, op) : i # 1 => i - 1 \in Where(r, e, op)
    BY <1>3
  <1> QED BY <1>6, <1>9, <1>10, <1>11, <1>12 DEF r
LEMMA WhereShifted ==
  ASSUME NEW s \in Seq(Handlers), s # <<>>, NEW e, NEW op, NEW i \in Where(Tail(s), e, op)
  PROVE  /\ i + 1 \in Where(s, e, op) /\ Tail(s)[i] = s[i + 1]
         /\ Cardinality(Behind(Tail(s), e, op, i)) = Cardinality(Behind(s, e, op, i + 1))
PROOF
  <1>1. i + 1 \in Where(s, e, op)
    BY WhereTaken
  <1>2. Tail(s)[i] = s[i + 1]
    <2>1. Tail(s) \in Seq(Handlers) /\ \A j \in 1 .. Len(Tail(s)) : Tail(s)[j] = s[j + 1]
      OBVIOUS
    <2>2. i \in 1 .. Len(Tail(s))
      BY <2>1, Finite
    <2> QED BY <2>1, <2>2
  <1>3. Cardinality(Behind(Tail(s), e, op, i)) = Cardinality(Behind(s, e, op, i + 1))
    BY WhereTaken
  <1> QED BY <1>1, <1>2, <1>3

-----------------------------------------------------------------------------
(* The inductive invariant.                                                *)

\* The handlers of e in its strand, how many there are, and how many of them are
\* behind the i-th.
Of(e) == strand[StrandOf[e]]
W(e, op) == Where(Of(e), e, op)
N(e, op) == Cardinality(W(e, op))
Later(e, op, i) == Cardinality(Behind(Of(e), e, op, i))

\* Handlers are posted by Connections, each to its own strand, and a message is
\* posted only if it may be sent.
Posts ==
  \A s \in Strands : \A i \in DOMAIN strand[s] :
    /\ strand[s][i].end \in Ends \ plain /\ StrandOf[strand[s][i].end] = s
    /\ strand[s][i].op = "send" => strand[s][i].message \in Sendable

\* A socket is closed by the one DoClose that reports it.
Closing(e) ==
  /\ socket[e].open <=> conn[e].closer = "nobody"
  /\ conn[e].closer # "done" => notified[e] = 0

\* Of what e has sent, the messages before Base(e) have been written; those after
\* it are in sendQueue, and then in the handlers of Send.
Base(e) == Len(sent[e]) - N(e, "send") - Len(conn[e].sendQueue)
Queued(e) ==
  /\ Base(e) >= 0
  /\ \A k \in DOMAIN conn[e].sendQueue : conn[e].sendQueue[k] = sent[e][Base(e) + k]
  /\ \A i \in W(e, "send") : Of(e)[i].message = sent[e][Len(sent[e]) - Later(e, "send", i)]

\* What a write has still to do for its message.
Part(part, m) == [part |-> part, message |-> m]
Rests(m) == {Frame(m), <<Part("data", m)>>, <<>>}
Writes(e, n) ==
  socket[e].writing # <<>> => n \in DOMAIN sent[e] /\ socket[e].writing[1] \in Rests(sent[e][n])

WriterOK(e) ==
  /\ Len(socket[e].writing) + N(e, "written") <= 1
  /\ socket[e].writing # <<>> \/ N(e, "written") # 0 => conn[e].sendQueue # <<>>
  /\ conn[e].sendQueue # <<>> /\ conn[e].closer = "nobody" =>
       Len(socket[e].writing) + N(e, "written") = 1
  /\ socket[e].open => Queued(e) /\ Writes(e, Base(e) + 1)

\* The chain of reads; a message is handed over before the next is complete.
Links(e) == (IF socket[e].reading # "none" THEN 1 ELSE 0)
          + (IF reader[e] # "none" THEN 1 ELSE 0) + N(e, "start") + N(e, "body")
Handed(e) == Len(received[e]) + N(e, "deliver")
SentTo(e) == sent[Peer[e]]
Comes(e, n) == n \in DOMAIN SentTo(e) /\ SentTo(e)[n].size <= MaxMessageSize

ReaderOK(e) ==
  /\ Links(e) <= 1
  /\ conn[e].started /\ conn[e].closer = "nobody" => Links(e) = 1
  /\ ~conn[e].started => Links(e) = 0
  /\ N(e, "deliver") <= 1
  /\ \A i \in W(e, "deliver"), j \in W(e, "body") : i < j

\* What e has read last is the next of what its peer has sent.
Chain(e) ==
  /\ reader[e] = "ok" => /\ Handed(e) + 1 \in DOMAIN SentTo(e)
                         /\ conn[e].size = SentTo(e)[Handed(e) + 1].size
  /\ socket[e].reading = "data" => Comes(e, Handed(e) + 1)
  /\ \A i \in W(e, "body") :
       Of(e)[i].ok => Comes(e, Handed(e) + 1) /\ conn[e].data = SentTo(e)[Handed(e) + 1]
  /\ \A i \in W(e, "deliver") :
       /\ Comes(e, Len(received[e]) + 1)
       /\ Of(e)[i].message = SentTo(e)[Len(received[e]) + 1]

\* How many parts e has written, and how many e has read: what the system holds
\* for e lies between, unless a read has failed or an end has closed.
Put(e) ==
  IF e \in plain
  THEN 2 * Len(sent[e]) - (IF socket[e].writing # <<>> THEN Len(socket[e].writing[1]) ELSE 0)
  ELSE 2 * Base(e) + (IF socket[e].writing # <<>> THEN 2 - Len(socket[e].writing[1])
                      ELSE IF N(e, "written") # 0 THEN 2 ELSE 0)
HasRead(e) ==
  2 * Handed(e) + (IF reader[e] = "ok" \/ socket[e].reading = "data" THEN 1
                   ELSE IF N(e, "body") # 0 THEN 2 ELSE 0)
Failed(e) ==
  \/ reader[e] = "error"
  \/ N(e, "body") # 0 /\ \A i \in W(e, "body") : ~Of(e)[i].ok

Holds(e) ==
  /\ HasRead(e) + Len(socket[e].unread) <= 2 * Len(SentTo(e))
  /\ \A j \in DOMAIN socket[e].unread : \A k \in DOMAIN SentTo(e) :
       /\ HasRead(e) + j = 2 * k - 1 => socket[e].unread[j] = Part("size", SentTo(e)[k])
       /\ HasRead(e) + j = 2 * k => socket[e].unread[j] = Part("data", SentTo(e)[k])
Wire(e) ==
  socket[e].open /\ ~Failed(e) =>
    Holds(e) /\ (socket[Peer[e]].open => HasRead(e) + Len(socket[e].unread) = Put(Peer[e]))

PlainOK(e) ==
  /\ socket[e].reading = "none" /\ reader[e] = "none"
  /\ Len(socket[e].writing) <= 1
  /\ socket[e].open => Writes(e, Len(sent[e]))

ConnectionOK(e) == Closing(e) /\ WriterOK(e) /\ ReaderOK(e) /\ Chain(e) /\ Wire(e)
EndOK(e) == IF e \in plain THEN PlainOK(e) ELSE ConnectionOK(e)

IInv == TypeOK /\ Posts /\ \A e \in Ends : EndOK(e)
-----------------------------------------------------------------------------
(* What a step does to the handlers of an end.                             *)

\* Those with op are the same, and in the same order, d places further to the front.
Kept(q, r, e, op, d) ==
  /\ Cardinality(Where(r, e, op)) = Cardinality(Where(q, e, op))
  /\ \A i \in Where(r, e, op) :
       /\ i + d \in Where(q, e, op) /\ r[i] = q[i + d]
       /\ Cardinality(Behind(r, e, op, i)) = Cardinality(Behind(q, e, op, i + d))

KeptOps(x, ops) == \E d \in {0, 1} : \A op \in ops : Kept(Of(x), Of(x)', x, op, d)

LEMMA NothingChanged ==
  ASSUME NEW q \in Seq(Handlers), NEW x, NEW op
  PROVE  Kept(q, q, x, op, 0)
PROOF
  <1>1. \A i \in Where(q, x, op) : i + 0 = i
    BY Finite
  <1> QED BY <1>1 DEF Kept

LEMMA KeptWhenAppended ==
  ASSUME NEW q \in Seq(Handlers), NEW h \in Handlers, NEW x, NEW op, h.end # x \/ h.op # op
  PROVE  Kept(q, Append(q, h), x, op, 0)
PROOF
  <1> DEFINE r == Append(q, h)
  <1>1. /\ Where(r, x, op) = Where(q, x, op)
        /\ \A i \in Where(q, x, op) : r[i] = q[i] /\ Behind(r, x, op, i) = Behind(q, x, op, i)
    BY WhereOthersAppended
  <1>2. \A i \in Where(q, x, op) : i + 0 = i
    BY Finite
  <1> HIDE DEF r
  <1>3. Kept(q, r, x, op, 0)
    BY <1>1, <1>2 DEF Kept
  <1> QED BY <1>3 DEF r

LEMMA KeptWhenTaken ==
  ASSUME NEW q \in Seq(Handlers), q # <<>>, NEW x, NEW op, Head(q).end # x \/ Head(q).op # op
  PROVE  Kept(q, Tail(q), x, op, 1)
PROOF
  <1> DEFINE r == Tail(q)
  <1>1. 1 \notin Where(q, x, op)
    BY WhereTaken
  <1>2. Cardinality(Where(q, x, op)) = Cardinality(Where(r, x, op))
    BY <1>1, WhereTaken
  <1>3. \A i \in Where(r, x, op) :
          /\ i + 1 \in Where(q, x, op) /\ r[i] = q[i + 1]
          /\ Cardinality(Behind(r, x, op, i)) = Cardinality(Behind(q, x, op, i + 1))
    BY WhereShifted, ZenonT(30)
  <1> HIDE DEF r
  <1>4. Kept(q, r, x, op, 1)
    BY <1>2, <1>3 DEF Kept
  <1> QED BY <1>4 DEF r

LEMMA KeptWhenMoved ==
  ASSUME NEW q \in Seq(Handlers), NEW h \in Handlers, q # <<>>, NEW x, NEW op,
         Head(q).end # x \/ Head(q).op # op, h.end # x \/ h.op # op
  PROVE  Kept(q, Append(Tail(q), h), x, op, 1)
PROOF
  <1> DEFINE t == Tail(q)
             r == Append(t, h)
  <1>1. t \in Seq(Handlers)
    OBVIOUS
  <1>2. Kept(q, t, x, op, 1)
    BY KeptWhenTaken
  <1> HIDE DEF t
  <1>3. /\ Where(r, x, op) = Where(t, x, op)
        /\ \A i \in Where(t, x, op) : r[i] = t[i] /\ Behind(r, x, op, i) = Behind(t, x, op, i)
    BY <1>1, WhereOthersAppended
  <1> HIDE DEF r
  <1>4. Kept(q, r, x, op, 1)
    BY <1>2, <1>3 DEF Kept
  <1> QED BY <1>4 DEF r, t

\* The shape of the strands that the lemmas below need.
StrandsOK == strand \in [Strands -> Seq(Handlers)]

LEMMA StrandOfEnd ==
  ASSUME StrandsOK, NEW x \in Ends
  PROVE  StrandOf[x] \in Strands /\ Of(x) \in Seq(Handlers)
PROOF
  BY DEF StrandsOK, Strands, Of

LEMMA SameKeeps ==
  ASSUME StrandsOK, NEW x \in Ends, NEW ops, Of(x)' = Of(x)
  PROVE  KeptOps(x, ops)
PROOF
  <1>1. Of(x) \in Seq(Handlers)
    BY StrandOfEnd
  <1>2. \A op \in ops : Kept(Of(x), Of(x), x, op, 0)
    BY <1>1, NothingChanged
  <1> QED BY <1>2 DEF KeptOps

LEMMA PostKeeps ==
  ASSUME StrandsOK, NEW e \in Ends, NEW h \in Handlers, strand' = Posted(strand, e, h),
         NEW x \in Ends, NEW ops, h.end # x \/ h.op \notin ops
  PROVE  KeptOps(x, ops)
PROOF
  <1>1. Of(x) \in Seq(Handlers) /\ StrandOf[x] \in Strands
    BY StrandOfEnd
  <1>2. CASE StrandOf[x] = StrandOf[e]
    <2>1. Of(x)' = Append(Of(x), h)
      BY <1>1, <1>2 DEF Of, Posted, StrandsOK
    <2>2. \A op \in ops : Kept(Of(x), Append(Of(x), h), x, op, 0)
      BY <1>1, KeptWhenAppended
    <2> QED BY <2>1, <2>2 DEF KeptOps
  <1>3. CASE StrandOf[x] # StrandOf[e]
    <2>1. Of(x)' = Of(x)
      BY <1>1, <1>3 DEF Of, Posted, StrandsOK
    <2> QED BY <2>1, SameKeeps
  <1> QED BY <1>2, <1>3

LEMMA FinishKeeps ==
  ASSUME StrandsOK, NEW s \in Strands, strand[s] # <<>>, strand' = Finished(s),
         NEW x \in Ends, NEW ops, Head(strand[s]).end # x \/ Head(strand[s]).op \notin ops
  PROVE  KeptOps(x, ops)
PROOF
  <1>1. Of(x) \in Seq(Handlers) /\ StrandOf[x] \in Strands
    BY StrandOfEnd
  <1>2. CASE StrandOf[x] = s
    <2>1. Of(x)' = Tail(Of(x)) /\ Of(x) # <<>> /\ Head(Of(x)) = Head(strand[s])
      BY <1>1, <1>2 DEF Of, Finished, StrandsOK
    <2>2. \A op \in ops : Kept(Of(x), Tail(Of(x)), x, op, 1)
      BY <1>1, <2>1, KeptWhenTaken
    <2> QED BY <2>1, <2>2 DEF KeptOps
  <1>3. CASE StrandOf[x] # s
    <2>1. Of(x)' = Of(x)
      BY <1>1, <1>3 DEF Of, Finished, StrandsOK
    <2> QED BY <2>1, SameKeeps
  <1> QED BY <1>2, <1>3

\* The front handler is taken out, and another one of the same end posted.
LEMMA MoveKeeps ==
  ASSUME StrandsOK, NEW s \in Strands, strand[s] # <<>>, NEW e \in Ends, StrandOf[e] = s,
         Head(strand[s]).end = e, NEW h \in Handlers, h.end = e,
         strand' = Posted(Finished(s), e, h), NEW x \in Ends, NEW ops,
         e # x \/ (Head(strand[s]).op \notin ops /\ h.op \notin ops)
  PROVE  KeptOps(x, ops)
PROOF
  <1>1. Of(x) \in Seq(Handlers) /\ StrandOf[x] \in Strands
    BY StrandOfEnd
  <1>2. CASE StrandOf[x] = s
    <2>1. Of(x)' = Append(Tail(Of(x)), h) /\ Of(x) # <<>> /\ Head(Of(x)) = Head(strand[s])
      BY <1>1, <1>2 DEF Of, Posted, Finished, StrandsOK
    <2>2. \A op \in ops : Kept(Of(x), Append(Tail(Of(x)), h), x, op, 1)
      BY <1>1, <2>1, KeptWhenMoved
    <2> QED BY <2>1, <2>2 DEF KeptOps
  <1>3. CASE StrandOf[x] # s
    <2>1. Of(x)' = Of(x)
      BY <1>1, <1>3 DEF Of, Posted, Finished, StrandsOK
    <2> QED BY <2>1, SameKeeps
  <1> QED BY <1>2, <1>3
-----------------------------------------------------------------------------
(* What is kept of an end that a step does not touch.                      *)

LEMMA CountsKept ==
  ASSUME NEW x, NEW ops, KeptOps(x, ops), NEW op \in ops
  PROVE  /\ N(x, op)' = N(x, op)
         /\ \A i \in W(x, op)' :
              \E j \in W(x, op) : Of(x)'[i] = Of(x)[j] /\ Later(x, op, i)' = Later(x, op, j)
PROOF
  <1>1. PICK d \in {0, 1} : Kept(Of(x), Of(x)', x, op, d)
    BY DEF KeptOps
  <1> QED BY <1>1 DEF Kept, N, W, Later

LEMMA FewerKept ==
  ASSUME NEW x, NEW ops, KeptOps(x, ops), NEW some, some \subseteq ops
  PROVE  KeptOps(x, some)
PROOF
  BY DEF KeptOps

\* Of(x) as a sequence and N as a number.
LEMMA Counts ==
  ASSUME StrandsOK, NEW x \in Ends, NEW op
  PROVE  /\ Of(x) \in Seq(Handlers) /\ N(x, op) \in Nat /\ W(x, op) \subseteq 1 .. Len(Of(x))
         /\ N(x, op) = 0 <=> W(x, op) = {}
         /\ \A i \in W(x, op) : /\ Of(x)[i] \in Handlers /\ Of(x)[i].end = x /\ Of(x)[i].op = op
                                /\ Later(x, op, i) \in Nat
PROOF
  <1>1. Of(x) \in Seq(Handlers)
    BY StrandOfEnd
  <1>2. /\ Where(Of(x), x, op) \subseteq 1 .. Len(Of(x))
        /\ Cardinality(Where(Of(x), x, op)) \in Nat
        /\ Cardinality(Where(Of(x), x, op)) = 0 <=> Where(Of(x), x, op) = {}
        /\ \A i : Cardinality(Behind(Of(x), x, op, i)) \in Nat
    BY <1>1, Finite
  <1>3. \A i \in Where(Of(x), x, op) : Of(x)[i] \in Handlers
    BY <1>1, <1>2
  <1>4. \A i \in Where(Of(x), x, op) : Of(x)[i].end = x /\ Of(x)[i].op = op
    BY DEF Where
  <1> QED BY <1>1, <1>2, <1>3, <1>4 DEF N, W, Later

LEMMA LaterCount ==
  ASSUME StrandsOK, NEW x \in Ends, NEW op, NEW i \in W(x, op)
  PROVE  Later(x, op, i) \in Nat /\ Later(x, op, i) < N(x, op)
PROOF
  <1> DEFINE A == Where(Of(x), x, op)
             B == Behind(Of(x), x, op, i)
  <1>1. IsFiniteSet(A) /\ A \subseteq 1 .. Len(Of(x)) /\ Cardinality(A) \in Nat
        /\ Cardinality(B) \in Nat
    BY Finite, StrandOfEnd
  <1>2. i \in A /\ i \notin B /\ B \subseteq A
    BY <1>1 DEF Behind, W
  <1> HIDE DEF A, B
  <1>3. Cardinality(B) <= Cardinality(A) /\ (Cardinality(A) = Cardinality(B) => A = B)
    BY <1>1, <1>2, FS_Subset
  <1>4. Cardinality(B) < Cardinality(A)
    BY <1>1, <1>2, <1>3
  <1> QED BY <1>1, <1>4 DEF Later, N, W, A, B

WriterUntouched(e) ==
  /\ KeptOps(e, {"send", "written"})
  /\ conn'[e].sendQueue = conn[e].sendQueue /\ socket'[e].writing = socket[e].writing
  /\ sent'[e] = sent[e]
  /\ socket'[e].open => socket[e].open
  /\ conn'[e].closer = "nobody" => conn[e].closer = "nobody"

LEMMA WriterKept ==
  ASSUME NEW e \in Ends, WriterOK(e), WriterUntouched(e)
  PROVE  WriterOK(e)'
PROOF
  <1> USE DEF WriterUntouched
  <1>1. /\ N(e, "send")' = N(e, "send") /\ N(e, "written")' = N(e, "written")
        /\ \A i \in W(e, "send")' : \E j \in W(e, "send") :
             Of(e)'[i] = Of(e)[j] /\ Later(e, "send", i)' = Later(e, "send", j)
    BY CountsKept
  <1>2. Base(e)' = Base(e)
    BY <1>1 DEF Base
  <1>3. Queued(e) => Queued(e)'
    BY <1>1, <1>2 DEF Queued
  <1>4. Writes(e, Base(e) + 1) => Writes(e, Base(e) + 1)'
    BY <1>2 DEF Writes
  <1> QED BY <1>1, <1>3, <1>4 DEF WriterOK

LEMMA PutKept ==
  ASSUME NEW e \in Ends, WriterUntouched(e), plain' = plain
  PROVE  Put(e)' = Put(e)
PROOF
  <1> USE DEF WriterUntouched
  <1>1. N(e, "send")' = N(e, "send") /\ N(e, "written")' = N(e, "written")
    BY CountsKept
  <1> QED BY <1>1 DEF Put, Base

ReaderUntouched(e) ==
  /\ KeptOps(e, {"start", "body", "deliver"})
  /\ conn'[e].started = conn[e].started /\ conn'[e].size = conn[e].size
  /\ conn'[e].data = conn[e].data
  /\ conn'[e].closer = "nobody" => conn[e].closer = "nobody"
  /\ socket'[e].reading = socket[e].reading /\ reader'[e] = reader[e]
  /\ received'[e] = received[e]

LEMMA ReaderKept ==
  ASSUME StrandsOK, StrandsOK', NEW e \in Ends, ReaderOK(e), ReaderUntouched(e)
  PROVE  ReaderOK(e)'
PROOF
  <1> USE DEF ReaderUntouched
  <1>1. /\ N(e, "start")' = N(e, "start") /\ N(e, "body")' = N(e, "body")
        /\ N(e, "deliver")' = N(e, "deliver")
    BY CountsKept
  <1>2. \A i \in W(e, "deliver")', j \in W(e, "body")' : i < j
    <2>1. PICK d \in {0, 1} :
            \A op \in {"start", "body", "deliver"} : Kept(Of(e), Of(e)', e, op, d)
      BY DEF KeptOps
    <2>2. \A i \in W(e, "deliver")' : i + d \in W(e, "deliver")
      BY <2>1 DEF Kept, W
    <2>3. \A j \in W(e, "body")' : j + d \in W(e, "body")
      BY <2>1 DEF Kept, W
    <2>4. Of(e)' \in Seq(Handlers)
      BY DEF StrandsOK, Strands, Of
    <2>5. W(e, "deliver")' \subseteq Int /\ W(e, "body")' \subseteq Int
      BY <2>4, Finite DEF W
    <2> QED BY <2>2, <2>3, <2>5 DEF ReaderOK
  <1>3. Links(e)' = Links(e)
    BY <1>1 DEF Links
  <1> QED BY <1>1, <1>2, <1>3 DEF ReaderOK

\* What has been sent only grows.
Extends(q, r) == Len(q) <= Len(r) /\ \A n \in 1 .. Len(q) : r[n] = q[n]

\* The parts of the state as sequences and records.
LEMMA Typed ==
  ASSUME TypeOK, NEW e \in Ends
  PROVE  /\ StrandsOK /\ Peer[e] \in Ends /\ Peer[e] # e /\ Peer[Peer[e]] = e
         /\ conn[e].sendQueue \in Seq(Sendable) /\ conn[e].size \in Nat
         /\ conn[e].started \in BOOLEAN
         /\ socket[e].open \in BOOLEAN
         /\ socket[e].writing \in Seq(Seq(Bytes)) /\ socket[e].unread \in Seq(Bytes)
         /\ sent[e] \in Seq(Messages) /\ received[e] \in Seq(Messages)
         /\ sent[Peer[e]] \in Seq(Messages)
PROOF
  <1>1. Peer[e] \in Ends /\ Peer[e] # e /\ Peer[Peer[e]] = e
    BY EndsAssumption
  <1>2. received[e] \in Seq(Messages)
    <2>1. received[e] \in Seq({m \in Messages : m.size <= MaxMessageSize})
      BY DEF TypeOK
    <2> QED BY <2>1
  <1>3. /\ conn[e].sendQueue \in Seq(Sendable) /\ conn[e].size \in Nat
        /\ conn[e].started \in BOOLEAN
    BY DEF TypeOK
  <1>4. /\ socket[e].open \in BOOLEAN
        /\ socket[e].writing \in Seq(Seq(Bytes)) /\ socket[e].unread \in Seq(Bytes)
    BY DEF TypeOK
  <1>5. StrandsOK /\ sent[e] \in Seq(Messages) /\ sent[Peer[e]] \in Seq(Messages)
    BY <1>1 DEF TypeOK, StrandsOK
  <1> QED BY <1>1, <1>2, <1>3, <1>4, <1>5

LEMMA ExtendsIsPrefix ==
  ASSUME NEW q \in Seq(Messages), NEW r \in Seq(Messages), Extends(q, r)
  PROVE  /\ \A n \in DOMAIN q : n \in DOMAIN r /\ r[n] = q[n]
         /\ Len(q) \in Nat /\ Len(r) \in Nat /\ Len(q) <= Len(r)
         /\ DOMAIN q = 1 .. Len(q) /\ DOMAIN r = 1 .. Len(r)
PROOF
  BY DEF Extends

\* Handlers are taken, but none is new, except of reads that failed.
NoneNew(e, op) == \A i \in W(e, op)' : \E j \in W(e, op) : Of(e)'[i] = Of(e)[j]
NoneSucceeds(e) ==
  \A i \in W(e, "body")' : Of(e)'[i].ok => \E j \in W(e, "body") : Of(e)'[i] = Of(e)[j]

ChainUntouched(e) ==
  /\ N(e, "deliver")' = N(e, "deliver") /\ NoneNew(e, "deliver") /\ NoneSucceeds(e)
  /\ conn'[e].size = conn[e].size /\ conn'[e].data = conn[e].data
  /\ received'[e] = received[e]
  /\ reader'[e] = "ok" => reader[e] = "ok"
  /\ socket'[e].reading = "data" => socket[e].reading = "data"

WireUntouched(e) ==
  /\ ChainUntouched(e) /\ NoneNew(e, "body")
  /\ N(e, "body")' = N(e, "body")
  /\ reader[e] = "ok" => reader'[e] = "ok"
  /\ reader[e] = "error" => reader'[e] = "error"
  /\ socket[e].reading = "data" => socket'[e].reading = "data"
  /\ socket'[e].unread = socket[e].unread
  /\ socket'[e].open => socket[e].open

LEMMA ReaderIsUntouched ==
  ASSUME NEW e \in Ends, ReaderUntouched(e), socket'[e].unread = socket[e].unread,
         socket'[e].open => socket[e].open
  PROVE  WireUntouched(e)
PROOF
  <1>1. /\ N(e, "deliver")' = N(e, "deliver") /\ N(e, "body")' = N(e, "body")
        /\ NoneNew(e, "deliver") /\ NoneNew(e, "body")
    BY CountsKept DEF ReaderUntouched, NoneNew
  <1>2. NoneSucceeds(e)
    BY <1>1 DEF NoneNew, NoneSucceeds
  <1> QED BY <1>1, <1>2 DEF ReaderUntouched, ChainUntouched, WireUntouched

LEMMA ChainKept ==
  ASSUME TypeOK, TypeOK', NEW e \in Ends, Chain(e), ChainUntouched(e),
         Extends(sent[Peer[e]], sent'[Peer[e]])
  PROVE  Chain(e)'
PROOF
  <1> USE DEF ChainUntouched
  <1>1. /\ Handed(e)' = Handed(e)
        /\ \A i \in W(e, "body")' : Of(e)'[i].ok =>
             \E j \in W(e, "body") : Of(e)'[i] = Of(e)[j]
        /\ \A i \in W(e, "deliver")' : \E j \in W(e, "deliver") : Of(e)'[i] = Of(e)[j]
    BY DEF Handed, NoneNew, NoneSucceeds
  <1>2. \A n \in DOMAIN SentTo(e) : n \in DOMAIN SentTo(e)' /\ SentTo(e)'[n] = SentTo(e)[n]
    <2>1. sent[Peer[e]] \in Seq(Messages) /\ sent'[Peer[e]] \in Seq(Messages)
      BY EndsAssumption DEF TypeOK
    <2> QED BY <2>1, ExtendsIsPrefix DEF SentTo
  <1>3. \A n : Comes(e, n) => Comes(e, n)' /\ SentTo(e)'[n] = SentTo(e)[n]
    BY <1>2 DEF Comes
  <1>4. \A i \in W(e, "body")' : Of(e)'[i].ok =>
          Comes(e, Handed(e) + 1)' /\ conn'[e].data = SentTo(e)'[Handed(e)' + 1]
    BY <1>1, <1>3 DEF Chain
  <1>5. \A i \in W(e, "deliver")' :
          /\ Comes(e, Len(received[e]) + 1)'
          /\ Of(e)'[i].message = SentTo(e)'[Len(received'[e]) + 1]
    BY <1>1, <1>3 DEF Chain
  <1>6. socket'[e].reading = "data" => Comes(e, Handed(e) + 1)'
    BY <1>1, <1>3 DEF Chain
  <1>7. reader'[e] = "ok" => /\ Handed(e)' + 1 \in DOMAIN SentTo(e)'
                            /\ conn'[e].size = SentTo(e)'[Handed(e)' + 1].size
    BY <1>1, <1>2 DEF Chain
  <1> QED BY <1>4, <1>5, <1>6, <1>7 DEF Chain

\* What is held for e stays the same, although e may have gone on.
LEMMA WireSame ==
  ASSUME TypeOK, TypeOK', NEW e \in Ends, Wire(e),
         HasRead(e)' = HasRead(e), Failed(e) => Failed(e)',
         socket'[e].unread = socket[e].unread, socket'[e].open => socket[e].open,
         Extends(sent[Peer[e]], sent'[Peer[e]]),
         socket'[Peer[e]].open /\ socket'[e].open =>
           socket[Peer[e]].open /\ Put(Peer[e])' = Put(Peer[e])
  PROVE  Wire(e)'
PROOF
  <1>2. HasRead(e)' = HasRead(e)
    OBVIOUS
  <1>4. ASSUME Holds(e) PROVE Holds(e)'
    <2>1. sent[Peer[e]] \in Seq(Messages) /\ sent'[Peer[e]] \in Seq(Messages)
      BY EndsAssumption DEF TypeOK
    <2>2. /\ Len(SentTo(e)) \in Nat /\ Len(SentTo(e)') \in Nat /\ Len(SentTo(e)) <= Len(SentTo(e)')
          /\ \A k \in DOMAIN SentTo(e) : SentTo(e)'[k] = SentTo(e)[k]
          /\ DOMAIN SentTo(e) = 1 .. Len(SentTo(e)) /\ DOMAIN SentTo(e)' = 1 .. Len(SentTo(e)')
      BY <2>1, ExtendsIsPrefix DEF SentTo
    <2>3. HasRead(e) \in Int /\ Len(socket[e].unread) \in Nat
          /\ DOMAIN socket[e].unread = 1 .. Len(socket[e].unread)
      <3>1. Len(received[e]) \in Nat /\ N(e, "deliver") \in Nat
        BY Typed, Counts
      <3>2. Handed(e) \in Int
        BY <3>1 DEF Handed
      <3>3. HasRead(e) \in Int
        BY <3>2 DEF HasRead
      <3> QED BY <3>3, Typed
    <2>4. HasRead(e)' + Len(socket'[e].unread) <= 2 * Len(SentTo(e)')
      BY <1>2, <1>4, <2>2, <2>3 DEF Holds
    <2>5. ASSUME NEW j \in DOMAIN socket'[e].unread, NEW k \in DOMAIN SentTo(e)',
                 HasRead(e)' + j = 2 * k - 1 \/ HasRead(e)' + j = 2 * k
          PROVE  k \in DOMAIN SentTo(e)
      <3>1. j \in Int /\ j <= Len(socket[e].unread) /\ k \in Int /\ k >= 1
        BY <2>2, <2>3
      <3>2. Len(SentTo(e)) \in Nat /\ HasRead(e) \in Int
        BY <2>2, <2>3
      <3>3. 2 * k <= HasRead(e) + j + 1
        BY <1>2, <2>5, <3>1, <3>2
      <3>4. HasRead(e) + j <= 2 * Len(SentTo(e))
        BY <1>4, <2>3, <3>1, <3>2 DEF Holds
      <3>5. k <= Len(SentTo(e))
        BY <3>1, <3>2, <3>3, <3>4
      <3> QED BY <2>2, <3>1, <3>5
    <2> QED BY <1>2, <1>4, <2>2, <2>4, <2>5 DEF Holds
  <1> QED BY <1>2, <1>4 DEF Wire

LEMMA WireKept ==
  ASSUME TypeOK, TypeOK', NEW e \in Ends, Wire(e), WireUntouched(e),
         Extends(sent[Peer[e]], sent'[Peer[e]]),
         socket'[Peer[e]].open /\ socket'[e].open =>
           socket[Peer[e]].open /\ Put(Peer[e])' = Put(Peer[e])
  PROVE  Wire(e)'
PROOF
  <1> USE DEF ChainUntouched, WireUntouched
  <1>1. N(e, "body")' = N(e, "body") /\ N(e, "deliver")' = N(e, "deliver")
    OBVIOUS
  <1>2. HasRead(e)' = HasRead(e)
    BY <1>1 DEF HasRead, Handed
  <1>3. Failed(e) => Failed(e)'
    <2>1. \A i \in W(e, "body")' : \E j \in W(e, "body") : Of(e)'[i] = Of(e)[j]
      BY DEF NoneNew
    <2> QED BY <1>1, <2>1 DEF Failed
  <1> QED BY <1>2, <1>3, WireSame

\* An end that a step leaves alone, although its strand may move, and one of which
\* the other end sees no more than that it has sent something, or closed.
Untouched(x) ==
  /\ conn'[x] = conn[x] /\ socket'[x] = socket[x] /\ reader'[x] = reader[x]
  /\ sent'[x] = sent[x] /\ received'[x] = received[x] /\ notified'[x] = notified[x]
  /\ KeptOps(x, Ops)
SenderKept(e) ==
  /\ Extends(sent[e], sent'[e])
  /\ socket'[e].open => socket[e].open
  /\ socket'[e].open /\ socket'[Peer[e]].open => Put(e)' = Put(e)

LEMMA SidesUntouched ==
  ASSUME NEW x, Untouched(x)
  PROVE  WriterUntouched(x) /\ ReaderUntouched(x)
PROOF
  <1>1. KeptOps(x, {"send", "written"}) /\ KeptOps(x, {"start", "body", "deliver"})
    BY FewerKept DEF Untouched, Ops
  <1> QED BY <1>1 DEF Untouched, WriterUntouched, ReaderUntouched

LEMMA UntouchedSender ==
  ASSUME TypeOK, plain' = plain, NEW x \in Ends, Untouched(x)
  PROVE  SenderKept(x)
PROOF
  <1>1. Put(x)' = Put(x)
    BY SidesUntouched, PutKept
  <1>2. Extends(sent[x], sent[x])
    BY Typed DEF Extends
  <1> QED BY <1>1, <1>2 DEF SenderKept, Untouched

LEMMA OthersKept ==
  ASSUME TypeOK, TypeOK', plain' = plain, NEW x \in Ends, EndOK(x), Untouched(x),
         SenderKept(Peer[x])
  PROVE  EndOK(x)'
PROOF
  <1>1. CASE x \in plain
    <2>1. PlainOK(x) /\ socket'[x] = socket[x] /\ reader'[x] = reader[x] /\ sent'[x] = sent[x]
      BY <1>1 DEF EndOK, Untouched
    <2>2. PlainOK(x)'
      BY <2>1 DEF PlainOK, Writes
    <2> QED BY <1>1, <2>2 DEF EndOK
  <1>2. CASE x \notin plain
    <2>1. ConnectionOK(x) /\ WriterUntouched(x) /\ ReaderUntouched(x)
      BY <1>2, SidesUntouched DEF EndOK
    <2>2. StrandsOK /\ StrandsOK' /\ Peer[x] \in Ends /\ Peer[Peer[x]] = x
      BY EndsAssumption DEF TypeOK, StrandsOK
    <2>3. Closing(x)'
      BY <2>1 DEF ConnectionOK, Closing, Untouched
    <2>4. WriterOK(x)'
      BY <2>1, WriterKept DEF ConnectionOK
    <2>5. ReaderOK(x)'
      BY <2>1, <2>2, ReaderKept DEF ConnectionOK
    <2>6. WireUntouched(x)
      BY <2>1, ReaderIsUntouched DEF Untouched
    <2>7. Chain(x)'
      BY <2>1, <2>6, ChainKept DEF ConnectionOK, SenderKept, WireUntouched
    <2>8. Wire(x)'
      BY <2>1, <2>2, <2>6, WireKept DEF ConnectionOK, SenderKept
    <2> QED BY <1>2, <2>3, <2>4, <2>5, <2>7, <2>8 DEF EndOK, ConnectionOK
  <1> QED BY <1>1, <1>2

\* A step of one end.
LEMMA OneEndMoves ==
  ASSUME IInv, plain' = plain, TypeOK', Posts', NEW e \in Ends,
         \A x \in Ends : x # e => Untouched(x),
         SenderKept(e), EndOK(e)'
  PROVE  IInv'
PROOF
  <1>1. ASSUME NEW x \in Ends, x # e PROVE EndOK(x)'
    <2>1. Peer[x] \in Ends
      BY EndsAssumption
    <2>2. SenderKept(Peer[x])
      BY <2>1, UntouchedSender DEF IInv
    <2> QED BY <1>1, <2>2, OthersKept DEF IInv
  <1> QED BY <1>1 DEF IInv

-----------------------------------------------------------------------------
(* Handlers are posted and run.                                            *)

LEMMA PostedOK ==
  ASSUME StrandsOK, Posts, plain' = plain, NEW e \in Ends, e \notin plain,
         NEW h \in Handlers, h.end = e, h.op = "send" => h.message \in Sendable,
         strand' = Posted(strand, e, h)
  PROVE  StrandsOK' /\ Posts'
PROOF
  <1>1. /\ StrandOf[e] \in Strands
        /\ strand' = [strand EXCEPT ![StrandOf[e]] = Append(Of(e), h)]
    BY StrandOfEnd DEF Posted, Of
  <1>2. StrandsOK'
    BY <1>1, StrandOfEnd DEF StrandsOK
  <1>3. ASSUME NEW s \in Strands, NEW i \in DOMAIN strand'[s]
        PROVE  \/ i \in DOMAIN strand[s] /\ strand'[s][i] = strand[s][i]
               \/ s = StrandOf[e] /\ strand'[s][i] = h
    <2>1. CASE s = StrandOf[e]
      <3>1. strand'[s] = Append(strand[s], h) /\ strand[s] \in Seq(Handlers)
        BY <1>1, <2>1 DEF StrandsOK, Of
      <3> QED BY <2>1, <3>1
    <2>2. CASE s # StrandOf[e]
      BY <1>1, <2>2 DEF StrandsOK
    <2> QED BY <2>1, <2>2
  <1>4. Posts'
    BY <1>3 DEF Posts
  <1> QED BY <1>2, <1>4

LEMMA FinishedOK ==
  ASSUME StrandsOK, Posts, plain' = plain, NEW s \in Strands, strand[s] # <<>>,
         strand' = Finished(s)
  PROVE  StrandsOK' /\ Posts'
PROOF
  <1>1. strand' = [strand EXCEPT ![s] = Tail(strand[s])] /\ strand[s] \in Seq(Handlers)
    BY DEF Finished, StrandsOK
  <1>2. StrandsOK'
    BY <1>1 DEF StrandsOK
  <1>3. ASSUME NEW r \in Strands, NEW i \in DOMAIN strand'[r]
        PROVE  \E j \in DOMAIN strand[r] : strand'[r][i] = strand[r][j]
    <2>1. CASE r = s
      <3>1. strand'[r] = Tail(strand[r]) /\ strand[r] \in Seq(Handlers) /\ strand[r] # <<>>
        BY <1>1, <2>1 DEF StrandsOK
      <3>2. i + 1 \in DOMAIN strand[r] /\ strand'[r][i] = strand[r][i + 1]
        BY <3>1
      <3> QED BY <3>2
    <2>2. CASE r # s
      BY <1>1, <2>2 DEF StrandsOK
    <2> QED BY <2>1, <2>2
  <1>4. Posts'
    BY <1>3 DEF Posts
  <1> QED BY <1>2, <1>4

\* The handler in front, and whose it is.
LEMMA FrontHandler ==
  ASSUME TypeOK, Posts, NEW s \in Strands, NEW op, AtFront(s, op), NEW e, e = Head(strand[s]).end
  PROVE  /\ strand[s] # <<>> /\ Head(strand[s]) \in Handlers /\ Head(strand[s]).op = op
         /\ e \in Ends /\ e \notin plain /\ StrandOf[e] = s
         /\ Of(e) = strand[s] /\ Of(e)[1] = Head(strand[s]) /\ 1 \in W(e, op)
         /\ op = "send" => Head(strand[s]).message \in Sendable
PROOF
  <1> DEFINE q == strand[s]
  <1>1. q \in Seq(Handlers) /\ q # <<>> /\ Head(q).op = op
    BY DEF TypeOK, AtFront
  <1>2. Head(q) = q[1] /\ 1 \in DOMAIN q /\ Head(q) \in Handlers
    BY <1>1
  <1>3. /\ e \in Ends /\ e \notin plain /\ StrandOf[e] = s
        /\ op = "send" => Head(q).message \in Sendable
    BY <1>1, <1>2 DEF Posts
  <1>4. Of(e) = q /\ 1 \in W(e, op)
    BY <1>1, <1>2, <1>3 DEF Of, W, Where
  <1> QED BY <1>1, <1>2, <1>3, <1>4

\* What one handler more, or less, of e means.
LEMMA OnePosted ==
  ASSUME StrandsOK, NEW e \in Ends, NEW h \in Handlers, h.end = e,
         strand' = Posted(strand, e, h), NEW n, n = Len(Of(e)) + 1
  PROVE  /\ W(e, h.op)' = W(e, h.op) \cup {n} /\ Of(e)'[n] = h
         /\ N(e, h.op)' = N(e, h.op) + 1
         /\ Later(e, h.op, n)' = 0
         /\ \A i \in W(e, h.op) : /\ Of(e)'[i] = Of(e)[i]
                                  /\ Later(e, h.op, i)' = Later(e, h.op, i) + 1
         /\ \A op \in Ops : op # h.op => \A i \in W(e, op)' : i < n /\ i \in W(e, op)
PROOF
  <1> DEFINE q == Of(e)
             r == Append(q, h)
  <1>1. q \in Seq(Handlers) /\ StrandOf[e] \in Strands
    BY StrandOfEnd
  <1>2. Of(e)' = r
    BY <1>1 DEF Of, Posted, StrandsOK
  <1>3. /\ Where(r, e, h.op) = Where(q, e, h.op) \cup {n} /\ r[n] = h
        /\ Cardinality(Where(r, e, h.op)) = Cardinality(Where(q, e, h.op)) + 1
        /\ Cardinality(Behind(r, e, h.op, n)) = 0
        /\ \A i \in Where(q, e, h.op) :
             /\ r[i] = q[i]
             /\ Cardinality(Behind(r, e, h.op, i)) = Cardinality(Behind(q, e, h.op, i)) + 1
    BY <1>1, WhereAppended, ZenonT(30)
  <1>4. ASSUME NEW op \in Ops, op # h.op
        PROVE  \A i \in Where(r, e, op) : i < n /\ i \in Where(q, e, op)
    <2>1. Where(r, e, op) = Where(q, e, op)
      BY <1>1, <1>4, WhereOthersAppended
    <2>2. \A i \in Where(q, e, op) : i \in 1 .. Len(q)
      BY <1>1, Finite
    <2> QED BY <1>1, <2>1, <2>2
  <1> HIDE DEF q, r
  <1>5. \A op \in Ops : op # h.op => \A i \in W(e, op)' : i < n /\ i \in W(e, op)
    BY <1>2, <1>4 DEF W, q
  <1>6. W(e, h.op)' = W(e, h.op) \cup {n} /\ N(e, h.op)' = N(e, h.op) + 1
    BY <1>2, <1>3 DEF W, N, q
  <1>7. Of(e)'[n] = h /\ Later(e, h.op, n)' = 0
    BY <1>2, <1>3 DEF Later
  <1>8. \A i \in W(e, h.op) : Of(e)'[i] = Of(e)[i] /\ Later(e, h.op, i)' = Later(e, h.op, i) + 1
    BY <1>2, <1>3 DEF W, Later, q
  <1> QED BY <1>5, <1>6, <1>7, <1>8 DEF q

LEMMA OneTaken ==
  ASSUME StrandsOK, NEW s \in Strands, strand[s] # <<>>, strand' = Finished(s),
         NEW e \in Ends, StrandOf[e] = s, NEW op, 1 \in W(e, op)
  PROVE  /\ N(e, op) = N(e, op)' + 1 /\ N(e, op) = Later(e, op, 1) + 1
         /\ \A i \in W(e, op)' :
              /\ i + 1 \in W(e, op) /\ Of(e)'[i] = Of(e)[i + 1]
              /\ Later(e, op, i)' = Later(e, op, i + 1)
PROOF
  <1> DEFINE q == Of(e)
             r == Tail(q)
  <1>1. q \in Seq(Handlers) /\ q # <<>>
    BY StrandOfEnd DEF Of
  <1>2. Of(e)' = r
    BY DEF Of, Finished, StrandsOK
  <1>3. 1 \in Where(q, e, op)
    BY DEF W
  <1>4. /\ Cardinality(Where(q, e, op)) = Cardinality(Where(r, e, op)) + 1
        /\ Cardinality(Where(q, e, op)) = Cardinality(Behind(q, e, op, 1)) + 1
    BY <1>1, <1>3, WhereTaken
  <1> HIDE DEF q
  <1>5. ASSUME NEW i \in Where(r, e, op)
        PROVE  /\ i + 1 \in Where(q, e, op) /\ r[i] = q[i + 1]
               /\ Cardinality(Behind(r, e, op, i)) = Cardinality(Behind(q, e, op, i + 1))
    <2>1. i + 1 \in Where(q, e, op)
      BY <1>1, WhereShifted
    <2>2. r[i] = q[i + 1]
      <3>1. r \in Seq(Handlers) /\ \A j \in 1 .. Len(r) : r[j] = q[j + 1]
        BY <1>1
      <3>2. i \in 1 .. Len(r)
        BY <3>1, Finite
      <3> QED BY <3>1, <3>2
    <2>3. Cardinality(Behind(r, e, op, i)) = Cardinality(Behind(q, e, op, i + 1))
      BY <1>1, WhereShifted
    <2> QED BY <2>1, <2>2, <2>3
  <1> HIDE DEF r
  <1>6. N(e, op) = N(e, op)' + 1 /\ N(e, op) = Later(e, op, 1) + 1
    BY <1>2, <1>4 DEF N, W, Later, q
  <1> QED BY <1>2, <1>5, <1>6 DEF W, Later, q

\* The handlers behind the one in front move up.
LEMMA MovedUp ==
  ASSUME StrandsOK, NEW s \in Strands, strand[s] # <<>>, strand' = Finished(s),
         NEW e \in Ends, StrandOf[e] = s, NEW op
  PROVE  /\ \A i \in W(e, op)' : i + 1 \in W(e, op) /\ Of(e)'[i] = Of(e)[i + 1]
         /\ N(e, op)' \in Nat /\ N(e, op) \in Nat /\ N(e, op)' <= N(e, op)
PROOF
  <1> DEFINE q == Of(e)
             r == Tail(q)
  <1>1. q \in Seq(Handlers) /\ q # <<>> /\ r \in Seq(Handlers)
    BY StrandOfEnd DEF Of
  <1>2. Of(e)' = r
    BY DEF Of, Finished, StrandsOK
  <1> HIDE DEF q
  <1>3. ASSUME NEW i \in Where(r, e, op)
        PROVE  i + 1 \in Where(q, e, op) /\ r[i] = q[i + 1]
    <2>1. i + 1 \in Where(q, e, op)
      BY <1>1, WhereShifted
    <2>2. r \in Seq(Handlers) /\ \A j \in 1 .. Len(r) : r[j] = q[j + 1]
      BY <1>1
    <2>3. i \in 1 .. Len(r)
      BY <2>2, Finite
    <2> QED BY <2>1, <2>2, <2>3
  <1>4. /\ 1 \in Where(q, e, op) => Cardinality(Where(q, e, op)) = Cardinality(Where(r, e, op)) + 1
        /\ 1 \notin Where(q, e, op) => Cardinality(Where(q, e, op)) = Cardinality(Where(r, e, op))
    BY <1>1, WhereTaken
  <1>5. Cardinality(Where(q, e, op)) \in Nat /\ Cardinality(Where(r, e, op)) \in Nat
    BY <1>1, Finite
  <1> HIDE DEF r
  <1>6. /\ Cardinality(Where(r, e, op)) \in Nat /\ Cardinality(Where(q, e, op)) \in Nat
        /\ Cardinality(Where(r, e, op)) <= Cardinality(Where(q, e, op))
    BY <1>4, <1>5
  <1> QED BY <1>2, <1>3, <1>6 DEF W, N, q

\* The handler in front is run, and posts the first of another kind.
LEMMA OneMoved ==
  ASSUME StrandsOK, Posts, plain' = plain, NEW s \in Strands, strand[s] # <<>>,
         NEW e \in Ends, e \notin plain, StrandOf[e] = s, NEW op, 1 \in W(e, op),
         NEW h \in Handlers, h.end = e, h.op # "send", h.op # op, W(e, h.op) = {},
         strand' = Posted(Finished(s), e, h)
  PROVE  /\ StrandsOK' /\ Posts' /\ N(e, op) = N(e, op)' + 1
         /\ N(e, h.op)' = 1 /\ \A i \in W(e, h.op)' : Of(e)'[i] = h
PROOF
  <1> DEFINE q == Of(e)
             t == Tail(q)
             r == Append(t, h)
  <1>1. q \in Seq(Handlers) /\ q # <<>> /\ t \in Seq(Handlers) /\ strand[s] = q
    BY StrandOfEnd DEF Of
  <1>2. strand' = [strand EXCEPT ![s] = r] /\ strand' \in [Strands -> Seq(Handlers)]
    BY <1>1 DEF Posted, Finished, StrandsOK
  <1>3. Of(e)' = r
    BY <1>2 DEF Of, StrandsOK
  <1>4. Posts'
    <2>1. ASSUME NEW i \in DOMAIN r PROVE r[i] = h \/ \E j \in DOMAIN q : r[i] = q[j]
      <3>1. \A j \in DOMAIN t : t[j] = q[j + 1] /\ j + 1 \in DOMAIN q
        BY <1>1
      <3>2. (i \in DOMAIN t /\ r[i] = t[i]) \/ r[i] = h
        BY <1>1
      <3> QED BY <3>1, <3>2
    <2>2. \A x \in Strands : x # s => strand'[x] = strand[x]
      BY <1>2 DEF StrandsOK
    <2>3. strand'[s] = r
      BY <1>2 DEF StrandsOK
    <2> HIDE DEF r, q
    <2>4. \A i \in DOMAIN strand'[s] :
            /\ strand'[s][i].end \in Ends \ plain /\ StrandOf[strand'[s][i].end] = s
            /\ strand'[s][i].op = "send" => strand'[s][i].message \in Sendable
      BY <1>1, <2>1, <2>3 DEF Posts
    <2> QED BY <2>2, <2>4 DEF Posts
  <1>5. Where(t, e, h.op) = {}
    <2>1. \A i \in Where(t, e, h.op) : i + 1 \in Where(q, e, h.op)
      BY <1>1, WhereTaken
    <2> QED BY <2>1 DEF W
  <1> HIDE DEF t
  <1>6. /\ Cardinality(Where(r, e, h.op)) = 1
        /\ \A i \in Where(r, e, h.op) : r[i] = h
    <2>1. /\ Where(r, e, h.op) = Where(t, e, h.op) \cup {Len(t) + 1} /\ r[Len(t) + 1] = h
          /\ Cardinality(Where(r, e, h.op)) = Cardinality(Where(t, e, h.op)) + 1
      BY <1>1, WhereAppended, ZenonT(30)
    <2> HIDE DEF r
    <2>2. Where(r, e, h.op) = {Len(t) + 1}
      BY <1>5, <2>1
    <2>3. Cardinality(Where(r, e, h.op)) = 0 + 1
      BY <1>5, <2>1, FS_EmptySet, Zenon
    <2> QED BY <2>1, <2>2, <2>3
  <1>7. Cardinality(Where(q, e, op)) = Cardinality(Where(r, e, op)) + 1
    <2>1. Cardinality(Where(q, e, op)) = Cardinality(Where(t, e, op)) + 1
      BY <1>1, WhereTaken DEF W, t
    <2>2. Where(r, e, op) = Where(t, e, op)
      BY <1>1, WhereOthersAppended
    <2> QED BY <2>1, <2>2
  <1> HIDE DEF r
  <1> QED BY <1>2, <1>3, <1>4, <1>6, <1>7 DEF W, N, StrandsOK

-----------------------------------------------------------------------------
(* Fields that a step changes keep their types.                            *)

Conns == [started : BOOLEAN, closer : {"nobody", "strand", "reader", "done"},
          sendQueue : Seq(Sendable), size : Nat, data : Messages \cup {Nothing}]
Sockets == [open : BOOLEAN, reading : {"none", "size", "data"},
            writing : Seq(Seq(Bytes)), unread : Seq(Bytes)]
\* What on_message_received_ may be given.
Received == {m \in Messages : m.size <= MaxMessageSize}

Shape ==
  /\ plain \subseteq PlainEnds
  /\ conn \in [Ends -> Conns] /\ socket \in [Ends -> Sockets]
  /\ StrandsOK /\ reader \in [Ends -> {"none", "ok", "error"}]
  /\ calls \in [Ends -> Nat] /\ sent \in [Ends -> Seq(Messages)]
  /\ received \in [Ends -> Seq(Received)]
  /\ notified \in [Ends -> Nat]

LEMMA Types ==
  (TypeOK <=> Shape) /\ (TypeOK' <=> Shape')
PROOF
  BY DEF TypeOK, Shape, Conns, Sockets, StrandsOK, Received

LEMMA ConnFields ==
  ASSUME NEW c \in Conns
  PROVE  /\ [c EXCEPT !.started = TRUE] \in Conns
         /\ \A who \in {"nobody", "strand", "reader", "done"} : [c EXCEPT !.closer = who] \in Conns
         /\ \A q \in Seq(Sendable) : [c EXCEPT !.sendQueue = q] \in Conns
         /\ \A n \in Nat : [c EXCEPT !.size = n] \in Conns
         /\ \A m \in Messages : [c EXCEPT !.data = m] \in Conns
PROOF
  BY DEF Conns

LEMMA SocketFields ==
  ASSUME NEW s \in Sockets
  PROVE  /\ \A r \in {"none", "size", "data"} : [s EXCEPT !.reading = r] \in Sockets
         /\ \A w \in Seq(Seq(Bytes)) : [s EXCEPT !.writing = w] \in Sockets
         /\ \A u \in Seq(Bytes) : [s EXCEPT !.unread = u] \in Sockets
         /\ SocketClosed(s) \in Sockets
PROOF
  <1>1. \A r \in {"none", "size", "data"} : [s EXCEPT !.reading = r] \in Sockets
    BY DEF Sockets
  <1>2. \A w \in Seq(Seq(Bytes)) : [s EXCEPT !.writing = w] \in Sockets
    BY DEF Sockets
  <1>3. \A u \in Seq(Bytes) : [s EXCEPT !.unread = u] \in Sockets
    BY DEF Sockets
  <1>4. SocketClosed(s) \in Sockets
    <2>1. <<>> \in Seq(Bytes)
      OBVIOUS
    <2> QED BY <2>1 DEF Sockets, SocketClosed
  <1> QED BY <1>1, <1>2, <1>3, <1>4

\* A step that gives e these fields, and leaves those of the others.
Changes(e, c, k, r, q, m, n) ==
  /\ plain' = plain
  /\ conn' = [conn EXCEPT ![e] = c] /\ socket' = [socket EXCEPT ![e] = k]
  /\ reader' = [reader EXCEPT ![e] = r] /\ sent' = [sent EXCEPT ![e] = q]
  /\ received' = [received EXCEPT ![e] = m] /\ notified' = [notified EXCEPT ![e] = n]
  /\ calls' \in [Ends -> Nat]

LEMMA Fields ==
  ASSUME TypeOK, NEW e \in Ends
  PROVE  /\ conn[e] \in Conns /\ socket[e] \in Sockets
         /\ reader[e] \in {"none", "ok", "error"} /\ sent[e] \in Seq(Messages)
         /\ received[e] \in Seq(Received) /\ notified[e] \in Nat
PROOF
  BY Types DEF Shape

\* A variable that stays the same keeps the field of e.
LEMMA Same ==
  ASSUME TypeOK, NEW e \in Ends
  PROVE  /\ conn = [conn EXCEPT ![e] = conn[e]] /\ socket = [socket EXCEPT ![e] = socket[e]]
         /\ reader = [reader EXCEPT ![e] = reader[e]] /\ sent = [sent EXCEPT ![e] = sent[e]]
         /\ received = [received EXCEPT ![e] = received[e]]
         /\ notified = [notified EXCEPT ![e] = notified[e]]
         /\ calls \in [Ends -> Nat]
PROOF
  BY Types DEF Shape

LEMMA Changed ==
  ASSUME TypeOK, NEW e \in Ends,
         NEW c \in Conns, NEW k \in Sockets, NEW r \in {"none", "ok", "error"},
         NEW q \in Seq(Messages), NEW m \in Seq(Received), NEW n \in Nat,
         Changes(e, c, k, r, q, m, n),
         StrandsOK', \A x \in Ends : x # e => KeptOps(x, Ops)
  PROVE  /\ TypeOK' /\ \A x \in Ends : x # e => Untouched(x)
         /\ conn'[e] = c /\ socket'[e] = k /\ reader'[e] = r
         /\ sent'[e] = q /\ received'[e] = m /\ notified'[e] = n
PROOF
  <1>1. Shape
    BY Types
  <1>2. /\ conn' \in [Ends -> Conns] /\ conn'[e] = c
        /\ \A x \in Ends : x # e => conn'[x] = conn[x]
    BY <1>1 DEF Changes, Shape
  <1>3. /\ socket' \in [Ends -> Sockets] /\ socket'[e] = k
        /\ \A x \in Ends : x # e => socket'[x] = socket[x]
    BY <1>1 DEF Changes, Shape
  <1>4. /\ reader' \in [Ends -> {"none", "ok", "error"}] /\ reader'[e] = r
        /\ \A x \in Ends : x # e => reader'[x] = reader[x]
    BY <1>1 DEF Changes, Shape
  <1>5. /\ sent' \in [Ends -> Seq(Messages)] /\ sent'[e] = q
        /\ \A x \in Ends : x # e => sent'[x] = sent[x]
    BY <1>1 DEF Changes, Shape
  <1>6. /\ received' \in [Ends -> Seq(Received)] /\ received'[e] = m
        /\ \A x \in Ends : x # e => received'[x] = received[x]
    BY <1>1 DEF Changes, Shape
  <1>7. /\ notified' \in [Ends -> Nat] /\ notified'[e] = n
        /\ \A x \in Ends : x # e => notified'[x] = notified[x]
    BY <1>1 DEF Changes, Shape
  <1>8. TypeOK'
    BY <1>1, <1>2, <1>3, <1>4, <1>5, <1>6, <1>7, Types DEF Changes, Shape
  <1> QED BY <1>2, <1>3, <1>4, <1>5, <1>6, <1>7, <1>8 DEF Untouched

\* Handlers posted, taken, or both.
LEMMA Posting ==
  ASSUME IInv, plain' = plain, NEW e \in Ends, e \notin plain,
         NEW h \in Handlers, h.end = e, h.op = "send" => h.message \in Sendable,
         strand' = Posted(strand, e, h)
  PROVE  /\ StrandsOK' /\ Posts'
         /\ \A x \in Ends, ops \in SUBSET Ops : x # e \/ h.op \notin ops => KeptOps(x, ops)
PROOF
  <1>1. StrandsOK /\ Posts
    BY Typed DEF IInv
  <1> QED BY <1>1, PostedOK, PostKeeps

LEMMA Running ==
  ASSUME IInv, plain' = plain, NEW s \in Strands, NEW op, AtFront(s, op),
         strand' = Finished(s), NEW e, e = Head(strand[s]).end
  PROVE  /\ StrandsOK' /\ Posts'
         /\ \A x \in Ends, ops \in SUBSET Ops : x # e \/ op \notin ops => KeptOps(x, ops)
PROOF
  <1>1. TypeOK /\ Posts
    BY DEF IInv
  <1>2. e \in Ends /\ strand[s] # <<>> /\ Head(strand[s]).op = op
    BY <1>1, FrontHandler
  <1>3. StrandsOK
    BY <1>1, <1>2, Typed
  <1> QED BY <1>1, <1>2, <1>3, FinishedOK, FinishKeeps

-----------------------------------------------------------------------------
(* The steps that read.                                                    *)

\* A step of a Connection that leaves its writing alone.
LEMMA ReaderMoves ==
  ASSUME IInv, plain' = plain, TypeOK', Posts', NEW e \in Ends, e \notin plain,
         \A x \in Ends : x # e => Untouched(x),
         WriterUntouched(e), Closing(e)', ReaderOK(e)', Chain(e)', Wire(e)'
  PROVE  IInv'
PROOF
  <1>1. EndOK(e) /\ ConnectionOK(e)
    BY DEF IInv, EndOK
  <1>2. WriterOK(e)'
    BY <1>1, WriterKept DEF ConnectionOK
  <1>3. SenderKept(e)
    <2>1. Put(e)' = Put(e)
      BY PutKept
    <2>2. Extends(sent[e], sent[e])
      BY Typed DEF IInv, Extends
    <2> QED BY <2>1, <2>2 DEF SenderKept, WriterUntouched
  <1>4. EndOK(e)'
    BY <1>2 DEF EndOK, ConnectionOK
  <1> QED BY <1>3, <1>4, OneEndMoves

\* One after which e has not received more than before.
LEMMA ReaderStays ==
  ASSUME IInv, plain' = plain, TypeOK', Posts', NEW e \in Ends, e \notin plain,
         \A x \in Ends : x # e => Untouched(x),
         WriterUntouched(e), Closing(e)', ReaderOK(e)', ChainUntouched(e),
         WireUntouched(e) \/ ~socket'[e].open \/ Failed(e)'
  PROVE  IInv'
PROOF
  <1>1. ConnectionOK(e) /\ TypeOK
    BY DEF IInv, EndOK
  <1>2. Untouched(Peer[e]) /\ Peer[e] \in Ends /\ Peer[Peer[e]] = e /\ Peer[e] # e
    BY EndsAssumption
  <1>3. SenderKept(Peer[e])
    BY <1>1, <1>2, UntouchedSender
  <1>4. Chain(e)'
    BY <1>1, <1>3, ChainKept DEF ConnectionOK, SenderKept
  <1>5. Wire(e)'
    <2>1. CASE WireUntouched(e)
      BY <1>1, <1>2, <1>3, <2>1, WireKept DEF ConnectionOK, SenderKept
    <2>2. CASE ~socket'[e].open \/ Failed(e)'
      BY <2>2 DEF Wire
    <2> QED BY <2>1, <2>2
  <1> QED BY <1>4, <1>5, ReaderMoves

\* One that leaves its reading alone.
LEMMA WriterMoves ==
  ASSUME IInv, plain' = plain, TypeOK', Posts', NEW e \in Ends, e \notin plain,
         \A x \in Ends : x # e => Untouched(x),
         ReaderUntouched(e), socket'[e].unread = socket[e].unread,
         socket'[e].open = socket[e].open, conn'[e].closer = conn[e].closer,
         notified'[e] = notified[e],
         Extends(sent[e], sent'[e]), WriterOK(e)',
         socket[e].open /\ socket[Peer[e]].open => Put(e)' = Put(e)
  PROVE  IInv'
PROOF
  <1>1. ConnectionOK(e) /\ TypeOK
    BY DEF IInv, EndOK
  <1>2. StrandsOK /\ StrandsOK' /\ Peer[e] \in Ends /\ Peer[e] # e
    BY <1>1, EndsAssumption DEF TypeOK, StrandsOK
  <1>3. WireUntouched(e)
    BY ReaderIsUntouched
  <1>4. Untouched(Peer[e]) /\ SenderKept(Peer[e]) /\ Peer[Peer[e]] = e
    BY <1>1, <1>2, UntouchedSender, EndsAssumption
  <1>5. Closing(e)'
    BY <1>1 DEF ConnectionOK, Closing
  <1>6. ReaderOK(e)'
    BY <1>1, <1>2, ReaderKept DEF ConnectionOK
  <1>7. Chain(e)'
    BY <1>1, <1>3, <1>4, ChainKept DEF ConnectionOK, SenderKept, WireUntouched
  <1>8. Wire(e)'
    BY <1>1, <1>3, <1>4, WireKept DEF ConnectionOK, SenderKept
  <1>9. SenderKept(e)
    BY <1>2, <1>4 DEF SenderKept, Untouched
  <1>10. EndOK(e)'
    BY <1>5, <1>6, <1>7, <1>8 DEF EndOK, ConnectionOK
  <1> QED BY <1>9, <1>10, OneEndMoves

LEMMA StartStep ==
  ASSUME IInv, NEW e \in Ends, NEW inStrand \in BOOLEAN, Start(e, inStrand)
  PROVE  IInv'
PROOF
  <1> DEFINE h == Handler(e, "start")
             c == [conn[e] EXCEPT !.started = TRUE]
             k == [socket[e] EXCEPT !.reading = "size"]
  <1>1. /\ TypeOK /\ StrandsOK /\ Posts /\ e \notin plain /\ ConnectionOK(e) /\ plain' = plain
        /\ reader' = reader /\ calls' = calls /\ sent' = sent /\ received' = received
        /\ notified' = notified /\ ~conn[e].started
    BY DEF IInv, EndOK, TypeOK, StrandsOK, Start, FirstStart, history
  <1>2. /\ conn' = [conn EXCEPT ![e] = c]
        /\ \/ socket' = [socket EXCEPT ![e] = k] /\ strand' = strand
           \/ strand' = Posted(strand, e, h) /\ socket' = socket
    <2>1. conn \in [Ends -> Conns] /\ socket \in [Ends -> Sockets]
      BY <1>1, Types DEF Shape
    <2> QED BY <2>1 DEF Start
  <1>3. h \in Handlers /\ h.end = e /\ h.op = "start"
    BY DEF Handlers, Handler
  <1>4. c \in Conns /\ k \in Sockets /\ conn[e] \in Conns /\ socket[e] \in Sockets
    BY <1>1, Fields, ConnFields, SocketFields
  <1>5. /\ StrandsOK' /\ Posts'
        /\ \A x \in Ends, ops \in SUBSET Ops : x # e \/ "start" \notin ops => KeptOps(x, ops)
    <2>1. CASE strand' = strand
      BY <1>1, <2>1, SameKeeps DEF StrandsOK, Posts, Of
    <2>2. CASE strand' = Posted(strand, e, h)
      BY <1>1, <1>3, <2>2, Posting
    <2> QED BY <1>2, <2>1, <2>2
  <1>6. N(e, "start") = 0 /\ N(e, "body") = 0 /\ N(e, "deliver") <= 1
        /\ socket[e].reading = "none" /\ reader[e] = "none" /\ N(e, "deliver") \in Nat
    BY <1>1, Counts DEF ConnectionOK, ReaderOK, Links
  <1>7. ASSUME NEW d \in Sockets, socket' = [socket EXCEPT ![e] = d]
        PROVE  /\ TypeOK' /\ \A x \in Ends : x # e => Untouched(x)
               /\ conn'[e] = c /\ socket'[e] = d /\ reader'[e] = reader[e]
               /\ sent'[e] = sent[e] /\ received'[e] = received[e] /\ notified'[e] = notified[e]
    <2>1. Changes(e, c, d, reader[e], sent[e], received[e], notified[e])
      BY <1>1, <1>2, <1>7, Same DEF Changes
    <2>2. \A x \in Ends : x # e => KeptOps(x, Ops)
      BY <1>5
    <2> HIDE DEF c
    <2> QED BY <1>1, <1>4, <1>5, <2>1, <2>2, Fields, Changed
  <1> HIDE DEF h, c, k
  <1>8. /\ TypeOK' /\ \A x \in Ends : x # e => Untouched(x)
        /\ conn'[e] = c /\ reader'[e] = reader[e]
        /\ sent'[e] = sent[e] /\ received'[e] = received[e] /\ notified'[e] = notified[e]
        /\ \/ socket'[e] = k /\ strand' = strand
           \/ socket'[e] = socket[e] /\ strand' = Posted(strand, e, h)
    BY <1>1, <1>2, <1>4, <1>7, Same
  <1>9. /\ conn'[e].closer = conn[e].closer /\ conn'[e].started = TRUE
        /\ conn'[e].size = conn[e].size /\ conn'[e].data = conn[e].data
        /\ conn'[e].sendQueue = conn[e].sendQueue
        /\ socket'[e].open = socket[e].open /\ socket'[e].unread = socket[e].unread
        /\ socket'[e].writing = socket[e].writing /\ socket'[e].reading # "data"
    BY <1>4, <1>6, <1>8 DEF c, k, Conns, Sockets
  <1>10. WriterUntouched(e)
    <2>1. KeptOps(e, {"send", "written"})
      BY <1>5 DEF Ops
    <2> QED BY <1>8, <1>9, <2>1 DEF WriterUntouched
  <1>11. /\ N(e, "body")' = 0 /\ N(e, "deliver")' = N(e, "deliver")
         /\ NoneNew(e, "deliver") /\ NoneNew(e, "body") /\ W(e, "body")' = {}
    <2>1. KeptOps(e, {"body", "deliver"})
      BY <1>5 DEF Ops
    <2>2. W(e, "body") = {}
      BY <1>1, <1>6, Counts
    <2> QED BY <1>6, <2>1, <2>2, CountsKept DEF NoneNew
  <1>12. Links(e)' = 1
    <2>1. CASE strand' = strand /\ socket'[e] = k
      BY <1>4, <1>6, <1>8, <2>1 DEF Links, N, W, Of, k, Sockets
    <2>2. CASE strand' = Posted(strand, e, h) /\ socket'[e] = socket[e]
      <3>1. N(e, h.op)' = N(e, h.op) + 1
        BY <1>1, <1>3, <2>2, OnePosted
      <3> QED BY <1>3, <1>6, <1>8, <1>11, <2>2, <3>1 DEF Links
    <2> QED BY <1>8, <2>1, <2>2
  <1>13. ReaderOK(e)'
    BY <1>6, <1>9, <1>11, <1>12 DEF ReaderOK
  <1>14. ChainUntouched(e) /\ WireUntouched(e)
    <2>1. NoneSucceeds(e)
      BY <1>11 DEF NoneSucceeds
    <2> QED BY <1>6, <1>8, <1>9, <1>11, <2>1 DEF ChainUntouched, WireUntouched
  <1>15. Closing(e)'
    BY <1>1, <1>8, <1>9 DEF ConnectionOK, Closing
  <1> QED BY <1>1, <1>5, <1>8, <1>10, <1>13, <1>14, <1>15, ReaderStays

-----------------------------------------------------------------------------
(* Steps that close.                                                       *)

\* One of which only the handlers of Close, and a closed socket, are left.
LEMMA BothStay ==
  ASSUME IInv, plain' = plain, TypeOK', Posts', NEW e \in Ends, e \notin plain,
         \A x \in Ends : x # e => Untouched(x),
         WriterUntouched(e), ReaderUntouched(e), Closing(e)',
         socket'[e].open => socket'[e].unread = socket[e].unread
  PROVE  IInv'
PROOF
  <1>1. ConnectionOK(e) /\ StrandsOK /\ StrandsOK'
    BY DEF IInv, EndOK, TypeOK, StrandsOK
  <1>2. ReaderOK(e)'
    BY <1>1, ReaderKept DEF ConnectionOK
  <1>3. CASE socket'[e].open
    <2>1. WireUntouched(e)
      BY <1>3, ReaderIsUntouched DEF WriterUntouched
    <2> QED BY <1>2, <2>1, ReaderStays DEF WireUntouched
  <1>4. CASE ~socket'[e].open
    <2>1. /\ N(e, "deliver")' = N(e, "deliver") /\ NoneNew(e, "deliver")
          /\ NoneSucceeds(e)
      BY CountsKept DEF ReaderUntouched, NoneNew, NoneSucceeds
    <2>2. ChainUntouched(e)
      BY <2>1 DEF ReaderUntouched, ChainUntouched
    <2> QED BY <1>2, <1>4, <2>2, ReaderStays
  <1> QED BY <1>3, <1>4

LEMMA CloseStep ==
  ASSUME IInv, NEW e \in Ends, Close(e)
  PROVE  IInv'
PROOF
  <1> DEFINE h == Handler(e, "close")
  <1>1. /\ TypeOK /\ e \notin plain /\ ConnectionOK(e) /\ plain' = plain
        /\ conn' = conn /\ socket' = socket /\ reader' = reader /\ calls' = calls
        /\ sent' = sent /\ received' = received /\ notified' = notified
        /\ strand' = Posted(strand, e, h)
    BY DEF IInv, EndOK, Close, history
  <1>2. h \in Handlers /\ h.end = e /\ h.op = "close"
    BY DEF Handlers, Handler
  <1> HIDE DEF h
  <1>3. /\ StrandsOK' /\ Posts'
        /\ \A x \in Ends, ops \in SUBSET Ops : x # e \/ "close" \notin ops => KeptOps(x, ops)
    BY <1>1, <1>2, Posting
  <1>4. TypeOK' /\ \A x \in Ends : x # e => Untouched(x)
    <2>1. TypeOK'
      BY <1>1, <1>3, Types DEF Shape
    <2>2. \A x \in Ends : x # e => KeptOps(x, Ops)
      BY <1>3
    <2> QED BY <1>1, <2>1, <2>2 DEF Untouched
  <1>5. WriterUntouched(e) /\ ReaderUntouched(e)
    <2>1. KeptOps(e, {"send", "written"}) /\ KeptOps(e, {"start", "body", "deliver"})
      BY <1>3 DEF Ops
    <2> QED BY <1>1, <2>1 DEF WriterUntouched, ReaderUntouched
  <1>6. Closing(e)'
    BY <1>1 DEF ConnectionOK, Closing
  <1> QED BY <1>1, <1>3, <1>4, <1>5, <1>6, BothStay

LEMMA BeginCloseStep ==
  ASSUME IInv, NEW e \in Ends, e \notin plain, NEW who \in {"strand", "reader"},
         BeginClose(e, who), UNCHANGED <<plain, strand, reader, history>>
  PROVE  IInv'
PROOF
  <1> DEFINE c == [conn[e] EXCEPT !.closer = who]
             k == SocketClosed(socket[e])
  <1>1. /\ TypeOK /\ StrandsOK /\ Posts /\ ConnectionOK(e) /\ plain' = plain
        /\ reader' = reader /\ calls' = calls /\ strand' = strand
        /\ sent' = sent /\ received' = received /\ notified' = notified
        /\ conn[e].closer = "nobody"
    BY DEF IInv, EndOK, TypeOK, StrandsOK, BeginClose, history
  <1>2. conn' = [conn EXCEPT ![e] = c] /\ socket' = [socket EXCEPT ![e] = k]
    <2>1. conn \in [Ends -> Conns] /\ socket \in [Ends -> Sockets]
      BY <1>1, Types DEF Shape
    <2> QED BY <2>1 DEF BeginClose
  <1>3. conn[e] \in Conns /\ c \in Conns /\ socket[e] \in Sockets /\ k \in Sockets
    BY <1>1, Fields, ConnFields, SocketFields
  <1>4. /\ c.closer = who /\ c.started = conn[e].started /\ c.sendQueue = conn[e].sendQueue
        /\ c.size = conn[e].size /\ c.data = conn[e].data
    BY <1>3 DEF Conns
  <1>5. /\ ~k.open /\ k.reading = socket[e].reading /\ k.writing = socket[e].writing
    BY <1>3 DEF Sockets, SocketClosed
  <1> HIDE DEF c, k
  <1>6. /\ StrandsOK' /\ Posts' /\ \A x \in Ends, ops \in SUBSET Ops : KeptOps(x, ops)
    BY <1>1, SameKeeps DEF StrandsOK, Posts, Of
  <1>7. /\ TypeOK' /\ \A x \in Ends : x # e => Untouched(x)
        /\ conn'[e] = c /\ socket'[e] = k /\ reader'[e] = reader[e]
        /\ sent'[e] = sent[e] /\ received'[e] = received[e] /\ notified'[e] = notified[e]
    <2>1. Changes(e, c, k, reader[e], sent[e], received[e], notified[e])
      BY <1>1, <1>2, Same DEF Changes
    <2>2. \A x \in Ends : x # e => KeptOps(x, Ops)
      BY <1>6
    <2> QED BY <1>1, <1>3, <1>6, <2>1, <2>2, Fields, Changed
  <1>8. WriterUntouched(e) /\ ReaderUntouched(e)
    <2>1. KeptOps(e, {"send", "written"}) /\ KeptOps(e, {"start", "body", "deliver"})
      BY <1>6 DEF Ops
    <2> QED BY <1>4, <1>5, <1>7, <2>1 DEF WriterUntouched, ReaderUntouched
  <1>9. Closing(e)'
    BY <1>1, <1>4, <1>5, <1>7 DEF ConnectionOK, Closing
  <1> QED BY <1>1, <1>5, <1>6, <1>7, <1>8, <1>9, BothStay

\* The one reading, if any, is that of a Connection.
LEMMA ReaderCloseStep ==
  ASSUME IInv, NEW e \in Ends, ReaderCloses(e)
  PROVE  IInv'
PROOF
  <1>1. e \notin plain
    BY DEF IInv, EndOK, PlainOK, ReaderCloses, ReaderFails
  <1> QED BY <1>1, BeginCloseStep DEF ReaderCloses

LEMMA StrandCloseStep ==
  ASSUME IInv, NEW s \in Strands, StrandCloses(s)
  PROVE  IInv'
PROOF
  <1> DEFINE e == Head(strand[s]).end
  <1>1. PICK op : AtFront(s, op)
    BY DEF StrandCloses, ClosingFront
  <1>2. e \in Ends /\ e \notin plain
    BY <1>1, FrontHandler DEF IInv
  <1> QED BY <1>2, BeginCloseStep DEF StrandCloses

\* What DoClose leaves behind when it returns.
LEMMA ClosedEnd ==
  ASSUME IInv, NEW e \in Ends, e \notin plain, NEW who \in {"strand", "reader"},
         conn[e].closer \in {who, "done"}
  PROVE  ~socket[e].open /\ conn[e].closer # "nobody"
PROOF
  BY DEF IInv, EndOK, ConnectionOK, Closing

LEMMA EndCloseChanges ==
  ASSUME IInv, NEW e \in Ends, e \notin plain, NEW who \in {"strand", "reader"},
         EndClose(e, who), NEW r \in {"none", "ok", "error"},
         UNCHANGED <<plain, socket, calls, sent, received>>,
         reader' = [reader EXCEPT ![e] = r],
         StrandsOK', \A x \in Ends : x # e => KeptOps(x, Ops)
  PROVE  /\ TypeOK' /\ \A x \in Ends : x # e => Untouched(x)
         /\ conn'[e].closer = "done" /\ conn'[e].started = conn[e].started
         /\ conn'[e].sendQueue = conn[e].sendQueue
         /\ conn'[e].size = conn[e].size /\ conn'[e].data = conn[e].data
         /\ socket'[e] = socket[e] /\ reader'[e] = r
         /\ sent'[e] = sent[e] /\ received'[e] = received[e]
PROOF
  <1> DEFINE c == [conn[e] EXCEPT !.closer = "done"]
             n == IF conn[e].closer = who /\ conn[e].started THEN notified[e] + 1 ELSE notified[e]
  <1>1. TypeOK
    BY DEF IInv
  <1>2. conn' = [conn EXCEPT ![e] = c]
    BY <1>1, Types DEF Shape, EndClose
  <1>3. notified' = [notified EXCEPT ![e] = n]
    BY <1>1, Types DEF Shape, EndClose
  <1>4. conn[e] \in Conns /\ c \in Conns /\ n \in Nat
    <2>1. conn[e] \in Conns /\ notified[e] \in Nat
      BY <1>1, Fields
    <2>2. c \in Conns
      BY <2>1, ConnFields
    <2> QED BY <2>1, <2>2
  <1>5. /\ c.closer = "done" /\ c.started = conn[e].started /\ c.sendQueue = conn[e].sendQueue
        /\ c.size = conn[e].size /\ c.data = conn[e].data
    BY <1>4 DEF Conns
  <1> HIDE DEF c, n
  <1>6. Changes(e, c, socket[e], r, sent[e], received[e], n)
    BY <1>1, <1>2, <1>3, Same DEF Changes
  <1>7. sent[e] \in Seq(Messages) /\ received[e] \in Seq(Received) /\ socket[e] \in Sockets
    BY <1>1, Fields
  <1>8. /\ TypeOK' /\ \A x \in Ends : x # e => Untouched(x)
        /\ conn'[e] = c /\ socket'[e] = socket[e] /\ reader'[e] = r
        /\ sent'[e] = sent[e] /\ received'[e] = received[e]
    BY <1>1, <1>4, <1>6, <1>7, Changed
  <1> QED BY <1>5, <1>8

LEMMA ReaderHasClosedStep ==
  ASSUME IInv, NEW e \in Ends, ReaderHasClosed(e)
  PROVE  IInv'
PROOF
  <1>1. /\ TypeOK /\ StrandsOK /\ Posts /\ e \notin plain /\ ConnectionOK(e) /\ plain' = plain
        /\ strand' = strand /\ reader[e] # "none" /\ EndClose(e, "reader")
        /\ socket' = socket /\ calls' = calls /\ sent' = sent /\ received' = received
        /\ reader' = [reader EXCEPT ![e] = "none"]
    BY DEF IInv, EndOK, PlainOK, ReaderHasClosed, ReaderFails, TypeOK, StrandsOK
  <1>2. /\ StrandsOK' /\ Posts' /\ \A x \in Ends, ops \in SUBSET Ops : KeptOps(x, ops)
    BY <1>1, SameKeeps DEF StrandsOK, Posts, Of
  <1>3. /\ TypeOK' /\ \A x \in Ends : x # e => Untouched(x)
        /\ conn'[e].closer = "done" /\ conn'[e].started = conn[e].started
        /\ conn'[e].sendQueue = conn[e].sendQueue
        /\ conn'[e].size = conn[e].size /\ conn'[e].data = conn[e].data
        /\ socket'[e] = socket[e] /\ reader'[e] = "none"
        /\ sent'[e] = sent[e] /\ received'[e] = received[e]
    <2>1. \A x \in Ends : x # e => KeptOps(x, Ops)
      BY <1>2
    <2> QED BY <1>1, <1>2, <2>1, EndCloseChanges
  <1>4. ~socket[e].open /\ conn[e].closer # "nobody"
    BY <1>1, ClosedEnd DEF EndClose
  <1>5. /\ N(e, "start")' = N(e, "start") /\ N(e, "body")' = N(e, "body")
        /\ N(e, "deliver")' = N(e, "deliver") /\ W(e, "body")' = W(e, "body")
        /\ W(e, "deliver")' = W(e, "deliver") /\ Of(e)' = Of(e)
        /\ N(e, "start") \in Nat /\ N(e, "body") \in Nat
    BY <1>1, Counts DEF N, W, Of
  <1>6. WriterUntouched(e)
    <2>1. KeptOps(e, {"send", "written"})
      BY <1>2 DEF Ops
    <2> QED BY <1>3, <1>4, <2>1 DEF WriterUntouched
  <1>7. ReaderOK(e)'
    <2>1. Links(e) = 1 + Links(e)' /\ Links(e)' \in Nat
      BY <1>1, <1>3, <1>5 DEF Links
    <2> QED BY <1>1, <1>3, <1>5, <2>1 DEF ConnectionOK, ReaderOK
  <1>8. ChainUntouched(e)
    BY <1>3, <1>5 DEF ChainUntouched, NoneNew, NoneSucceeds
  <1>9. Closing(e)'
    BY <1>1, <1>3, <1>4 DEF Closing
  <1> QED BY <1>1, <1>2, <1>3, <1>4, <1>6, <1>7, <1>8, <1>9, ReaderStays

LEMMA StrandHasClosedStep ==
  ASSUME IInv, NEW s \in Strands, StrandHasClosed(s)
  PROVE  IInv'
PROOF
  <1>1. PICK op \in {"close", "written", "body"} : AtFront(s, op)
    BY DEF StrandHasClosed, ClosingFront
  <1>e. PICK e : e = Head(strand[s]).end
    OBVIOUS
  <1>2. /\ TypeOK /\ Posts /\ plain' = plain /\ strand' = Finished(s) /\ EndClose(e, "strand")
        /\ socket' = socket /\ reader' = reader /\ calls' = calls /\ sent' = sent
        /\ received' = received
    BY <1>e DEF IInv, StrandHasClosed
  <1>3. /\ strand[s] # <<>> /\ e \in Ends /\ e \notin plain /\ StrandOf[e] = s
        /\ 1 \in W(e, op)
    BY <1>1, <1>2, <1>e, FrontHandler
  <1>4. StrandsOK /\ ConnectionOK(e)
    BY <1>2, <1>3, Typed DEF IInv, EndOK
  <1>5. /\ StrandsOK' /\ Posts'
        /\ \A x \in Ends, ops \in SUBSET Ops : x # e \/ op \notin ops => KeptOps(x, ops)
    BY <1>1, <1>2, <1>e, Running
  <1>6. /\ TypeOK' /\ \A x \in Ends : x # e => Untouched(x)
        /\ conn'[e].closer = "done" /\ conn'[e].started = conn[e].started
        /\ conn'[e].sendQueue = conn[e].sendQueue
        /\ conn'[e].size = conn[e].size /\ conn'[e].data = conn[e].data
        /\ socket'[e] = socket[e] /\ reader'[e] = reader[e]
        /\ sent'[e] = sent[e] /\ received'[e] = received[e]
    <2>1. \A x \in Ends : x # e => KeptOps(x, Ops)
      BY <1>5
    <2>2. reader' = [reader EXCEPT ![e] = reader[e]] /\ reader[e] \in {"none", "ok", "error"}
      BY <1>2, <1>3, Same, Fields
    <2> QED BY <1>2, <1>3, <1>5, <2>1, <2>2, EndCloseChanges
  <1>7. ~socket[e].open /\ conn[e].closer # "nobody"
    BY <1>2, <1>3, ClosedEnd DEF EndClose
  <1>8. \A o : /\ \A i \in W(e, o)' : i + 1 \in W(e, o) /\ Of(e)'[i] = Of(e)[i + 1]
               /\ N(e, o)' \in Nat /\ N(e, o) \in Nat /\ N(e, o)' <= N(e, o)
    BY <1>2, <1>3, <1>4, MovedUp
  <1>9. WriterOK(e)'
    <2>1. Len(socket[e].writing) \in Nat
      BY <1>2, <1>3, Typed
    <2> QED BY <1>4, <1>6, <1>7, <1>8, <2>1 DEF ConnectionOK, WriterOK
  <1>10. ReaderOK(e)'
    <2>1. Links(e)' <= Links(e) /\ Links(e)' \in Nat /\ Links(e) \in Nat
      BY <1>6, <1>8 DEF Links
    <2>2. \A i \in W(e, "deliver")', j \in W(e, "body")' : i \in Nat /\ j \in Nat
      <3>1. Of(e)' \in Seq(Handlers)
        BY <1>3, <1>5 DEF StrandsOK, Strands, Of
      <3> QED BY <3>1, Finite DEF W
    <2>3. \A i \in W(e, "deliver")', j \in W(e, "body")' : i < j
      BY <1>4, <1>8, <2>2 DEF ConnectionOK, ReaderOK
    <2> QED BY <1>4, <1>6, <1>8, <2>1, <2>3 DEF ConnectionOK, ReaderOK
  <1>11. ChainUntouched(e)
    <2>1. N(e, "deliver")' = N(e, "deliver")
      <3>1. KeptOps(e, {"deliver"})
        BY <1>1, <1>3, <1>5 DEF Ops
      <3> QED BY <3>1, CountsKept
    <2>2. NoneNew(e, "deliver") /\ NoneSucceeds(e)
      BY <1>8 DEF NoneNew, NoneSucceeds
    <2> QED BY <1>6, <2>1, <2>2 DEF ChainUntouched
  <1>12. Closing(e)'
    BY <1>6, <1>7 DEF Closing
  <1>13. Chain(e)' /\ Wire(e)'
    <2>1. Untouched(Peer[e]) /\ Peer[e] \in Ends
      BY <1>3, <1>6, EndsAssumption
    <2>2. SenderKept(Peer[e])
      BY <1>2, <2>1, UntouchedSender
    <2>3. Chain(e)'
      BY <1>2, <1>3, <1>4, <1>6, <1>11, <2>2, ChainKept DEF ConnectionOK, SenderKept
    <2> QED BY <1>6, <1>7, <2>3 DEF Wire
  <1>14. SenderKept(e)
    <2>1. Extends(sent[e], sent[e])
      BY <1>2, <1>3, Typed DEF Extends
    <2> QED BY <1>6, <1>7, <2>1 DEF SenderKept
  <1>15. EndOK(e)'
    BY <1>2, <1>3, <1>9, <1>10, <1>12, <1>13 DEF EndOK, ConnectionOK
  <1> QED BY <1>2, <1>3, <1>5, <1>6, <1>14, <1>15, OneEndMoves

-----------------------------------------------------------------------------
(* Steps that read.                                                        *)

\* What every step of the handler in front starts from.
LEMMA InFront ==
  ASSUME IInv, NEW s \in Strands, NEW op, AtFront(s, op), plain' = plain,
         NEW e, e = Head(strand[s]).end
  PROVE  /\ TypeOK /\ StrandsOK /\ Posts /\ strand[s] # <<>> /\ e \in Ends /\ e \notin plain
         /\ StrandOf[e] = s /\ 1 \in W(e, op) /\ Of(e)[1] = Head(strand[s]) /\ ConnectionOK(e)
         /\ Head(strand[s]) \in Handlers /\ Head(strand[s]).op = op
PROOF
  <1>1. TypeOK /\ Posts
    BY DEF IInv
  <1>2. /\ strand[s] # <<>> /\ e \in Ends /\ e \notin plain /\ StrandOf[e] = s
        /\ 1 \in W(e, op) /\ Of(e)[1] = Head(strand[s])
        /\ Head(strand[s]) \in Handlers /\ Head(strand[s]).op = op
    BY <1>1, FrontHandler
  <1> QED BY <1>1, <1>2, Typed DEF IInv, EndOK

LEMMA RunStartStep ==
  ASSUME IInv, NEW s \in Strands, RunStart(s)
  PROVE  IInv'
PROOF
  <1>e. PICK e : e = Head(strand[s]).end
    OBVIOUS
  <1> DEFINE k == [socket[e] EXCEPT !.reading = "size"]
  <1>1. /\ AtFront(s, "start") /\ plain' = plain /\ strand' = Finished(s)
        /\ conn' = conn /\ reader' = reader /\ calls' = calls /\ sent' = sent
        /\ received' = received /\ notified' = notified
        /\ socket' = [socket EXCEPT ![e].reading = "size"]
    BY <1>e DEF RunStart, history
  <1>2. /\ TypeOK /\ StrandsOK /\ strand[s] # <<>> /\ e \in Ends /\ e \notin plain
        /\ StrandOf[e] = s /\ 1 \in W(e, "start") /\ ConnectionOK(e)
    BY <1>1, <1>e, InFront
  <1>3. /\ StrandsOK' /\ Posts'
        /\ \A x \in Ends, ops \in SUBSET Ops : x # e \/ "start" \notin ops => KeptOps(x, ops)
    BY <1>1, <1>e, Running
  <1>4. socket[e] \in Sockets /\ k \in Sockets
    BY <1>2, Fields, SocketFields
  <1>5. /\ k.open = socket[e].open /\ k.writing = socket[e].writing
        /\ k.unread = socket[e].unread /\ k.reading = "size"
    BY <1>4 DEF Sockets
  <1>6. socket' = [socket EXCEPT ![e] = k]
    BY <1>1, <1>2, Types DEF Shape
  <1> HIDE DEF k
  <1>7. /\ TypeOK' /\ \A x \in Ends : x # e => Untouched(x)
        /\ conn'[e] = conn[e] /\ socket'[e] = k /\ reader'[e] = reader[e]
        /\ sent'[e] = sent[e] /\ received'[e] = received[e] /\ notified'[e] = notified[e]
    <2>1. Changes(e, conn[e], k, reader[e], sent[e], received[e], notified[e])
      BY <1>1, <1>2, <1>6, Same DEF Changes
    <2>2. \A x \in Ends : x # e => KeptOps(x, Ops)
      BY <1>3
    <2> QED BY <1>2, <1>3, <1>4, <2>1, <2>2, Fields, Changed
  <1>8. /\ N(e, "start") = N(e, "start")' + 1 /\ N(e, "start") \in Nat /\ N(e, "start")' \in Nat
    BY <1>1, <1>2, OneTaken, MovedUp
  <1>9. /\ N(e, "start")' = 0 /\ N(e, "body") = 0 /\ W(e, "body") = {}
        /\ socket[e].reading = "none" /\ reader[e] = "none"
        /\ conn[e].started
    <2>1. N(e, "body") \in Nat /\ (N(e, "body") = 0 <=> W(e, "body") = {})
      BY <1>2, Counts
    <2>2. Links(e) <= 1 /\ (~conn[e].started => Links(e) = 0)
      BY <1>2 DEF ConnectionOK, ReaderOK
    <2>3. N(e, "start")' = 0 /\ N(e, "body") = 0 /\ socket[e].reading = "none" /\ reader[e] = "none"
      BY <1>8, <2>1, <2>2 DEF Links
    <2> QED BY <1>8, <2>1, <2>2, <2>3 DEF Links
  <1>10. /\ N(e, "body")' = 0 /\ N(e, "deliver")' = N(e, "deliver")
         /\ NoneNew(e, "deliver") /\ NoneNew(e, "body") /\ W(e, "body")' = {}
    <2>1. KeptOps(e, {"body", "deliver"})
      BY <1>2, <1>3 DEF Ops
    <2> QED BY <1>9, <2>1, CountsKept DEF NoneNew
  <1>11. WriterUntouched(e)
    <2>1. KeptOps(e, {"send", "written"})
      BY <1>2, <1>3 DEF Ops
    <2> QED BY <1>5, <1>7, <2>1 DEF WriterUntouched
  <1>12. Links(e)' = 1
    BY <1>5, <1>7, <1>9, <1>10 DEF Links
  <1>13. ReaderOK(e)'
    BY <1>2, <1>7, <1>9, <1>10, <1>12 DEF ConnectionOK, ReaderOK
  <1>14. ChainUntouched(e) /\ WireUntouched(e)
    <2>1. NoneSucceeds(e)
      BY <1>10 DEF NoneSucceeds
    <2> QED BY <1>5, <1>7, <1>9, <1>10, <2>1 DEF ChainUntouched, WireUntouched
  <1>15. Closing(e)'
    BY <1>2, <1>5, <1>7 DEF ConnectionOK, Closing
  <1> QED BY <1>1, <1>2, <1>3, <1>7, <1>11, <1>13, <1>14, <1>15, ReaderStays

LEMMA ReadDataStep ==
  ASSUME IInv, NEW e \in Ends, ReadData(e)
  PROVE  IInv'
PROOF
  <1> DEFINE k == [socket[e] EXCEPT !.reading = "data"]
  <1>1. /\ TypeOK /\ StrandsOK /\ Posts /\ e \notin plain /\ ConnectionOK(e) /\ plain' = plain
        /\ strand' = strand /\ conn' = conn /\ calls' = calls /\ sent' = sent
        /\ received' = received /\ notified' = notified
        /\ reader[e] = "ok" /\ conn[e].size <= MaxMessageSize
        /\ socket' = [socket EXCEPT ![e].reading = "data"]
        /\ reader' = [reader EXCEPT ![e] = "none"]
    <2>1. TypeOK /\ Posts /\ e \notin plain /\ ConnectionOK(e)
      BY DEF IInv, EndOK, PlainOK, ReadData
    <2>2. conn[e].size \in Nat /\ MaxMessageSize \in Nat /\ StrandsOK
      BY <2>1, Typed, SizesAssumption
    <2> QED BY <2>1, <2>2 DEF ReadData, TooLarge, history
  <1>2. /\ StrandsOK' /\ Posts' /\ \A x \in Ends, ops \in SUBSET Ops : KeptOps(x, ops)
    BY <1>1, SameKeeps DEF StrandsOK, Posts, Of
  <1>3. socket[e] \in Sockets /\ k \in Sockets
    BY <1>1, Fields, SocketFields
  <1>4. /\ k.open = socket[e].open /\ k.writing = socket[e].writing
        /\ k.unread = socket[e].unread /\ k.reading = "data"
    BY <1>3 DEF Sockets
  <1>5. socket' = [socket EXCEPT ![e] = k]
    BY <1>1, Types DEF Shape
  <1> HIDE DEF k
  <1>6. /\ TypeOK' /\ \A x \in Ends : x # e => Untouched(x)
        /\ conn'[e] = conn[e] /\ socket'[e] = k /\ reader'[e] = "none"
        /\ sent'[e] = sent[e] /\ received'[e] = received[e] /\ notified'[e] = notified[e]
    <2>1. Changes(e, conn[e], k, "none", sent[e], received[e], notified[e])
      BY <1>1, <1>5, Same DEF Changes
    <2>2. \A x \in Ends : x # e => KeptOps(x, Ops)
      BY <1>2
    <2> QED BY <1>1, <1>2, <1>3, <2>1, <2>2, Fields, Changed
  <1>7. /\ N(e, "start")' = N(e, "start") /\ N(e, "body")' = N(e, "body")
        /\ N(e, "deliver")' = N(e, "deliver") /\ W(e, "body")' = W(e, "body")
        /\ W(e, "deliver")' = W(e, "deliver") /\ Of(e)' = Of(e)
        /\ N(e, "start") \in Nat /\ N(e, "body") \in Nat
        /\ N(e, "body") = 0 <=> W(e, "body") = {}
    BY <1>1, Counts DEF N, W, Of
  <1>8. socket[e].reading = "none" /\ N(e, "body") = 0 /\ W(e, "body") = {}
    BY <1>1, <1>7 DEF ConnectionOK, ReaderOK, Links
  <1>9. WriterUntouched(e)
    <2>1. KeptOps(e, {"send", "written"})
      BY <1>2 DEF Ops
    <2> QED BY <1>4, <1>6, <2>1 DEF WriterUntouched
  <1>10. ReaderOK(e)'
    <2>1. Links(e)' = Links(e)
      BY <1>1, <1>4, <1>6, <1>7, <1>8 DEF Links
    <2> QED BY <1>1, <1>6, <1>7, <2>1 DEF ConnectionOK, ReaderOK
  <1>11. Handed(e)' = Handed(e) /\ SentTo(e)' = SentTo(e)
    BY <1>1, <1>6, <1>7 DEF Handed, SentTo
  <1>12. Comes(e, Handed(e) + 1)
    BY <1>1 DEF ConnectionOK, Chain, Comes
  <1>13. Chain(e)'
    <2>1. \A n : Comes(e, n)' <=> Comes(e, n)
      BY <1>11 DEF Comes
    <2> QED BY <1>1, <1>6, <1>7, <1>8, <1>11, <1>12, <2>1 DEF ConnectionOK, Chain
  <1>14. Wire(e)'
    <2>1. HasRead(e)' = HasRead(e)
      BY <1>1, <1>4, <1>6, <1>7, <1>11 DEF HasRead
    <2>2. ~Failed(e)
      BY <1>1, <1>8 DEF Failed
    <2>3. Untouched(Peer[e]) /\ Peer[e] \in Ends
      BY <1>6, EndsAssumption
    <2>4. SenderKept(Peer[e]) /\ Peer[Peer[e]] = e
      BY <1>1, <2>3, UntouchedSender, EndsAssumption
    <2> QED BY <1>1, <1>4, <1>6, <2>1, <2>2, <2>4, WireSame DEF ConnectionOK, SenderKept
  <1>15. Closing(e)'
    BY <1>1, <1>4, <1>6 DEF ConnectionOK, Closing
  <1> QED BY <1>1, <1>2, <1>6, <1>9, <1>10, <1>13, <1>14, <1>15, ReaderMoves

LEMMA RunDeliverStep ==
  ASSUME IInv, NEW s \in Strands, RunDeliver(s)
  PROVE  IInv'
PROOF
  <1>e. PICK e : e = Head(strand[s]).end
    OBVIOUS
  <1> DEFINE m == Head(strand[s]).message
             v == Append(received[e], m)
  <1>1. /\ AtFront(s, "deliver") /\ plain' = plain /\ strand' = Finished(s)
        /\ conn' = conn /\ socket' = socket /\ reader' = reader /\ calls' = calls
        /\ sent' = sent /\ notified' = notified
        /\ received' = [received EXCEPT ![e] = Append(@, m)]
    BY <1>e DEF RunDeliver, Delivered
  <1>2. /\ TypeOK /\ StrandsOK /\ strand[s] # <<>> /\ e \in Ends /\ e \notin plain
        /\ StrandOf[e] = s /\ 1 \in W(e, "deliver") /\ ConnectionOK(e)
        /\ Of(e)[1] = Head(strand[s])
    BY <1>1, <1>e, InFront
  <1>3. /\ StrandsOK' /\ Posts'
        /\ \A x \in Ends, ops \in SUBSET Ops : x # e \/ "deliver" \notin ops => KeptOps(x, ops)
    BY <1>1, <1>e, Running
  <1>4. m \in Received
    <2>1. Comes(e, Len(received[e]) + 1) /\ m = SentTo(e)[Len(received[e]) + 1]
      BY <1>2 DEF ConnectionOK, Chain
    <2>2. SentTo(e) \in Seq(Messages)
      BY <1>2, Typed DEF SentTo
    <2> QED BY <2>1, <2>2 DEF Comes, Received
  <1>5. received[e] \in Seq(Received)
    BY <1>2, Fields
  <1>6. v \in Seq(Received) /\ Len(v) = Len(received[e]) + 1 /\ Len(received[e]) \in Nat
    BY <1>4, <1>5
  <1>7. received' = [received EXCEPT ![e] = v]
    BY <1>1, <1>2, Types DEF Shape
  <1> HIDE DEF m, v
  <1>8. /\ TypeOK' /\ \A x \in Ends : x # e => Untouched(x)
        /\ conn'[e] = conn[e] /\ socket'[e] = socket[e] /\ reader'[e] = reader[e]
        /\ sent'[e] = sent[e] /\ received'[e] = v /\ notified'[e] = notified[e]
    <2>1. Changes(e, conn[e], socket[e], reader[e], sent[e], v, notified[e])
      BY <1>1, <1>2, <1>7, Same DEF Changes
    <2>2. \A x \in Ends : x # e => KeptOps(x, Ops)
      BY <1>3
    <2> QED BY <1>2, <1>3, <1>6, <2>1, <2>2, Fields, Changed
  <1>9. N(e, "deliver") = 1 /\ N(e, "deliver")' = 0 /\ W(e, "deliver")' = {}
    <2>1. N(e, "deliver") = N(e, "deliver")' + 1 /\ N(e, "deliver")' \in Nat
      BY <1>1, <1>2, OneTaken, MovedUp
    <2>2. N(e, "deliver") <= 1
      BY <1>2 DEF ConnectionOK, ReaderOK
    <2>3. N(e, "deliver") = 1 /\ N(e, "deliver")' = 0
      BY <2>1, <2>2
    <2>4. Of(e)' \in Seq(Handlers)
      BY <1>2, <1>3 DEF StrandsOK, Strands, Of
    <2> QED BY <2>3, <2>4, Finite DEF N, W
  <1>10. /\ N(e, "start")' = N(e, "start") /\ N(e, "body")' = N(e, "body") /\ NoneNew(e, "body")
    <2>1. KeptOps(e, {"start", "body"})
      BY <1>2, <1>3 DEF Ops
    <2> QED BY <2>1, CountsKept DEF NoneNew
  <1>11. WriterUntouched(e)
    <2>1. KeptOps(e, {"send", "written"})
      BY <1>2, <1>3 DEF Ops
    <2> QED BY <1>8, <2>1 DEF WriterUntouched
  <1>12. ReaderOK(e)'
    <2>1. Links(e)' = Links(e)
      BY <1>8, <1>10 DEF Links
    <2> QED BY <1>2, <1>8, <1>9, <2>1 DEF ConnectionOK, ReaderOK
  <1>13. Handed(e)' = Handed(e) /\ SentTo(e)' = SentTo(e)
    BY <1>1, <1>6, <1>8, <1>9 DEF Handed, SentTo
  <1>14. Chain(e)'
    <2>1. \A n : Comes(e, n)' <=> Comes(e, n)
      BY <1>13 DEF Comes
    <2>2. \A i \in W(e, "body")' :
            Of(e)'[i].ok => Comes(e, Handed(e) + 1) /\ conn[e].data = SentTo(e)[Handed(e) + 1]
      BY <1>2, <1>10 DEF ConnectionOK, Chain, NoneNew
    <2> QED BY <1>2, <1>8, <1>9, <1>13, <2>1, <2>2 DEF ConnectionOK, Chain
  <1>15. Wire(e)'
    <2>1. HasRead(e)' = HasRead(e)
      BY <1>8, <1>10, <1>13 DEF HasRead
    <2>2. Failed(e) => Failed(e)'
      BY <1>8, <1>10 DEF Failed, NoneNew
    <2>3. Untouched(Peer[e]) /\ Peer[e] \in Ends
      BY <1>2, <1>8, EndsAssumption
    <2>4. SenderKept(Peer[e]) /\ Peer[Peer[e]] = e
      BY <1>1, <1>2, <2>3, UntouchedSender, EndsAssumption
    <2> QED BY <1>2, <1>8, <2>1, <2>2, <2>4, WireSame DEF ConnectionOK, SenderKept
  <1>16. Closing(e)'
    BY <1>2, <1>8 DEF ConnectionOK, Closing
  <1> QED BY <1>1, <1>2, <1>3, <1>8, <1>11, <1>12, <1>14, <1>15, <1>16, ReaderMoves

LEMMA RunBodyStep ==
  ASSUME IInv, NEW s \in Strands, RunBody(s)
  PROVE  IInv'
PROOF
  <1>e. PICK e : e = Head(strand[s]).end
    OBVIOUS
  <1> DEFINE h == Carrying(e, "deliver", conn[e].data)
             k == [socket[e] EXCEPT !.reading = "size"]
  <1>1. /\ AtFront(s, "body") /\ Head(strand[s]).ok /\ plain' = plain
        /\ strand' = Posted(Finished(s), e, h)
        /\ conn' = conn /\ reader' = reader /\ calls' = calls /\ sent' = sent
        /\ received' = received /\ notified' = notified
        /\ socket' = [socket EXCEPT ![e].reading = "size"]
    BY <1>e DEF RunBody, history
  <1>2. /\ TypeOK /\ StrandsOK /\ Posts /\ strand[s] # <<>> /\ e \in Ends /\ e \notin plain
        /\ StrandOf[e] = s /\ 1 \in W(e, "body") /\ ConnectionOK(e)
        /\ Of(e)[1] = Head(strand[s]) /\ Head(strand[s]).op = "body"
    BY <1>1, <1>e, InFront
  <1>3. Comes(e, Handed(e) + 1) /\ conn[e].data = SentTo(e)[Handed(e) + 1]
    BY <1>1, <1>2 DEF ConnectionOK, Chain
  <1>4. h \in Handlers /\ h.end = e /\ h.op = "deliver" /\ h.message = conn[e].data
    <2>1. SentTo(e) \in Seq(Messages)
      BY <1>2, Typed DEF SentTo
    <2>2. conn[e].data \in Messages
      BY <1>3, <2>1 DEF Comes
    <2> QED BY <1>2, <2>2 DEF Handlers, Carrying
  <1>5. socket[e] \in Sockets /\ k \in Sockets
    BY <1>2, Fields, SocketFields
  <1>6. /\ k.open = socket[e].open /\ k.writing = socket[e].writing
        /\ k.unread = socket[e].unread /\ k.reading = "size"
    BY <1>5 DEF Sockets
  <1>7. socket' = [socket EXCEPT ![e] = k]
    BY <1>1, <1>2, Types DEF Shape
  <1> HIDE DEF h, k
  <1>8. W(e, "deliver") = {} /\ N(e, "deliver") = 0
    <2>1. \A i \in W(e, "deliver") : i < 1
      BY <1>2 DEF ConnectionOK, ReaderOK
    <2>2. W(e, "deliver") \subseteq 1 .. Len(Of(e)) /\ (N(e, "deliver") = 0 <=> W(e, "deliver") = {})
      BY <1>2, Counts
    <2>3. \A i \in W(e, "deliver") : FALSE
      BY <2>1, <2>2
    <2> QED BY <2>2, <2>3
  <1>9. /\ StrandsOK' /\ Posts' /\ N(e, "body") = N(e, "body")' + 1
        /\ N(e, "deliver")' = 1 /\ \A i \in W(e, "deliver")' : Of(e)'[i] = h
    BY <1>1, <1>2, <1>4, <1>8, OneMoved
  <1>10. \A x \in Ends, ops \in SUBSET Ops :
           x # e \/ ("body" \notin ops /\ "deliver" \notin ops) => KeptOps(x, ops)
    BY <1>1, <1>2, <1>4, <1>e, MoveKeeps
  <1>11. /\ TypeOK' /\ \A x \in Ends : x # e => Untouched(x)
         /\ conn'[e] = conn[e] /\ socket'[e] = k /\ reader'[e] = reader[e]
         /\ sent'[e] = sent[e] /\ received'[e] = received[e] /\ notified'[e] = notified[e]
    <2>1. Changes(e, conn[e], k, reader[e], sent[e], received[e], notified[e])
      BY <1>1, <1>2, <1>7, Same DEF Changes
    <2>2. \A x \in Ends : x # e => KeptOps(x, Ops)
      BY <1>10
    <2> QED BY <1>2, <1>5, <1>9, <2>1, <2>2, Fields, Changed
  <1>12. Of(e)' \in Seq(Handlers)
    BY <1>2, <1>9 DEF StrandsOK, Strands, Of
  <1>13. /\ N(e, "body") = 1 /\ N(e, "body")' = 0 /\ W(e, "body")' = {}
         /\ N(e, "start") = 0 /\ N(e, "start")' = 0 /\ reader[e] = "none"
         /\ socket[e].reading = "none" /\ conn[e].started
    <2>1. N(e, "body")' \in Nat /\ (N(e, "body")' = 0 <=> W(e, "body")' = {})
      BY <1>12, Finite DEF N, W
    <2>2. N(e, "start")' = N(e, "start") /\ N(e, "start") \in Nat
      <3>1. KeptOps(e, {"start"})
        BY <1>2, <1>10 DEF Ops
      <3> QED BY <1>2, <3>1, CountsKept, Counts
    <2>3. Links(e) <= 1 /\ (~conn[e].started => Links(e) = 0)
      BY <1>2 DEF ConnectionOK, ReaderOK
    <2>4. /\ N(e, "body")' = 0 /\ N(e, "start") = 0 /\ reader[e] = "none"
          /\ socket[e].reading = "none"
      BY <1>9, <2>1, <2>2, <2>3 DEF Links
    <2> QED BY <1>9, <2>1, <2>2, <2>3, <2>4 DEF Links
  <1>14. WriterUntouched(e)
    <2>1. KeptOps(e, {"send", "written"})
      BY <1>2, <1>10 DEF Ops
    <2> QED BY <1>6, <1>11, <2>1 DEF WriterUntouched
  <1>15. ReaderOK(e)'
    <2>1. Links(e)' = 1
      BY <1>6, <1>11, <1>13 DEF Links
    <2> QED BY <1>2, <1>9, <1>11, <1>13, <2>1 DEF ConnectionOK, ReaderOK
  <1>16. SentTo(e)' = SentTo(e) /\ Handed(e) = Len(received[e]) /\ Len(received[e]) \in Nat
         /\ Handed(e)' = Len(received[e]) + 1
    <2>1. Len(received[e]) \in Nat
      BY <1>2, Typed
    <2> QED BY <1>1, <1>8, <1>9, <1>11, <2>1 DEF Handed, SentTo
  <1>17. Chain(e)'
    <2>1. \A n : Comes(e, n)' <=> Comes(e, n)
      BY <1>16 DEF Comes
    <2>2. \A i \in W(e, "deliver")' :
            /\ Comes(e, Len(received[e]) + 1)
            /\ Of(e)'[i].message = SentTo(e)[Len(received[e]) + 1]
      BY <1>3, <1>4, <1>9, <1>16
    <2> QED BY <1>6, <1>11, <1>13, <1>16, <2>1, <2>2 DEF Chain
  <1>18. Wire(e)'
    <2>1. HasRead(e)' = HasRead(e)
      <3>1. HasRead(e) = 2 * Len(received[e]) + 2
        BY <1>13, <1>16 DEF HasRead
      <3>2. HasRead(e)' = 2 * (Len(received[e]) + 1) + 0
        BY <1>6, <1>11, <1>13, <1>16 DEF HasRead
      <3> QED BY <1>16, <3>1, <3>2
    <2>2. ~Failed(e)
      BY <1>1, <1>2, <1>13 DEF Failed
    <2>3. Untouched(Peer[e]) /\ Peer[e] \in Ends
      BY <1>2, <1>11, EndsAssumption
    <2>4. SenderKept(Peer[e]) /\ Peer[Peer[e]] = e
      BY <1>1, <1>2, <2>3, UntouchedSender, EndsAssumption
    <2> QED BY <1>2, <1>6, <1>11, <2>1, <2>2, <2>4, WireSame DEF ConnectionOK, SenderKept
  <1>19. Closing(e)'
    BY <1>2, <1>6, <1>11 DEF ConnectionOK, Closing
  <1> QED BY <1>1, <1>2, <1>9, <1>11, <1>14, <1>15, <1>17, <1>18, <1>19, ReaderMoves

LEMMA CompletionOK ==
  ASSUME NEW e \in Ends, NEW op \in {"body", "written"}, NEW ok \in BOOLEAN
  PROVE  LET h == Completion(e, op, ok) IN
         h \in Handlers /\ h.end = e /\ h.op = op /\ h.ok = ok
PROOF
  <1>1. Completion(e, op, ok) \in Handlers
    <2>1. Completion(e, op, ok) \in {Completion(x, o, b) : x \in Ends, o \in {"body", "written"},
                                                       b \in BOOLEAN}
      OBVIOUS
    <2> QED BY <2>1 DEF Handlers
  <1>2. Completion(e, op, ok).end = e /\ Completion(e, op, ok).op = op
    BY DEF Completion
  <1>3. Completion(e, op, ok).ok = ok
    BY Zenon DEF Completion
  <1> QED BY <1>1, <1>2, <1>3

\* A read that ends leaves the one link of the chain to the handler it completes.
LEMMA ReadEnds ==
  ASSUME IInv, NEW e \in Ends, socket[e].reading # "none"
  PROVE  /\ TypeOK /\ StrandsOK /\ Posts /\ e \notin plain /\ ConnectionOK(e)
         /\ N(e, "start") = 0 /\ N(e, "body") = 0 /\ W(e, "body") = {} /\ reader[e] = "none"
         /\ conn[e].started /\ ~Failed(e)
PROOF
  <1>1. TypeOK /\ Posts /\ e \notin plain /\ ConnectionOK(e)
    BY DEF IInv, EndOK, PlainOK
  <1>2. /\ StrandsOK /\ N(e, "start") \in Nat /\ N(e, "body") \in Nat
        /\ N(e, "body") = 0 <=> W(e, "body") = {}
    BY <1>1, Typed, Counts
  <1>3. Links(e) <= 1 /\ (~conn[e].started => Links(e) = 0)
    BY <1>1 DEF ConnectionOK, ReaderOK
  <1>4. N(e, "start") = 0 /\ N(e, "body") = 0 /\ reader[e] = "none" /\ conn[e].started
    BY <1>2, <1>3 DEF Links
  <1> QED BY <1>1, <1>2, <1>4 DEF Failed

LEMMA ReadFailsStep ==
  ASSUME IInv, NEW e \in Ends, ReadFails(e)
  PROVE  IInv'
PROOF
  <1> DEFINE h == Completion(e, "body", FALSE)
             k == [socket[e] EXCEPT !.reading = "none"]
  <1>1. /\ plain' = plain /\ conn' = conn /\ calls' = calls /\ sent' = sent
        /\ received' = received /\ notified' = notified /\ socket[e].reading # "none"
        /\ socket' = [socket EXCEPT ![e].reading = "none"]
        /\ \/ /\ reader' = [reader EXCEPT ![e] = "error"] /\ strand' = strand
           \/ /\ strand' = Posted(strand, e, h) /\ reader' = reader
    BY DEF ReadFails, ReadCompletes, history
  <1>2. /\ TypeOK /\ StrandsOK /\ Posts /\ e \notin plain /\ ConnectionOK(e)
        /\ N(e, "start") = 0 /\ N(e, "body") = 0 /\ W(e, "body") = {} /\ reader[e] = "none"
        /\ conn[e].started
    BY <1>1, ReadEnds
  <1>3. h \in Handlers /\ h.end = e /\ h.op = "body" /\ ~h.ok
    BY CompletionOK
  <1>4. socket[e] \in Sockets /\ k \in Sockets
    BY <1>2, Fields, SocketFields
  <1>5. /\ k.open = socket[e].open /\ k.writing = socket[e].writing
        /\ k.unread = socket[e].unread /\ k.reading = "none"
    BY <1>4 DEF Sockets
  <1>6. socket' = [socket EXCEPT ![e] = k]
    BY <1>1, <1>2, Types DEF Shape
  <1> HIDE DEF h, k
  <1>7. /\ StrandsOK' /\ Posts'
        /\ \A x \in Ends, ops \in SUBSET Ops : x # e \/ "body" \notin ops => KeptOps(x, ops)
    <2>1. CASE strand' = strand
      BY <1>1, <1>2, <2>1, SameKeeps DEF StrandsOK, Posts, Of
    <2>2. CASE strand' = Posted(strand, e, h)
      BY <1>1, <1>2, <1>3, <2>2, Posting
    <2> QED BY <1>1, <2>1, <2>2
  <1>8. ASSUME NEW r \in {"none", "ok", "error"}, reader' = [reader EXCEPT ![e] = r]
        PROVE  /\ TypeOK' /\ \A x \in Ends : x # e => Untouched(x)
               /\ conn'[e] = conn[e] /\ socket'[e] = k /\ reader'[e] = r
               /\ sent'[e] = sent[e] /\ received'[e] = received[e] /\ notified'[e] = notified[e]
    <2>1. Changes(e, conn[e], k, r, sent[e], received[e], notified[e])
      BY <1>1, <1>2, <1>6, <1>8, Same DEF Changes
    <2>2. \A x \in Ends : x # e => KeptOps(x, Ops)
      BY <1>7
    <2> QED BY <1>2, <1>4, <1>7, <2>1, <2>2, Fields, Changed
  <1>9. /\ TypeOK' /\ \A x \in Ends : x # e => Untouched(x)
        /\ conn'[e] = conn[e] /\ socket'[e] = k /\ sent'[e] = sent[e]
        /\ received'[e] = received[e] /\ notified'[e] = notified[e]
        /\ \/ reader'[e] = "error" /\ strand' = strand
           \/ strand' = Posted(strand, e, h) /\ reader'[e] = "none"
    <2>1. CASE reader' = [reader EXCEPT ![e] = "error"] /\ strand' = strand
      BY <1>8, <2>1
    <2>2. CASE strand' = Posted(strand, e, h) /\ reader' = reader
      <3>1. reader' = [reader EXCEPT ![e] = "none"]
        BY <1>2, <2>2, Same
      <3> QED BY <1>8, <2>2, <3>1
    <2> QED BY <1>1, <2>1, <2>2
  <1>10. /\ N(e, "start")' = 0 /\ N(e, "deliver")' = N(e, "deliver") /\ NoneNew(e, "deliver")
    <2>1. KeptOps(e, {"start", "deliver"})
      BY <1>2, <1>7 DEF Ops
    <2> QED BY <1>2, <2>1, CountsKept DEF NoneNew
  <1>11. /\ \/ reader'[e] = "error" /\ W(e, "body")' = {} /\ N(e, "body")' = 0
            \/ reader'[e] = "none" /\ N(e, "body")' = 1
         /\ \A i \in W(e, "body")' : ~Of(e)'[i].ok /\ \A j \in W(e, "deliver")' : j < i
    <2>1. CASE reader'[e] = "error" /\ strand' = strand
      BY <1>2, <2>1 DEF W, N, Of
    <2>2. CASE strand' = Posted(strand, e, h) /\ reader'[e] = "none"
      <3>n. PICK n : n = Len(Of(e)) + 1
        OBVIOUS
      <3>1. /\ W(e, h.op)' = W(e, h.op) \cup {n} /\ Of(e)'[n] = h
            /\ N(e, h.op)' = N(e, h.op) + 1
            /\ \A op \in Ops : op # h.op => \A i \in W(e, op)' : i < n
        BY <1>2, <1>3, <2>2, <3>n, OnePosted
      <3>2. W(e, "body")' = {n} /\ N(e, "body")' = 1 /\ Of(e)'[n] = h
        BY <1>2, <1>3, <3>1
      <3>3. \A i \in W(e, "deliver")' : i < n
        BY <1>3, <3>1 DEF Ops
      <3> QED BY <1>3, <2>2, <3>2, <3>3
    <2> QED BY <1>9, <2>1, <2>2
  <1>12. WriterUntouched(e)
    <2>1. KeptOps(e, {"send", "written"})
      BY <1>2, <1>7 DEF Ops
    <2> QED BY <1>5, <1>9, <2>1 DEF WriterUntouched
  <1>13. ReaderOK(e)'
    <2>1. Links(e)' = 1
      BY <1>5, <1>9, <1>10, <1>11 DEF Links
    <2> QED BY <1>2, <1>9, <1>10, <1>11, <2>1 DEF ConnectionOK, ReaderOK
  <1>14. ChainUntouched(e) /\ Failed(e)'
    <2>1. NoneSucceeds(e)
      BY <1>11 DEF NoneSucceeds
    <2>2. Failed(e)'
      BY <1>11 DEF Failed
    <2> QED BY <1>5, <1>9, <1>10, <1>11, <2>1, <2>2 DEF ChainUntouched
  <1>15. Closing(e)'
    BY <1>2, <1>5, <1>9 DEF ConnectionOK, Closing
  <1> QED BY <1>1, <1>2, <1>7, <1>9, <1>12, <1>13, <1>14, <1>15, ReaderStays

LEMMA ReadCounts ==
  ASSUME TypeOK, NEW e \in Ends
  PROVE  Handed(e) \in Nat /\ HasRead(e) \in Nat
PROOF
  <1>1. Len(received[e]) \in Nat /\ N(e, "deliver") \in Nat
    BY Typed, Counts
  <1>2. Handed(e) \in Nat
    BY <1>1 DEF Handed
  <1> QED BY <1>2 DEF HasRead

\* The part that comes next.
LEMMA NextPart ==
  ASSUME TypeOK, NEW e \in Ends, Holds(e), socket[e].unread # <<>>, NEW n \in Nat
  PROVE  /\ HasRead(e) = 2 * n => /\ n + 1 \in DOMAIN SentTo(e)
                                  /\ Head(socket[e].unread) = Part("size", SentTo(e)[n + 1])
         /\ HasRead(e) = 2 * n + 1 => /\ n + 1 \in DOMAIN SentTo(e)
                                      /\ Head(socket[e].unread) = Part("data", SentTo(e)[n + 1])
PROOF
  <1>1. socket[e].unread \in Seq(Bytes) /\ SentTo(e) \in Seq(Messages)
    BY Typed DEF SentTo
  <1>2. /\ 1 \in DOMAIN socket[e].unread /\ Head(socket[e].unread) = socket[e].unread[1]
        /\ Len(socket[e].unread) \in Nat /\ Len(socket[e].unread) >= 1
    BY <1>1
  <1>3. Len(SentTo(e)) \in Nat /\ DOMAIN SentTo(e) = 1 .. Len(SentTo(e))
    BY <1>1
  <1>4. HasRead(e) \in {2 * n, 2 * n + 1} => n + 1 \in DOMAIN SentTo(e)
    <2>1. HasRead(e) + Len(socket[e].unread) <= 2 * Len(SentTo(e))
      BY DEF Holds
    <2>2. ASSUME HasRead(e) \in {2 * n, 2 * n + 1} PROVE n + 1 <= Len(SentTo(e))
      BY <1>2, <1>3, <2>1, <2>2
    <2> QED BY <1>3, <2>2
  <1>5. HasRead(e) + 1 = 2 * (n + 1) - 1 <=> HasRead(e) = 2 * n
    BY ReadCounts
  <1>6. HasRead(e) + 1 = 2 * (n + 1) <=> HasRead(e) = 2 * n + 1
    BY ReadCounts
  <1> QED BY <1>2, <1>4, <1>5, <1>6 DEF Holds

LEMMA HoldsRest ==
  ASSUME TypeOK, NEW e \in Ends, Holds(e), socket[e].unread # <<>>, HasRead(e) \in Nat,
         socket'[e].unread = Tail(socket[e].unread), HasRead(e)' = HasRead(e) + 1,
         SentTo(e)' = SentTo(e)
  PROVE  /\ Holds(e)' /\ HasRead(e)' + Len(socket'[e].unread) = HasRead(e) + Len(socket[e].unread)
PROOF
  <1> DEFINE u == socket[e].unread
             t == Tail(u)
  <1>1. u \in Seq(Bytes) /\ u # <<>>
    BY Typed
  <1>2. /\ Len(t) = Len(u) - 1 /\ Len(u) \in Nat /\ t \in Seq(Bytes)
        /\ \A j \in 1 .. Len(t) : t[j] = u[j + 1] /\ j + 1 \in 1 .. Len(u)
        /\ DOMAIN t = 1 .. Len(t) /\ DOMAIN u = 1 .. Len(u)
    BY <1>1
  <1>3. Len(SentTo(e)) \in Nat
    BY Typed DEF SentTo
  <1> HIDE DEF u, t
  <1>4. HasRead(e)' + Len(t) = HasRead(e) + Len(u)
    BY <1>2
  <1>5. ASSUME NEW j \in DOMAIN t, NEW k \in DOMAIN SentTo(e)
        PROVE  /\ HasRead(e)' + j = 2 * k - 1 => t[j] = Part("size", SentTo(e)[k])
               /\ HasRead(e)' + j = 2 * k => t[j] = Part("data", SentTo(e)[k])
    <2>1. j + 1 \in DOMAIN u /\ t[j] = u[j + 1] /\ j \in Int
      BY <1>2
    <2>2. HasRead(e)' + j = HasRead(e) + (j + 1)
      BY <2>1
    <2> QED BY <2>1, <2>2 DEF Holds, u
  <1>6. HasRead(e)' + Len(t) <= 2 * Len(SentTo(e))
    BY <1>4 DEF Holds, u
  <1> QED BY <1>4, <1>5, <1>6 DEF Holds, u, t

\* What ReadSucceeds reads, and what is left.
LEMMA ReadTakes ==
  ASSUME IInv, NEW e \in Ends, ReadSucceeds(e),
         NEW k, k = [socket[e] EXCEPT !.reading = "none", !.unread = Tail(socket[e].unread)]
  PROVE  /\ socket[e].open /\ socket[e].unread # <<>> /\ Holds(e) /\ HasRead(e) \in Nat
         /\ Handed(e) \in Nat /\ Handed(e) + 1 \in DOMAIN SentTo(e)
         /\ Head(socket[e].unread).message = SentTo(e)[Handed(e) + 1]
         /\ SentTo(e)[Handed(e) + 1] \in Messages
         /\ socket[e].reading = "size" => HasRead(e) = 2 * Handed(e)
         /\ socket[e].reading = "data" => HasRead(e) = 2 * Handed(e) + 1
         /\ socket' = [socket EXCEPT ![e] = k] /\ k \in Sockets
         /\ k.open = socket[e].open /\ k.writing = socket[e].writing /\ k.reading = "none"
         /\ k.unread = Tail(socket[e].unread)
PROOF
  <1>1. /\ socket[e].reading # "none" /\ socket[e].open /\ socket[e].unread # <<>>
        /\ socket' = [socket EXCEPT ![e].reading = "none", ![e].unread = Tail(@)]
    BY DEF ReadSucceeds
  <1>2. TypeOK /\ ConnectionOK(e) /\ ~Failed(e) /\ N(e, "body") = 0 /\ reader[e] = "none"
    BY <1>1, ReadEnds
  <1>3. Holds(e)
    BY <1>1, <1>2 DEF ConnectionOK, Wire
  <1>4. Handed(e) \in Nat /\ HasRead(e) \in Nat
    BY <1>2, ReadCounts
  <1>5. /\ socket[e].reading = "size" => HasRead(e) = 2 * Handed(e)
        /\ socket[e].reading = "data" => HasRead(e) = 2 * Handed(e) + 1
    BY <1>2, <1>4 DEF HasRead
  <1>6. socket[e] \in Sockets /\ socket[e].reading \in {"size", "data"}
    <2>1. socket[e] \in Sockets
      BY <1>2, Fields
    <2> QED BY <1>1, <2>1 DEF Sockets
  <1>7. /\ Handed(e) + 1 \in DOMAIN SentTo(e)
        /\ Head(socket[e].unread).message = SentTo(e)[Handed(e) + 1]
    <2>1. /\ HasRead(e) = 2 * Handed(e) \/ HasRead(e) = 2 * Handed(e) + 1
      BY <1>5, <1>6
    <2>2. /\ Handed(e) + 1 \in DOMAIN SentTo(e)
          /\ \/ Head(socket[e].unread) = Part("size", SentTo(e)[Handed(e) + 1])
             \/ Head(socket[e].unread) = Part("data", SentTo(e)[Handed(e) + 1])
      BY <1>1, <1>2, <1>3, <1>4, <2>1, NextPart
    <2> QED BY <2>2 DEF Part
  <1>8. SentTo(e)[Handed(e) + 1] \in Messages
    <2>1. SentTo(e) \in Seq(Messages)
      BY <1>2, Typed DEF SentTo
    <2> QED BY <1>7, <2>1
  <1>9. /\ k.open = socket[e].open /\ k.writing = socket[e].writing /\ k.reading = "none"
        /\ k.unread = Tail(socket[e].unread)
    BY <1>6 DEF Sockets
  <1>10. Tail(socket[e].unread) \in Seq(Bytes)
    <2>1. socket[e].unread \in Seq(Bytes)
      BY <1>2, Typed
    <2> QED BY <1>1, <2>1
  <1>11. k \in Sockets
    BY <1>6, <1>10 DEF Sockets
  <1>12. socket' = [socket EXCEPT ![e] = k]
    BY <1>1, <1>2, Types DEF Shape
  <1> QED BY <1>1, <1>3, <1>4, <1>5, <1>6, <1>7, <1>8, <1>9, <1>11, <1>12

\* The number of bytes of the next message.
LEMMA ReadSizeStep ==
  ASSUME IInv, NEW e \in Ends, ReadSucceeds(e), socket[e].reading = "size"
  PROVE  IInv'
PROOF
  <1>k. PICK k : k = [socket[e] EXCEPT !.reading = "none", !.unread = Tail(socket[e].unread)]
    OBVIOUS
  <1>m. PICK m : m = SentTo(e)[Handed(e) + 1]
    OBVIOUS
  <1> DEFINE c == [conn[e] EXCEPT !.size = m.size]
  <1>1. /\ TypeOK /\ StrandsOK /\ Posts /\ e \notin plain /\ ConnectionOK(e)
        /\ N(e, "start") = 0 /\ N(e, "body") = 0 /\ W(e, "body") = {} /\ reader[e] = "none"
        /\ conn[e].started
    BY ReadEnds
  <1>2. /\ socket[e].open /\ socket[e].unread # <<>> /\ Holds(e) /\ HasRead(e) \in Nat
        /\ Handed(e) \in Nat /\ Handed(e) + 1 \in DOMAIN SentTo(e)
        /\ Head(socket[e].unread).message = m /\ m \in Messages
        /\ HasRead(e) = 2 * Handed(e)
        /\ socket' = [socket EXCEPT ![e] = k] /\ k \in Sockets
        /\ k.open = socket[e].open /\ k.writing = socket[e].writing /\ k.reading = "none"
        /\ k.unread = Tail(socket[e].unread)
    BY <1>k, <1>m, ReadTakes, ZenonT(60)
  <1>3. /\ plain' = plain /\ calls' = calls /\ sent' = sent /\ strand' = strand
        /\ received' = received /\ notified' = notified
        /\ reader' = [reader EXCEPT ![e] = "ok"]
        /\ conn' = [conn EXCEPT ![e].size = m.size]
    BY <1>2 DEF ReadSucceeds, ReadCompletes, history
  <1>4. m.size \in Nat /\ conn[e] \in Conns
    BY <1>1, <1>2, Fields, SizesAssumption
  <1>5. c \in Conns
    BY <1>4, ConnFields
  <1>6. /\ c.closer = conn[e].closer /\ c.started = conn[e].started
        /\ c.sendQueue = conn[e].sendQueue /\ c.size = m.size
    BY <1>4 DEF Conns
  <1>7. conn' = [conn EXCEPT ![e] = c]
    BY <1>1, <1>3, Types DEF Shape
  <1> HIDE DEF c
  <1>8. /\ StrandsOK' /\ Posts' /\ \A x \in Ends, ops \in SUBSET Ops : KeptOps(x, ops)
    BY <1>1, <1>3, SameKeeps DEF StrandsOK, Posts, Of
  <1>9. /\ TypeOK' /\ \A x \in Ends : x # e => Untouched(x)
        /\ conn'[e] = c /\ socket'[e] = k /\ reader'[e] = "ok"
        /\ sent'[e] = sent[e] /\ received'[e] = received[e] /\ notified'[e] = notified[e]
    <2>1. Changes(e, c, k, "ok", sent[e], received[e], notified[e])
      BY <1>1, <1>2, <1>3, <1>7, Same DEF Changes
    <2>2. \A x \in Ends : x # e => KeptOps(x, Ops)
      BY <1>8
    <2> QED BY <1>1, <1>2, <1>5, <1>8, <2>1, <2>2, Fields, Changed
  <1>10. /\ N(e, "start")' = 0 /\ N(e, "body")' = 0 /\ W(e, "body")' = {}
         /\ N(e, "deliver")' = N(e, "deliver") /\ W(e, "deliver")' = W(e, "deliver")
         /\ Of(e)' = Of(e)
    BY <1>1, <1>3 DEF N, W, Of
  <1>11. WriterUntouched(e)
    <2>1. KeptOps(e, {"send", "written"})
      BY <1>8 DEF Ops
    <2> QED BY <1>2, <1>6, <1>9, <2>1 DEF WriterUntouched
  <1>12. ReaderOK(e)'
    <2>1. Links(e)' = 1
      BY <1>2, <1>9, <1>10 DEF Links
    <2>2. N(e, "deliver") <= 1
      BY <1>1 DEF ConnectionOK, ReaderOK
    <2>3. conn'[e].started
      BY <1>1, <1>6, <1>9
    <2> QED BY <1>10, <2>1, <2>2, <2>3 DEF ReaderOK
  <1>13. Handed(e)' = Handed(e) /\ SentTo(e)' = SentTo(e)
    BY <1>3, <1>10 DEF Handed, SentTo
  <1>14. Chain(e)'
    <2>1. \A n : Comes(e, n)' <=> Comes(e, n)
      BY <1>13 DEF Comes
    <2>2. conn'[e].size = SentTo(e)[Handed(e) + 1].size
      BY <1>m, <1>6, <1>9
    <2> QED BY <1>1, <1>2, <1>3, <1>9, <1>10, <1>13, <2>1, <2>2 DEF ConnectionOK, Chain
  <1>15. Wire(e)'
    <2>1. HasRead(e)' = HasRead(e) + 1
      BY <1>2, <1>9, <1>13 DEF HasRead
    <2>2. /\ Holds(e)'
          /\ HasRead(e)' + Len(socket'[e].unread) = HasRead(e) + Len(socket[e].unread)
      BY <1>1, <1>2, <1>9, <1>13, <2>1, HoldsRest
    <2>3. /\ Untouched(Peer[e]) /\ Peer[e] \in Ends /\ Peer[e] # e
      BY <1>9, EndsAssumption
    <2>4. socket'[Peer[e]] = socket[Peer[e]] /\ Put(Peer[e])' = Put(Peer[e])
      BY <1>3, <2>3, SidesUntouched, PutKept DEF Untouched
    <2>5. ~Failed(e)
      BY ReadEnds
    <2>6. socket[Peer[e]].open => HasRead(e) + Len(socket[e].unread) = Put(Peer[e])
      BY <1>1, <1>2, <2>5 DEF ConnectionOK, Wire
    <2> QED BY <2>2, <2>4, <2>6 DEF Wire
  <1>16. Closing(e)'
    BY <1>1, <1>2, <1>6, <1>9 DEF ConnectionOK, Closing
  <1> QED BY <1>1, <1>3, <1>8, <1>9, <1>11, <1>12, <1>14, <1>15, <1>16, ReaderMoves

\* The bytes of the message themselves.
LEMMA ReadBodyStep ==
  ASSUME IInv, NEW e \in Ends, ReadSucceeds(e), socket[e].reading = "data"
  PROVE  IInv'
PROOF
  <1>k. PICK k : k = [socket[e] EXCEPT !.reading = "none", !.unread = Tail(socket[e].unread)]
    OBVIOUS
  <1>m. PICK m : m = SentTo(e)[Handed(e) + 1]
    OBVIOUS
  <1> DEFINE c == [conn[e] EXCEPT !.data = m]
             h == Completion(e, "body", TRUE)
  <1>1. /\ TypeOK /\ StrandsOK /\ Posts /\ e \notin plain /\ ConnectionOK(e)
        /\ N(e, "start") = 0 /\ N(e, "body") = 0 /\ W(e, "body") = {} /\ reader[e] = "none"
        /\ conn[e].started
    BY ReadEnds
  <1>2. /\ socket[e].open /\ socket[e].unread # <<>> /\ Holds(e) /\ HasRead(e) \in Nat
        /\ Handed(e) \in Nat /\ Handed(e) + 1 \in DOMAIN SentTo(e)
        /\ Head(socket[e].unread).message = m /\ m \in Messages
        /\ HasRead(e) = 2 * Handed(e) + 1
        /\ socket' = [socket EXCEPT ![e] = k] /\ k \in Sockets
        /\ k.open = socket[e].open /\ k.writing = socket[e].writing /\ k.reading = "none"
        /\ k.unread = Tail(socket[e].unread)
    BY <1>k, <1>m, ReadTakes, ZenonT(60)
  <1>3. /\ plain' = plain /\ calls' = calls /\ sent' = sent /\ strand' = Posted(strand, e, h)
        /\ received' = received /\ notified' = notified /\ reader' = reader
        /\ conn' = [conn EXCEPT ![e].data = m]
    BY <1>2 DEF ReadSucceeds, ReadCompletes, history
  <1>4. conn[e] \in Conns
    BY <1>1, Fields
  <1>5. c \in Conns
    BY <1>2, <1>4, ConnFields
  <1>6. /\ c.closer = conn[e].closer /\ c.started = conn[e].started
        /\ c.sendQueue = conn[e].sendQueue /\ c.data = m
    BY <1>4 DEF Conns
  <1>7. conn' = [conn EXCEPT ![e] = c]
    BY <1>1, <1>3, Types DEF Shape
  <1>8. h \in Handlers /\ h.end = e /\ h.op = "body" /\ h.ok
    BY CompletionOK
  <1> HIDE DEF c, h
  <1>9. /\ StrandsOK' /\ Posts'
        /\ \A x \in Ends, ops \in SUBSET Ops : x # e \/ "body" \notin ops => KeptOps(x, ops)
    BY <1>1, <1>3, <1>8, Posting
  <1>10. /\ TypeOK' /\ \A x \in Ends : x # e => Untouched(x)
         /\ conn'[e] = c /\ socket'[e] = k /\ reader'[e] = "none"
         /\ sent'[e] = sent[e] /\ received'[e] = received[e] /\ notified'[e] = notified[e]
    <2>1. Changes(e, c, k, "none", sent[e], received[e], notified[e])
      BY <1>1, <1>2, <1>3, <1>7, Same DEF Changes
    <2>2. \A x \in Ends : x # e => KeptOps(x, Ops)
      BY <1>9
    <2> QED BY <1>1, <1>2, <1>5, <1>9, <2>1, <2>2, Fields, Changed
  <1>11. /\ N(e, "start")' = 0 /\ N(e, "deliver")' = N(e, "deliver") /\ NoneNew(e, "deliver")
    <2>1. KeptOps(e, {"start", "deliver"})
      BY <1>1, <1>9 DEF Ops
    <2> QED BY <1>1, <2>1, CountsKept DEF NoneNew
  <1>12. /\ N(e, "body")' = 1
         /\ \A i \in W(e, "body")' : /\ Of(e)'[i] = h
                                     /\ \A j \in W(e, "deliver")' : j < i
    <2>n. PICK n : n = Len(Of(e)) + 1
      OBVIOUS
    <2>1. /\ W(e, h.op)' = W(e, h.op) \cup {n} /\ Of(e)'[n] = h
          /\ N(e, h.op)' = N(e, h.op) + 1
          /\ \A op \in Ops : op # h.op => \A i \in W(e, op)' : i < n
      BY <1>1, <1>3, <1>8, <2>n, OnePosted
    <2>2. W(e, "body")' = {n} /\ N(e, "body")' = 1 /\ Of(e)'[n] = h
      BY <1>1, <1>8, <2>1
    <2>3. \A i \in W(e, "deliver")' : i < n
      BY <1>8, <2>1 DEF Ops
    <2> QED BY <2>2, <2>3
  <1>13. WriterUntouched(e)
    <2>1. KeptOps(e, {"send", "written"})
      BY <1>1, <1>9 DEF Ops
    <2> QED BY <1>2, <1>6, <1>10, <2>1 DEF WriterUntouched
  <1>14. ReaderOK(e)'
    <2>1. Links(e)' = 1
      BY <1>2, <1>10, <1>11, <1>12 DEF Links
    <2>2. N(e, "deliver") <= 1
      BY <1>1 DEF ConnectionOK, ReaderOK
    <2>3. conn'[e].started
      BY <1>1, <1>6, <1>10
    <2> QED BY <1>11, <1>12, <2>1, <2>2, <2>3 DEF ReaderOK
  <1>15. Handed(e)' = Handed(e) /\ SentTo(e)' = SentTo(e)
    BY <1>3, <1>11 DEF Handed, SentTo
  <1>16. Chain(e)'
    <2>1. \A n : Comes(e, n)' <=> Comes(e, n)
      BY <1>15 DEF Comes
    <2>2. Comes(e, Handed(e) + 1)
      BY <1>1 DEF ConnectionOK, Chain
    <2>3. conn'[e].data = SentTo(e)[Handed(e) + 1]
      BY <1>m, <1>6, <1>10
    <2>4. \A i \in W(e, "deliver")' :
            /\ Comes(e, Len(received[e]) + 1)
            /\ Of(e)'[i].message = SentTo(e)[Len(received[e]) + 1]
      BY <1>1, <1>11 DEF ConnectionOK, Chain, NoneNew
    <2> QED BY <1>2, <1>10, <1>15, <2>1, <2>2, <2>3, <2>4 DEF Chain
  <1>17. Wire(e)'
    <2>1. HasRead(e)' = HasRead(e) + 1
      BY <1>2, <1>10, <1>12, <1>15 DEF HasRead
    <2>2. /\ Holds(e)'
          /\ HasRead(e)' + Len(socket'[e].unread) = HasRead(e) + Len(socket[e].unread)
      BY <1>1, <1>2, <1>10, <1>15, <2>1, HoldsRest
    <2>3. /\ Untouched(Peer[e]) /\ Peer[e] \in Ends /\ Peer[e] # e
      BY <1>10, EndsAssumption
    <2>4. socket'[Peer[e]] = socket[Peer[e]] /\ Put(Peer[e])' = Put(Peer[e])
      BY <1>3, <2>3, SidesUntouched, PutKept DEF Untouched
    <2>5. ~Failed(e)
      BY ReadEnds
    <2>6. socket[Peer[e]].open => HasRead(e) + Len(socket[e].unread) = Put(Peer[e])
      BY <1>1, <1>2, <2>5 DEF ConnectionOK, Wire
    <2> QED BY <2>2, <2>4, <2>6 DEF Wire
  <1>18. Closing(e)'
    BY <1>1, <1>2, <1>6, <1>10 DEF ConnectionOK, Closing
  <1> QED BY <1>1, <1>3, <1>9, <1>10, <1>13, <1>14, <1>16, <1>17, <1>18, ReaderMoves

LEMMA ReadSucceedsStep ==
  ASSUME IInv, NEW e \in Ends, ReadSucceeds(e)
  PROVE  IInv'
PROOF
  <1>1. socket[e] \in Sockets
    BY Fields DEF IInv
  <1>2. socket[e].reading \in {"size", "data"}
    BY <1>1 DEF Sockets, ReadSucceeds
  <1> QED BY <1>2, ReadSizeStep, ReadBodyStep

-----------------------------------------------------------------------------
(* A plain socket of another program.                                      *)

LEMMA PlainPut ==
  ASSUME TypeOK, NEW e \in Ends, e \in plain
  PROVE  /\ socket[e].writing = <<>> => Put(e) = 2 * Len(sent[e])
         /\ socket[e].writing # <<>> => Put(e) = 2 * Len(sent[e]) - Len(socket[e].writing[1])
PROOF
  <1>1. Len(sent[e]) \in Nat
    BY Typed
  <1>2. CASE socket[e].writing = <<>>
    <2>1. Put(e) = 2 * Len(sent[e]) - 0
      BY <1>2 DEF Put
    <2> QED BY <1>1, <1>2, <2>1
  <1>3. CASE socket[e].writing # <<>>
    BY <1>3 DEF Put
  <1> QED BY <1>2, <1>3

LEMMA PlainPutNext ==
  ASSUME TypeOK', NEW e \in Ends, e \in plain, plain' = plain
  PROVE  /\ socket'[e].writing = <<>> => Put(e)' = 2 * Len(sent'[e])
         /\ socket'[e].writing # <<>> => Put(e)' = 2 * Len(sent'[e]) - Len(socket'[e].writing[1])
PROOF
  <1>1. (TypeOK /\ e \in plain => /\ socket[e].writing = <<>> => Put(e) = 2 * Len(sent[e])
                                  /\ socket[e].writing # <<>> => Put(e) = 2 * Len(sent[e]) - Len(socket[e].writing[1]))'
    BY PlainPut, PTL
  <1> QED BY <1>1

LEMMA PlainMoves ==
  ASSUME IInv, NEW e \in Ends, e \in plain, NEW k \in Sockets, NEW q \in Seq(Messages),
         socket' = [socket EXCEPT ![e] = k], sent' = [sent EXCEPT ![e] = q],
         UNCHANGED <<plain, conn, strand, reader, received, notified>>,
         calls' \in [Ends -> Nat],
         k.reading = "none", Len(k.writing) <= 1, k.open => socket[e].open,
         k.open /\ k.writing # <<>> =>
           Len(q) \in DOMAIN q /\ k.writing[1] \in Rests(q[Len(q)]),
         Extends(sent[e], q),
         k.open /\ socket[Peer[e]].open =>
           /\ k.writing = <<>> => Put(e) = 2 * Len(q)
           /\ k.writing # <<>> => Put(e) = 2 * Len(q) - Len(k.writing[1])
  PROVE  IInv'
PROOF
  <1>1. TypeOK /\ StrandsOK /\ Posts /\ PlainOK(e)
    BY Typed DEF IInv, EndOK
  <1>2. /\ StrandsOK' /\ Posts' /\ \A x \in Ends, ops \in SUBSET Ops : KeptOps(x, ops)
    BY <1>1, SameKeeps DEF StrandsOK, Posts, Of
  <1>3. /\ TypeOK' /\ \A x \in Ends : x # e => Untouched(x)
        /\ socket'[e] = k /\ reader'[e] = reader[e] /\ sent'[e] = q
    <2>1. Changes(e, conn[e], k, reader[e], q, received[e], notified[e])
      BY <1>1, Same DEF Changes
    <2>2. \A x \in Ends : x # e => KeptOps(x, Ops)
      BY <1>2
    <2>3. /\ conn[e] \in Conns /\ reader[e] \in {"none", "ok", "error"}
          /\ received[e] \in Seq(Received) /\ notified[e] \in Nat
      BY <1>1, Fields
    <2> QED BY <1>1, <1>2, <2>1, <2>2, <2>3, Changed
  <1>4. PlainOK(e)'
    BY <1>1, <1>3 DEF PlainOK, Writes
  <1>5. SenderKept(e)
    <2>1. Peer[e] \in Ends /\ Peer[e] # e /\ socket'[Peer[e]] = socket[Peer[e]]
      BY <1>3, EndsAssumption DEF Untouched
    <2>2. /\ k.writing = <<>> => Put(e)' = 2 * Len(q)
          /\ k.writing # <<>> => Put(e)' = 2 * Len(q) - Len(k.writing[1])
      BY <1>3, PlainPutNext
    <2> QED BY <1>3, <2>1, <2>2 DEF SenderKept
  <1> QED BY <1>2, <1>3, <1>4, <1>5, OneEndMoves DEF EndOK

LEMMA FrameOK ==
  ASSUME NEW m \in Messages
  PROVE  Frame(m) \in Seq(Bytes) /\ Len(Frame(m)) = 2 /\ <<Frame(m)>> \in Seq(Seq(Bytes))
         /\ Frame(m)[1] = Part("size", m) /\ Tail(Frame(m)) = <<Part("data", m)>>
         /\ Frame(m) # <<>> /\ Head(Frame(m)) = Part("size", m) /\ Frame(m) \in Rests(m)
PROOF
  <1>1. Part("size", m) \in Bytes /\ Part("data", m) \in Bytes
    BY DEF Bytes, Part
  <1>2. Frame(m) = <<Part("size", m), Part("data", m)>>
    BY DEF Frame, Part
  <1>3. Frame(m) \in Seq(Bytes)
    BY <1>1, <1>2
  <1>4. <<Frame(m)>> \in Seq(Seq(Bytes))
    BY <1>3
  <1>5. /\ Len(Frame(m)) = 2 /\ Frame(m)[1] = Part("size", m) /\ Frame(m) # <<>>
        /\ Head(Frame(m)) = Part("size", m)
    BY <1>2
  <1>6. Tail(Frame(m)) = <<Part("data", m)>>
    BY <1>2
  <1> QED BY <1>3, <1>4, <1>5, <1>6 DEF Rests

LEMMA PlainReadStep ==
  ASSUME IInv, NEW e \in Ends, PlainRead(e)
  PROVE  IInv'
PROOF
  <1> DEFINE k == [socket[e] EXCEPT !.unread = Tail(socket[e].unread)]
  <1>1. TypeOK /\ PlainOK(e) /\ e \in plain
    BY DEF IInv, EndOK, PlainRead
  <1>2. socket[e] \in Sockets /\ sent[e] \in Seq(Messages) /\ Tail(socket[e].unread) \in Seq(Bytes)
    <2>1. socket[e].unread \in Seq(Bytes) /\ socket[e].unread # <<>>
      BY <1>1, Typed DEF PlainRead
    <2> QED BY <1>1, <2>1, Fields
  <1>3. /\ k \in Sockets /\ k.open = socket[e].open /\ k.writing = socket[e].writing
        /\ k.reading = socket[e].reading
    BY <1>2 DEF Sockets
  <1>4. socket' = [socket EXCEPT ![e] = k] /\ sent' = [sent EXCEPT ![e] = sent[e]]
    <2>1. socket' = [socket EXCEPT ![e] = k]
      BY <1>1, Types DEF Shape, PlainRead
    <2> QED BY <1>1, <2>1, Same DEF PlainRead, history
  <1>5. UNCHANGED <<plain, conn, strand, reader, received, notified>> /\ calls' \in [Ends -> Nat]
    BY <1>1, Same DEF PlainRead, history
  <1> HIDE DEF k
  <1>6. Extends(sent[e], sent[e])
    BY <1>2 DEF Extends
  <1>7. socket[e].open /\ socket[e].writing # <<>> =>
          Len(sent[e]) \in DOMAIN sent[e] /\ socket[e].writing[1] \in Rests(sent[e][Len(sent[e])])
    BY <1>1 DEF PlainOK, Writes
  <1> QED BY <1>1, <1>2, <1>3, <1>4, <1>5, <1>6, <1>7, PlainMoves, PlainPut DEF PlainOK

LEMMA PlainWrittenStep ==
  ASSUME IInv, NEW e \in Ends, PlainWritten(e)
  PROVE  IInv'
PROOF
  <1> DEFINE k == [socket[e] EXCEPT !.writing = <<>>]
  <1>1. TypeOK /\ PlainOK(e) /\ e \in plain
    BY DEF IInv, EndOK, PlainWritten
  <1>2. socket[e] \in Sockets /\ sent[e] \in Seq(Messages)
    BY <1>1, Fields
  <1>3. k \in Sockets /\ k.open = socket[e].open /\ k.writing = <<>> /\ k.reading = socket[e].reading
    <2>1. <<>> \in Seq(Seq(Bytes))
      OBVIOUS
    <2> QED BY <1>2, <2>1 DEF Sockets
  <1>4. socket' = [socket EXCEPT ![e] = k] /\ sent' = [sent EXCEPT ![e] = sent[e]]
    <2>1. socket' = [socket EXCEPT ![e] = k]
      BY <1>1, Types DEF Shape, PlainWritten
    <2> QED BY <1>1, <2>1, Same DEF PlainWritten, history
  <1>5. UNCHANGED <<plain, conn, strand, reader, received, notified>> /\ calls' \in [Ends -> Nat]
    BY <1>1, Same DEF PlainWritten, history
  <1> HIDE DEF k
  <1>6. Extends(sent[e], sent[e]) /\ Len(sent[e]) \in Nat
    BY <1>2 DEF Extends
  <1>7. socket[Peer[e]].open => Put(e) = 2 * Len(sent[e])
    <2>1. ASSUME socket[Peer[e]].open
          PROVE  socket[e].writing = << <<>> >>
      BY <2>1 DEF PlainWritten
    <2>2. << <<>> >> # <<>> /\ << <<>> >>[1] = <<>> /\ Len(<<>>) = 0
      OBVIOUS
    <2>3. ASSUME socket[Peer[e]].open
          PROVE  Put(e) = 2 * Len(sent[e]) - 0
      <3>1. socket[e].writing # <<>> /\ socket[e].writing[1] = <<>>
        BY <2>1, <2>2, <2>3
      <3> QED BY <1>1, <2>2, <3>1, PlainPut
    <2> QED BY <1>6, <2>3
  <1>8. Len(k.writing) <= 1
    BY <1>3
  <1> QED BY <1>1, <1>2, <1>3, <1>4, <1>5, <1>6, <1>7, <1>8, PlainMoves DEF PlainOK

LEMMA PlainCloseStep ==
  ASSUME IInv, NEW e \in Ends, PlainClose(e)
  PROVE  IInv'
PROOF
  <1> DEFINE k == [SocketClosed(socket[e]) EXCEPT !.writing = <<>>]
  <1>1. TypeOK /\ PlainOK(e) /\ e \in plain
    BY DEF IInv, EndOK, PlainClose
  <1>2. socket[e] \in Sockets /\ sent[e] \in Seq(Messages) /\ SocketClosed(socket[e]) \in Sockets
    BY <1>1, Fields, SocketFields
  <1>3. /\ k \in Sockets /\ ~k.open /\ k.writing = <<>> /\ k.reading = socket[e].reading
    <2>1. <<>> \in Seq(Seq(Bytes))
      OBVIOUS
    <2>2. ~SocketClosed(socket[e]).open /\ SocketClosed(socket[e]).reading = socket[e].reading
      BY <1>2 DEF SocketClosed, Sockets
    <2> QED BY <1>2, <2>1, <2>2 DEF Sockets
  <1>4. socket' = [socket EXCEPT ![e] = k] /\ sent' = [sent EXCEPT ![e] = sent[e]]
    <2>1. socket' = [socket EXCEPT ![e] = k]
      BY <1>1, Types DEF Shape, PlainClose
    <2> QED BY <1>1, <2>1, Same DEF PlainClose, history
  <1>5. UNCHANGED <<plain, conn, strand, reader, received, notified>> /\ calls' \in [Ends -> Nat]
    BY <1>1, Same DEF PlainClose, history
  <1> HIDE DEF k
  <1>6. Extends(sent[e], sent[e])
    BY <1>2 DEF Extends
  <1>7. Len(k.writing) <= 1
    BY <1>3
  <1> QED BY <1>1, <1>2, <1>3, <1>4, <1>5, <1>6, <1>7, PlainMoves DEF PlainOK

\* What is called next is one of the messages.
LEMMA NextOutOK ==
  ASSUME TypeOK, NEW e \in Ends, Called(e)
  PROVE  NextOut(e) \in Messages /\ calls' \in [Ends -> Nat]
PROOF
  <1>1. calls \in [Ends -> Nat] /\ Outbox[e] \in Seq(Messages)
    BY SizesAssumption DEF TypeOK
  <1>2. calls[e] + 1 \in 1 .. Len(Outbox[e])
    BY <1>1 DEF Called
  <1> QED BY <1>1, <1>2 DEF NextOut, Called

LEMMA AppendExtends ==
  ASSUME NEW q \in Seq(Messages), NEW m \in Messages
  PROVE  /\ Extends(q, Append(q, m)) /\ Append(q, m) \in Seq(Messages) /\ Len(q) \in Nat
         /\ Len(Append(q, m)) = Len(q) + 1 /\ Append(q, m)[Len(q) + 1] = m
         /\ Len(q) + 1 \in DOMAIN Append(q, m)
         /\ \A n \in 1 .. Len(q) : Append(q, m)[n] = q[n]
PROOF
  BY DEF Extends

LEMMA PlainWriteStep ==
  ASSUME IInv, NEW e \in Ends, PlainWrite(e)
  PROVE  IInv'
PROOF
  <1>m. PICK m : m = NextOut(e)
    OBVIOUS
  <1> DEFINE w == <<Frame(m)>>
             k == [socket[e] EXCEPT !.writing = w]
             q == Append(sent[e], m)
  <1>1. TypeOK /\ PlainOK(e) /\ e \in plain /\ m \in Messages /\ calls' \in [Ends -> Nat]
    BY <1>m, NextOutOK DEF IInv, EndOK, PlainWrite
  <1>2. socket[e] \in Sockets /\ sent[e] \in Seq(Messages)
    BY <1>1, Fields
  <1>3. w \in Seq(Seq(Bytes)) /\ Len(w) = 1 /\ w # <<>> /\ w[1] = Frame(m) /\ Len(w[1]) = 2
        /\ w[1] \in Rests(m)
    BY <1>1, FrameOK
  <1>4. /\ Extends(sent[e], q) /\ q \in Seq(Messages) /\ Len(sent[e]) \in Nat
        /\ Len(q) = Len(sent[e]) + 1 /\ q[Len(q)] = m /\ Len(q) \in DOMAIN q
    <2>1. Len(q) = Len(sent[e]) + 1
      BY <1>1, <1>2, AppendExtends
    <2> QED BY <1>1, <1>2, <2>1, AppendExtends
  <1>5. socket' = [socket EXCEPT ![e] = k] /\ sent' = [sent EXCEPT ![e] = q]
    BY <1>m, <1>1, Types DEF Shape, PlainWrite
  <1>6. UNCHANGED <<plain, conn, strand, reader, received, notified>>
    BY DEF PlainWrite
  <1> HIDE DEF w, q
  <1>7. k \in Sockets /\ k.open = socket[e].open /\ k.writing = w /\ k.reading = socket[e].reading
    BY <1>2, <1>3 DEF Sockets
  <1> HIDE DEF k
  <1>8. Put(e) = 2 * Len(sent[e])
    <2>1. socket[e].writing = <<>>
      BY DEF PlainWrite
    <2> QED BY <1>1, <1>4, <2>1, PlainPut
  <1>9. k.writing # <<>> /\ Put(e) = 2 * Len(q) - Len(k.writing[1])
    <2>1. k.writing # <<>> /\ Len(k.writing[1]) = 2
      BY <1>3, <1>7
    <2>2. 2 * Len(sent[e]) = 2 * Len(q) - 2
      BY <1>4
    <2> QED BY <1>8, <2>1, <2>2
  <1>10. /\ k.reading = "none" /\ Len(k.writing) <= 1 /\ (k.open => socket[e].open)
         /\ k.writing[1] \in Rests(q[Len(q)])
    <2>1. k.reading = "none" /\ (k.open => socket[e].open)
      BY <1>1, <1>7 DEF PlainOK
    <2>2. Len(k.writing) <= 1
      <3>1. k.writing = w /\ Len(w) = 1
        BY <1>3, <1>7
      <3>2. Len(k.writing) = 1
        BY <3>1, Zenon
      <3> QED BY <3>2
    <2>3. k.writing[1] \in Rests(q[Len(q)])
      BY <1>3, <1>4, <1>7, Zenon
    <2> QED BY <2>1, <2>2, <2>3
  <1>11. /\ k.open /\ k.writing # <<>> =>
              Len(q) \in DOMAIN q /\ k.writing[1] \in Rests(q[Len(q)])
         /\ k.open /\ socket[Peer[e]].open =>
              /\ k.writing = <<>> => Put(e) = 2 * Len(q)
              /\ k.writing # <<>> => Put(e) = 2 * Len(q) - Len(k.writing[1])
    BY <1>4, <1>9, <1>10
  <1> QED BY <1>1, <1>4, <1>5, <1>6, <1>7, <1>10, <1>11, PlainMoves

-----------------------------------------------------------------------------
(* What is on its way.                                                     *)

LEMMA BytesPrefix ==
  ASSUME NEW u \in Seq(Bytes), NEW n \in 0 .. Len(u)
  PROVE  /\ SubSeq(u, 1, n) \in Seq(Bytes) /\ Len(SubSeq(u, 1, n)) = n
         /\ \A j \in 1 .. n : SubSeq(u, 1, n)[j] = u[j]
PROOF
  <1>1. n \in Nat /\ n \in Int /\ 1 \in Int /\ \A i \in 1 .. n : u[i] \in Bytes
    OBVIOUS
  <1> DEFINE r == SubSeq(u, 1, n)
  <1>2. /\ r \in Seq(Bytes) /\ Len(r) = (IF 1 <= n THEN n - 1 + 1 ELSE 0)
        /\ \A i \in 1 .. n - 1 + 1 : r[i] = u[1 + i - 1]
    BY <1>1, SubSeqProperties
  <1> HIDE DEF r
  <1>3. n - 1 + 1 = n /\ \A i \in 1 .. n : 1 + i - 1 = i
    BY <1>1
  <1>4. Len(r) = n
    BY <1>1, <1>2
  <1> QED BY <1>2, <1>3, <1>4 DEF r

LEMMA FrontOf ==
  ASSUME NEW u \in Seq(Bytes), u # <<>>
  PROVE  /\ Front(u) \in Seq(Bytes) /\ Len(Front(u)) = Len(u) - 1
         /\ \A j \in DOMAIN Front(u) : j \in DOMAIN u /\ Front(u)[j] = u[j]
PROOF
  <1>1. Front(u) = SubSeq(u, 1, Len(u) - 1)
    BY DEF Front
  <1>2. Len(u) \in Nat /\ Len(u) >= 1 /\ \A i \in 1 .. (Len(u) - 1) : u[i] \in Bytes
    OBVIOUS
  <1>3. /\ SubSeq(u, 1, Len(u) - 1) \in Seq(Bytes) /\ Len(SubSeq(u, 1, Len(u) - 1)) = Len(u) - 1
        /\ \A j \in 1 .. (Len(u) - 1) : SubSeq(u, 1, Len(u) - 1)[j] = u[j]
    <2>1. Len(u) - 1 \in 0 .. Len(u)
      BY <1>2
    <2> QED BY <1>2, <2>1, BytesPrefix
  <1>4. \A j \in 1 .. (Len(u) - 1) : j \in DOMAIN u
    BY <1>2
  <1> HIDE DEF Front
  <1>5. DOMAIN Front(u) = 1 .. (Len(u) - 1)
    BY <1>1, <1>3
  <1> QED BY <1>1, <1>3, <1>4, <1>5

\* With less held for it, an end has still what comes next.
LEMMA HoldsFront ==
  ASSUME TypeOK, NEW e \in Ends, Holds(e), socket[e].unread # <<>>,
         socket'[e].unread = Front(socket[e].unread), HasRead(e)' = HasRead(e),
         SentTo(e)' = SentTo(e)
  PROVE  Holds(e)'
PROOF
  <1> DEFINE u == socket[e].unread
             t == Front(u)
  <1>1. u \in Seq(Bytes) /\ u # <<>>
    BY Typed
  <1>2. /\ Len(t) = Len(u) - 1 /\ Len(u) \in Nat
        /\ \A j \in DOMAIN t : j \in DOMAIN u /\ t[j] = u[j]
    BY <1>1, FrontOf
  <1>3. Len(SentTo(e)) \in Nat /\ HasRead(e) \in Nat
    BY Typed, ReadCounts DEF SentTo
  <1> HIDE DEF u, t
  <1>4. HasRead(e) + Len(t) <= 2 * Len(SentTo(e))
    BY <1>2, <1>3 DEF Holds, u
  <1>5. ASSUME NEW j \in DOMAIN t, NEW k \in DOMAIN SentTo(e)
        PROVE  /\ HasRead(e) + j = 2 * k - 1 => t[j] = Part("size", SentTo(e)[k])
               /\ HasRead(e) + j = 2 * k => t[j] = Part("data", SentTo(e)[k])
    BY <1>2 DEF Holds, u
  <1> QED BY <1>4, <1>5 DEF Holds, u, t

LEMMA ResetStep ==
  ASSUME IInv, NEW e \in Ends, Reset(e)
  PROVE  IInv'
PROOF
  <1> DEFINE k == [socket[e] EXCEPT !.unread = Front(socket[e].unread)]
  <1>1. /\ TypeOK /\ StrandsOK /\ Posts /\ plain' = plain /\ conn' = conn /\ strand' = strand
        /\ reader' = reader /\ calls' = calls /\ sent' = sent /\ received' = received
        /\ notified' = notified /\ ~socket[Peer[e]].open /\ socket[e].unread # <<>>
        /\ socket' = [socket EXCEPT ![e].unread = Front(@)]
    BY DEF IInv, TypeOK, StrandsOK, Reset, history
  <1>2. socket[e] \in Sockets /\ Front(socket[e].unread) \in Seq(Bytes)
    BY <1>1, Fields, Typed, FrontOf
  <1>3. /\ k \in Sockets /\ k.open = socket[e].open /\ k.writing = socket[e].writing
        /\ k.reading = socket[e].reading /\ k.unread = Front(socket[e].unread)
    BY <1>2 DEF Sockets
  <1>4. socket' = [socket EXCEPT ![e] = k]
    BY <1>1, Types DEF Shape
  <1> HIDE DEF k
  <1>5. /\ StrandsOK' /\ Posts' /\ \A x \in Ends, ops \in SUBSET Ops : KeptOps(x, ops)
    BY <1>1, SameKeeps DEF StrandsOK, Posts, Of
  <1>6. /\ TypeOK' /\ \A x \in Ends : x # e => Untouched(x)
        /\ conn'[e] = conn[e] /\ socket'[e] = k /\ reader'[e] = reader[e]
        /\ sent'[e] = sent[e] /\ received'[e] = received[e] /\ notified'[e] = notified[e]
    <2>1. Changes(e, conn[e], k, reader[e], sent[e], received[e], notified[e])
      BY <1>1, <1>4, Same DEF Changes
    <2>2. \A x \in Ends : x # e => KeptOps(x, Ops)
      BY <1>5
    <2> QED BY <1>1, <1>3, <1>5, <2>1, <2>2, Fields, Changed
  <1>7. CASE e \in plain
    <2>1. PlainOK(e)
      BY <1>7 DEF IInv, EndOK
    <2>2. Extends(sent[e], sent[e])
      BY <1>1, Typed DEF Extends
    <2>3. /\ socket[e].writing = <<>> => Put(e) = 2 * Len(sent[e])
          /\ socket[e].writing # <<>> => Put(e) = 2 * Len(sent[e]) - Len(socket[e].writing[1])
      BY <1>1, <1>7, PlainPut
    <2>4. k.reading = "none" /\ Len(k.writing) <= 1
      BY <1>3, <2>1 DEF PlainOK
    <2>5. k.open /\ k.writing # <<>> =>
            Len(sent[e]) \in DOMAIN sent[e] /\ k.writing[1] \in Rests(sent[e][Len(sent[e])])
      BY <1>3, <2>1 DEF PlainOK, Writes
    <2>6. sent' = [sent EXCEPT ![e] = sent[e]] /\ calls' \in [Ends -> Nat] /\ sent[e] \in Seq(Messages)
      BY <1>1, Same, Fields
    <2> QED BY <1>1, <1>3, <1>4, <1>7, <2>2, <2>3, <2>4, <2>5, <2>6, PlainMoves
  <1>8. CASE e \notin plain
    <2>1. ConnectionOK(e)
      BY <1>8 DEF IInv, EndOK
    <2>2. WriterUntouched(e) /\ ReaderUntouched(e)
      <3>1. KeptOps(e, {"send", "written"}) /\ KeptOps(e, {"start", "body", "deliver"})
        BY <1>5 DEF Ops
      <3> QED BY <1>3, <1>6, <3>1 DEF WriterUntouched, ReaderUntouched
    <2>3. ReaderOK(e)'
      BY <1>1, <1>5, <2>1, <2>2, ReaderKept DEF ConnectionOK
    <2>4. /\ N(e, "body")' = N(e, "body") /\ N(e, "deliver")' = N(e, "deliver")
          /\ W(e, "body")' = W(e, "body") /\ Of(e)' = Of(e) /\ SentTo(e)' = SentTo(e)
      BY <1>1 DEF N, W, Of, SentTo
    <2>5. Chain(e)'
      <3>1. ChainUntouched(e)
        BY <1>1, <1>3, <1>6, <2>4, CountsKept DEF ChainUntouched, NoneNew, NoneSucceeds, W, Of
      <3>2. Extends(sent[Peer[e]], sent'[Peer[e]])
        BY <1>1, Typed DEF Extends
      <3> QED BY <1>1, <1>6, <2>1, <3>1, <3>2, ChainKept DEF ConnectionOK
    <2>6. HasRead(e)' = HasRead(e) /\ (Failed(e)' <=> Failed(e))
      BY <1>3, <1>6, <2>4 DEF HasRead, Handed, Failed
    <2>7. Wire(e)'
      <3>1. ~socket'[Peer[e]].open
        <4>1. Peer[e] \in Ends /\ Peer[e] # e
          BY EndsAssumption
        <4> QED BY <1>1, <1>6, <4>1 DEF Untouched
      <3>2. Holds(e) => Holds(e)'
        BY <1>1, <1>3, <1>6, <2>4, <2>6, HoldsFront
      <3> QED BY <1>3, <1>6, <2>1, <2>6, <3>1, <3>2 DEF ConnectionOK, Wire
    <2>8. Closing(e)'
      BY <1>3, <1>6, <2>1 DEF ConnectionOK, Closing
    <2> QED BY <1>1, <1>5, <1>6, <1>8, <2>2, <2>3, <2>5, <2>7, <2>8, ReaderMoves
  <1> QED BY <1>7, <1>8

-----------------------------------------------------------------------------
(* The steps that write.                                                   *)

LEMMA LastPosted ==
  ASSUME StrandsOK, NEW e \in Ends, NEW h \in Handlers, h.end = e, NEW op, h.op = op,
         strand' = Posted(strand, e, h), NEW n, n = Len(Of(e)) + 1
  PROVE  /\ W(e, op)' = W(e, op) \cup {n} /\ Of(e)'[n] = h
         /\ N(e, op)' = N(e, op) + 1 /\ Later(e, op, n)' = 0
         /\ \A i \in W(e, op) : /\ Of(e)'[i] = Of(e)[i]
                                /\ Later(e, op, i)' = Later(e, op, i) + 1
PROOF
  <1>1. /\ W(e, h.op)' = W(e, h.op) \cup {n} /\ Of(e)'[n] = h
        /\ N(e, h.op)' = N(e, h.op) + 1 /\ Later(e, h.op, n)' = 0
        /\ \A i \in W(e, h.op) : /\ Of(e)'[i] = Of(e)[i]
                                 /\ Later(e, h.op, i)' = Later(e, h.op, i) + 1
    BY OnePosted, SMTT(30)
  <1> QED BY <1>1

\* With a message more to come, and a handler more, as many have been written.
LEMMA BaseSame ==
  ASSUME NEW e \in Ends, Len(sent[e]) \in Nat, Len(conn[e].sendQueue) \in Nat,
         N(e, "send") \in Nat, Len(sent'[e]) = Len(sent[e]) + 1,
         N(e, "send")' = N(e, "send") + 1, conn'[e].sendQueue = conn[e].sendQueue
  PROVE  Base(e)' = Base(e)
PROOF
  BY SMTT(30) DEF Base

\* A call of Send: the message is the last of those sent, and its handler the last.
LEMMA QueuedBehind ==
  ASSUME TypeOK, NEW e \in Ends, NEW n, Queued(e),
         Extends(sent[e], sent'[e]), Len(sent'[e]) = Len(sent[e]) + 1,
         conn'[e].sendQueue = conn[e].sendQueue,
         W(e, "send")' = W(e, "send") \cup {n}, N(e, "send")' = N(e, "send") + 1,
         Later(e, "send", n)' = 0, Of(e)'[n].message = sent'[e][Len(sent[e]) + 1],
         \A i \in W(e, "send") : /\ Of(e)'[i] = Of(e)[i]
                                 /\ Later(e, "send", i)' = Later(e, "send", i) + 1
  PROVE  Base(e)' = Base(e) /\ Queued(e)'
PROOF
  <1>1. /\ StrandsOK /\ Len(sent[e]) \in Nat /\ Len(conn[e].sendQueue) \in Nat
        /\ DOMAIN conn[e].sendQueue = 1 .. Len(conn[e].sendQueue)
    BY Typed
  <1>2. N(e, "send") \in Nat
    BY <1>1, Counts
  <1>3. Base(e)' = Base(e)
    BY <1>1, <1>2, BaseSame
  <1>4. /\ Base(e) \in Nat
        /\ Base(e) + Len(conn[e].sendQueue) <= Len(sent[e]) /\ N(e, "send") <= Len(sent[e])
    <2>1. Base(e) \in Int /\ Base(e) + Len(conn[e].sendQueue) = Len(sent[e]) - N(e, "send")
      BY <1>1, <1>2, SMTT(30) DEF Base
    <2>2. Base(e) >= 0
      BY DEF Queued
    <2> QED BY <1>1, <1>2, <2>1, <2>2, SMTT(30)
  <1>5. ASSUME NEW k \in DOMAIN conn[e].sendQueue
        PROVE  conn[e].sendQueue[k] = sent'[e][Base(e) + k]
    <2>1. Base(e) + k \in 1 .. Len(sent[e])
      BY <1>1, <1>4, SMTT(30)
    <2> QED BY <2>1 DEF Queued, Extends
  <1>6. ASSUME NEW i \in W(e, "send")
        PROVE  Of(e)'[i].message = sent'[e][Len(sent'[e]) - Later(e, "send", i)']
    <2>1. Of(e)'[i].message = sent[e][Len(sent[e]) - Later(e, "send", i)]
      BY DEF Queued
    <2>2. Later(e, "send", i) \in Nat /\ Later(e, "send", i) < N(e, "send")
      BY <1>1, LaterCount
    <2>3. Len(sent[e]) - Later(e, "send", i) \in 1 .. Len(sent[e])
      BY <1>1, <1>2, <1>4, <2>2, SMTT(30)
    <2>4. Len(sent'[e]) - Later(e, "send", i)' = Len(sent[e]) - Later(e, "send", i)
      BY <1>1, <2>2, SMTT(30)
    <2> QED BY <2>1, <2>3, <2>4 DEF Extends
  <1>7. Of(e)'[n].message = sent'[e][Len(sent'[e]) - Later(e, "send", n)']
    BY <1>1
  <1>8. \A k \in DOMAIN conn'[e].sendQueue :
          conn'[e].sendQueue[k] = sent'[e][Base(e)' + k]
    BY <1>3, <1>5
  <1>9. \A i \in W(e, "send")' :
          Of(e)'[i].message = sent'[e][Len(sent'[e]) - Later(e, "send", i)']
    BY <1>6, <1>7
  <1>10. Base(e)' >= 0
    BY <1>3, <1>4
  <1> QED BY <1>3, <1>8, <1>9, <1>10 DEF Queued

LEMMA CarryingOK ==
  ASSUME NEW e \in Ends, NEW op \in {"send", "deliver"}, NEW m \in Messages
  PROVE  LET h == Carrying(e, op, m) IN
         h \in Handlers /\ h.end = e /\ h.op = op /\ h.message = m
PROOF
  BY DEF Handlers, Carrying

\* A message that Send refuses is only counted.
LEMMA SendRefusedStep ==
  ASSUME IInv, NEW e \in Ends, e \notin plain, calls' \in [Ends -> Nat],
         UNCHANGED <<plain, conn, socket, strand, reader, sent, received, notified>>
  PROVE  IInv'
PROOF
  <1>1. TypeOK /\ StrandsOK /\ Posts /\ ConnectionOK(e)
    BY DEF IInv, EndOK, TypeOK, StrandsOK
  <1>2. StrandsOK' /\ Posts' /\ TypeOK'
    BY <1>1, Types DEF StrandsOK, Posts, Shape
  <1>3. \A x \in Ends, ops \in SUBSET Ops : KeptOps(x, ops)
    BY <1>1, SameKeeps DEF Of
  <1>4. \A x \in Ends : x # e => Untouched(x)
    BY <1>3 DEF Untouched
  <1>5. WriterUntouched(e) /\ ReaderUntouched(e)
    <2>1. KeptOps(e, {"send", "written"}) /\ KeptOps(e, {"start", "body", "deliver"})
      BY <1>3 DEF Ops
    <2> QED BY <2>1 DEF WriterUntouched, ReaderUntouched
  <1>6. Closing(e)'
    BY <1>1 DEF ConnectionOK, Closing
  <1> QED BY <1>2, <1>4, <1>5, <1>6, BothStay

LEMMA SendStep ==
  ASSUME IInv, NEW e \in Ends, Send(e)
  PROVE  IInv'
PROOF
  <1> DEFINE m == NextOut(e)
             h == Carrying(e, "send", m)
             q == IF socket[e].open THEN Append(sent[e], m) ELSE sent[e]
  <1>1. /\ TypeOK /\ StrandsOK /\ Posts /\ e \notin plain /\ ConnectionOK(e) /\ plain' = plain
        /\ Called(e) /\ conn' = conn /\ socket' = socket /\ reader' = reader
        /\ received' = received /\ notified' = notified
    BY DEF IInv, EndOK, TypeOK, StrandsOK, Send
  <1>2. m \in Messages /\ calls' \in [Ends -> Nat]
    BY <1>1, NextOutOK
  <1>3. CASE m \notin Sendable
    <2>1. strand' = strand /\ sent' = sent
      BY <1>3 DEF Send
    <2> QED BY <1>1, <1>2, <2>1, SendRefusedStep
  <1>4. CASE m \in Sendable
    <2>1. /\ strand' = Posted(strand, e, h)
          /\ sent' = IF socket[e].open THEN [sent EXCEPT ![e] = Append(@, m)] ELSE sent
      BY <1>4 DEF Send
    <2>2. h \in Handlers /\ h.end = e /\ h.op = "send" /\ h.message = m
      BY <1>2, CarryingOK
    <2>3. /\ sent' = [sent EXCEPT ![e] = q] /\ q \in Seq(Messages) /\ Extends(sent[e], q)
          /\ socket[e].open => q = Append(sent[e], m)
      <3>1. sent[e] \in Seq(Messages) /\ sent = [sent EXCEPT ![e] = sent[e]]
        BY <1>1, Fields, Same
      <3>2. Extends(sent[e], Append(sent[e], m)) /\ Append(sent[e], m) \in Seq(Messages)
        BY <1>2, <3>1, AppendExtends
      <3>3. Extends(sent[e], sent[e])
        BY <3>1 DEF Extends
      <3> QED BY <2>1, <3>1, <3>2, <3>3
    <2> HIDE DEF h, q, m
    <2>4. /\ StrandsOK' /\ Posts'
          /\ \A x \in Ends, ops \in SUBSET Ops : x # e \/ "send" \notin ops => KeptOps(x, ops)
      BY <1>1, <1>4, <2>1, <2>2, Posting
    <2>5. /\ TypeOK' /\ \A x \in Ends : x # e => Untouched(x)
          /\ conn'[e] = conn[e] /\ socket'[e] = socket[e] /\ reader'[e] = reader[e]
          /\ sent'[e] = q /\ received'[e] = received[e] /\ notified'[e] = notified[e]
      <3>1. Changes(e, conn[e], socket[e], reader[e], q, received[e], notified[e])
        BY <1>1, <1>2, <2>3, Same DEF Changes
      <3>2. \A x \in Ends : x # e => KeptOps(x, Ops)
        BY <2>4
      <3> QED BY <1>1, <2>3, <2>4, <3>1, <3>2, Fields, Changed
    <2>6. ReaderUntouched(e)
      <3>1. KeptOps(e, {"start", "body", "deliver"})
        BY <2>4 DEF Ops
      <3> QED BY <2>5, <3>1 DEF ReaderUntouched
    <2>7. N(e, "written")' = N(e, "written")
      <3>1. KeptOps(e, {"written"})
        BY <2>4 DEF Ops
      <3> QED BY <3>1, CountsKept
    <2>8. ASSUME socket[e].open
          PROVE  Base(e)' = Base(e) /\ Queued(e)' /\ Writes(e, Base(e) + 1)'
      <3>n. PICK n : n = Len(Of(e)) + 1
        OBVIOUS
      <3>1. /\ W(e, "send")' = W(e, "send") \cup {n} /\ Of(e)'[n] = h
            /\ N(e, "send")' = N(e, "send") + 1 /\ Later(e, "send", n)' = 0
            /\ \A i \in W(e, "send") : /\ Of(e)'[i] = Of(e)[i]
                                       /\ Later(e, "send", i)' = Later(e, "send", i) + 1
        BY <1>1, <2>1, <2>2, <3>n, LastPosted
      <3>2. /\ Len(sent'[e]) = Len(sent[e]) + 1 /\ sent'[e][Len(sent[e]) + 1] = m
            /\ Extends(sent[e], sent'[e])
        BY <1>1, <1>2, <2>3, <2>5, <2>8, Fields, AppendExtends
      <3>3. Queued(e) /\ Writes(e, Base(e) + 1)
        BY <1>1, <2>8 DEF ConnectionOK, WriterOK
      <3>4. Of(e)'[n].message = sent'[e][Len(sent[e]) + 1]
        BY <2>2, <3>1, <3>2
      <3>5. Base(e)' = Base(e) /\ Queued(e)'
        BY <1>1, <2>5, <3>1, <3>2, <3>3, <3>4, QueuedBehind
      <3>6. Writes(e, Base(e) + 1)'
        <4>1. \A i \in DOMAIN sent[e] : i \in DOMAIN sent'[e] /\ sent'[e][i] = sent[e][i]
          BY <1>1, <2>3, <2>5, Fields, ExtendsIsPrefix
        <4> QED BY <2>5, <3>3, <3>5, <4>1 DEF Writes
      <3> QED BY <3>5, <3>6
    <2>9. WriterOK(e)'
      BY <1>1, <2>5, <2>7, <2>8 DEF ConnectionOK, WriterOK
    <2>10. socket[e].open => Put(e)' = Put(e)
      BY <1>1, <2>5, <2>7, <2>8 DEF Put
    <2> QED BY <1>1, <2>3, <2>4, <2>5, <2>6, <2>9, <2>10, WriterMoves
  <1> QED BY <1>3, <1>4

LEMMA WriterFront ==
  ASSUME IInv, plain' = plain, NEW s \in Strands, NEW op \in {"send", "written"},
         AtFront(s, op), strand' = Finished(s), NEW e, e = Head(strand[s]).end
  PROVE  /\ StrandsOK' /\ Posts' /\ \A x \in Ends : x # e => KeptOps(x, Ops)
         /\ KeptOps(e, {"start", "body", "deliver"})
         /\ \A o \in {"send", "written"} : o # op => KeptOps(e, {o})
PROOF
  <1>1. e \in Ends
    BY InFront
  <1>2. /\ StrandsOK' /\ Posts'
        /\ \A x \in Ends, ops \in SUBSET Ops : x # e \/ op \notin ops => KeptOps(x, ops)
    BY Running
  <1>3. {"start", "body", "deliver"} \in SUBSET Ops /\ op \notin {"start", "body", "deliver"}
    BY DEF Ops
  <1>4. \A o \in {"send", "written"} : {o} \in SUBSET Ops
    BY DEF Ops
  <1> QED BY <1>1, <1>2, <1>3, <1>4

\* A handler that takes one of e's messages, or takes one off its queue.
WriterRan(s, op, e, q, k) ==
  /\ AtFront(s, op) /\ e = Head(strand[s]).end /\ strand' = Finished(s)
  /\ conn' = [conn EXCEPT ![e].sendQueue = q] /\ socket' = [socket EXCEPT ![e] = k]
  /\ UNCHANGED <<plain, reader, history>>
  /\ k.open = socket[e].open /\ k.reading = socket[e].reading /\ k.unread = socket[e].unread

LEMMA WriterRuns ==
  ASSUME IInv, NEW s \in Strands, NEW op \in {"send", "written"}, NEW e,
         NEW q \in Seq(Sendable), NEW k \in Sockets, WriterRan(s, op, e, q, k)
  PROVE  /\ TypeOK' /\ Posts' /\ \A x \in Ends : x # e => Untouched(x)
         /\ ReaderUntouched(e) /\ conn'[e].sendQueue = q /\ conn'[e].closer = conn[e].closer
         /\ socket'[e] = k /\ sent'[e] = sent[e] /\ notified'[e] = notified[e]
         /\ \A o \in {"send", "written"} : o # op => KeptOps(e, {o})
PROOF
  <1> DEFINE c == [conn[e] EXCEPT !.sendQueue = q]
  <1>0. /\ AtFront(s, op) /\ e = Head(strand[s]).end /\ strand' = Finished(s)
        /\ plain' = plain /\ calls' = calls /\ reader' = reader /\ sent' = sent
        /\ received' = received /\ notified' = notified
        /\ conn' = [conn EXCEPT ![e].sendQueue = q] /\ socket' = [socket EXCEPT ![e] = k]
        /\ k.open = socket[e].open /\ k.reading = socket[e].reading
        /\ k.unread = socket[e].unread
    BY DEF WriterRan, history
  <1>1. TypeOK /\ e \in Ends
    BY <1>0, InFront
  <1>2. c \in Conns
    BY <1>1, Fields, ConnFields
  <1>3. /\ c.sendQueue = q /\ c.closer = conn[e].closer /\ c.started = conn[e].started
        /\ c.size = conn[e].size /\ c.data = conn[e].data
    <2>1. conn[e] \in Conns
      BY <1>1, Fields
    <2> QED BY <2>1 DEF Conns
  <1>4. conn' = [conn EXCEPT ![e] = c]
    BY <1>0, <1>1, Types DEF Shape
  <1> HIDE DEF c
  <1>5. /\ StrandsOK' /\ Posts' /\ \A x \in Ends : x # e => KeptOps(x, Ops)
        /\ KeptOps(e, {"start", "body", "deliver"})
        /\ \A o \in {"send", "written"} : o # op => KeptOps(e, {o})
    BY <1>0, WriterFront, Zenon
  <1>6. /\ TypeOK' /\ \A x \in Ends : x # e => Untouched(x)
        /\ conn'[e] = c /\ socket'[e] = k /\ reader'[e] = reader[e]
        /\ sent'[e] = sent[e] /\ received'[e] = received[e] /\ notified'[e] = notified[e]
    <2>1. Changes(e, c, k, reader[e], sent[e], received[e], notified[e])
      BY <1>0, <1>1, <1>4, Same DEF Changes
    <2>2. /\ reader[e] \in {"none", "ok", "error"} /\ sent[e] \in Seq(Messages)
          /\ received[e] \in Seq(Received) /\ notified[e] \in Nat
      BY <1>1, Fields
    <2> QED BY <1>1, <1>2, <1>5, <2>1, <2>2, Changed
  <1>7. ReaderUntouched(e)
    BY <1>0, <1>3, <1>5, <1>6 DEF ReaderUntouched
  <1> QED BY <1>3, <1>5, <1>6, <1>7

\* A write is started when there is none.
LEMMA WriteStarts ==
  ASSUME NEW s \in Sockets, s.writing = <<>>, NEW q \in Seq(Sendable), q # <<>>
  PROVE  LET k == DoSend(s, q) IN
         /\ k \in Sockets /\ k.writing # <<>> /\ Len(k.writing) = 1
         /\ k.writing[1] \in Rests(Head(q)) /\ Len(k.writing[1]) = 2
         /\ k.open = s.open /\ k.reading = s.reading /\ k.unread = s.unread
PROOF
  <1> DEFINE f == Frame(Head(q))
             w == Append(s.writing, f)
             k == [s EXCEPT !.writing = w]
  <1>1. Head(q) \in Messages
    BY DEF Sendable
  <1>2. f \in Seq(Bytes) /\ Len(f) = 2 /\ f \in Rests(Head(q))
    BY <1>1, FrameOK
  <1> HIDE DEF f
  <1>3. /\ w \in Seq(Seq(Bytes)) /\ w # <<>> /\ Len(w) = 1 /\ w[1] = f
    BY <1>2 DEF Sockets
  <1> HIDE DEF w
  <1>4. /\ k \in Sockets /\ k.writing = w /\ k.open = s.open /\ k.reading = s.reading
        /\ k.unread = s.unread
    BY <1>3 DEF Sockets
  <1>5. DoSend(s, q) = k
    BY DEF DoSend, w, f
  <1> HIDE DEF k
  <1> QED BY <1>2, <1>3, <1>4, <1>5

LEMMA BaseTaken ==
  ASSUME NEW e \in Ends, Len(sent[e]) \in Nat, Len(conn[e].sendQueue) \in Nat,
         NEW l \in Nat, N(e, "send") = l + 1, N(e, "send") = N(e, "send")' + 1,
         N(e, "send")' \in Nat,
         sent'[e] = sent[e], Len(conn'[e].sendQueue) = Len(conn[e].sendQueue) + 1
  PROVE  /\ Base(e)' = Base(e) /\ Base(e) + (Len(conn[e].sendQueue) + 1) = Len(sent[e]) - l
         /\ Base(e) >= 0 => /\ Base(e) \in Nat
                            /\ Base(e) + (Len(conn[e].sendQueue) + 1) \in 1 .. Len(sent[e])
PROOF
  <1>n. PICK n, q : n = Len(sent[e]) /\ q = Len(conn[e].sendQueue)
    OBVIOUS
  <1>1. N(e, "send")' = l
    OBVIOUS
  <1>2. Base(e) = n - N(e, "send") - q
    BY <1>n DEF Base
  <1>3. Base(e)' = n - N(e, "send")' - (q + 1)
    <2>1. Base(e)' = Len(sent'[e]) - N(e, "send")' - Len(conn'[e].sendQueue)
      BY DEF Base
    <2> QED BY <1>n, <2>1
  <1> HIDE DEF Base
  <1>4. n \in Nat /\ q \in Nat /\ n - N(e, "send") - q = n - (l + 1) - q
    BY <1>n
  <1>5. Base(e) \in Int /\ Base(e)' = Base(e) /\ Base(e) + (q + 1) = n - l
    BY <1>1, <1>2, <1>3, <1>4
  <1>6. ASSUME Base(e) >= 0
        PROVE  Base(e) \in Nat /\ Base(e) + (q + 1) \in 1 .. n
    BY <1>4, <1>5, <1>6
  <1> QED BY <1>n, <1>5, <1>6

\* The message of the handler in front is the one after those in the queue.
LEMMA QueuedTaken ==
  ASSUME TypeOK, NEW e \in Ends, Queued(e), sent'[e] = sent[e], NEW m \in Sendable,
         conn'[e].sendQueue = Append(conn[e].sendQueue, m),
         1 \in W(e, "send"), Of(e)[1].message = m,
         N(e, "send") = N(e, "send")' + 1, N(e, "send")' \in Nat,
         N(e, "send") = Later(e, "send", 1) + 1,
         \A i \in W(e, "send")' :
           /\ i + 1 \in W(e, "send") /\ Of(e)'[i] = Of(e)[i + 1]
           /\ Later(e, "send", i)' = Later(e, "send", i + 1)
  PROVE  /\ Base(e)' = Base(e) /\ Base(e) \in Nat /\ Queued(e)'
         /\ Base(e) + (Len(conn[e].sendQueue) + 1) \in DOMAIN sent[e]
         /\ sent[e][Base(e) + (Len(conn[e].sendQueue) + 1)] = m
PROOF
  <1> DEFINE q == conn[e].sendQueue
             l == Later(e, "send", 1)
  <1>1. /\ StrandsOK /\ sent[e] \in Seq(Messages) /\ q \in Seq(Sendable)
        /\ Len(sent[e]) \in Nat /\ Len(q) \in Nat
    BY Typed
  <1>2. l \in Nat
    BY <1>1, LaterCount
  <1>3. /\ DOMAIN conn'[e].sendQueue = 1 .. (Len(q) + 1) /\ Len(conn'[e].sendQueue) = Len(q) + 1
        /\ conn'[e].sendQueue[Len(q) + 1] = m
        /\ \A k \in 1 .. Len(q) : conn'[e].sendQueue[k] = q[k]
    BY <1>1
  <1>4. Base(e) >= 0
    BY DEF Queued
  <1>5. /\ Base(e)' = Base(e) /\ Base(e) + (Len(q) + 1) = Len(sent[e]) - l
        /\ Base(e) \in Nat /\ Base(e) + (Len(q) + 1) \in 1 .. Len(sent[e])
    BY <1>1, <1>2, <1>3, <1>4, BaseTaken
  <1>6. sent[e][Base(e) + (Len(q) + 1)] = m
    BY <1>5 DEF Queued
  <1>7. ASSUME NEW k \in DOMAIN conn'[e].sendQueue
        PROVE  conn'[e].sendQueue[k] = sent[e][Base(e) + k]
    <2>1. CASE k \in 1 .. Len(q)
      <3>1. k \in DOMAIN q
        BY <1>1, <2>1
      <3> QED BY <1>3, <2>1, <3>1 DEF Queued
    <2>2. CASE k = Len(q) + 1
      BY <1>3, <1>6, <2>2
    <2>3. k \in 1 .. Len(q) \/ k = Len(q) + 1
      BY <1>1, <1>3
    <2> QED BY <2>1, <2>2, <2>3
  <1>8. \A i \in W(e, "send")' :
          Of(e)'[i].message = sent'[e][Len(sent'[e]) - Later(e, "send", i)']
    BY DEF Queued
  <1>9. Queued(e)'
    BY <1>4, <1>5, <1>7, <1>8 DEF Queued
  <1>10. Base(e) + (Len(q) + 1) \in DOMAIN sent[e]
    BY <1>1, <1>5
  <1> QED BY <1>5, <1>6, <1>9, <1>10

\* What e knows of its own writing.
LEMMA WriterFacts ==
  ASSUME TypeOK, NEW e \in Ends, WriterOK(e)
  PROVE  /\ conn[e].sendQueue \in Seq(Sendable) /\ socket[e].writing \in Seq(Seq(Bytes))
         /\ N(e, "written") \in Nat /\ N(e, "send") \in Nat
         /\ socket[e].writing = <<>> <=> Len(socket[e].writing) = 0
         /\ socket[e].writing # <<>> => Len(socket[e].writing) = 1 /\ N(e, "written") = 0
         /\ conn[e].sendQueue = <<>> => socket[e].writing = <<>> /\ N(e, "written") = 0
PROOF
  <1>1. StrandsOK /\ conn[e].sendQueue \in Seq(Sendable) /\ socket[e].writing \in Seq(Seq(Bytes))
    BY Typed
  <1>2. N(e, "written") \in Nat /\ N(e, "send") \in Nat
    BY <1>1, Counts
  <1>3. Len(socket[e].writing) \in Nat /\ (socket[e].writing = <<>> <=> Len(socket[e].writing) = 0)
    BY <1>1
  <1>4. Len(socket[e].writing) + N(e, "written") <= 1
    BY DEF WriterOK
  <1>5. socket[e].writing # <<>> => Len(socket[e].writing) = 1 /\ N(e, "written") = 0
    <2>l. PICK l, n : l = Len(socket[e].writing) /\ n = N(e, "written")
      OBVIOUS
    <2>1. l \in Nat /\ n \in Nat /\ l + n <= 1
      BY <1>2, <1>3, <1>4, <2>l
    <2>2. l # 0 => l = 1 /\ n = 0
      BY <2>1
    <2> QED BY <1>3, <2>l, <2>2
  <1>6. conn[e].sendQueue = <<>> => socket[e].writing = <<>> /\ N(e, "written") = 0
    BY DEF WriterOK
  <1> QED BY <1>1, <1>2, <1>3, <1>5, <1>6

LEMMA RunSendStep ==
  ASSUME IInv, NEW s \in Strands, RunSend(s)
  PROVE  IInv'
PROOF
  <1>e. PICK e : e = Head(strand[s]).end
    OBVIOUS
  <1>m. PICK m : m = Head(strand[s]).message
    OBVIOUS
  <1> DEFINE q == Append(conn[e].sendQueue, m)
             k == IF StartsSending(conn[e].sendQueue) THEN DoSend(socket[e], q) ELSE socket[e]
  <1>1. /\ AtFront(s, "send") /\ strand' = Finished(s) /\ UNCHANGED <<plain, reader, history>>
        /\ plain' = plain
    BY DEF RunSend
  <1>2. /\ TypeOK /\ StrandsOK /\ Posts /\ strand[s] # <<>> /\ e \in Ends /\ e \notin plain
        /\ StrandOf[e] = s /\ 1 \in W(e, "send") /\ Of(e)[1] = Head(strand[s]) /\ ConnectionOK(e)
    BY <1>1, <1>e, InFront
  <1>3. m \in Sendable /\ Of(e)[1].message = m
    BY <1>1, <1>2, <1>e, <1>m, FrontHandler
  <1>4. WriterOK(e) /\ conn[e].sendQueue \in Seq(Sendable) /\ socket[e] \in Sockets
    BY <1>2, WriterFacts, Fields DEF ConnectionOK
  <1>5. /\ q \in Seq(Sendable) /\ q # <<>>
        /\ conn[e].sendQueue = <<>> => Head(q) = m /\ socket[e].writing = <<>> /\ N(e, "written") = 0
    BY <1>2, <1>3, <1>4, WriterFacts
  <1>6. conn' = [conn EXCEPT ![e].sendQueue = q]
    BY <1>e, <1>m DEF RunSend
  <1>7. socket' = [socket EXCEPT ![e] = k]
    <2>1. socket' = IF StartsSending(conn[e].sendQueue)
                    THEN [socket EXCEPT ![e] = DoSend(@, q)] ELSE socket
      BY <1>e, <1>m DEF RunSend
    <2>2. socket = [socket EXCEPT ![e] = socket[e]]
      BY <1>2, Same
    <2> QED BY <2>1, <2>2
  <1>8. /\ k \in Sockets /\ k.open = socket[e].open /\ k.reading = socket[e].reading
        /\ k.unread = socket[e].unread
        /\ conn[e].sendQueue # <<>> => k = socket[e]
        /\ conn[e].sendQueue = <<>> =>
             /\ k.writing # <<>> /\ Len(k.writing) = 1
             /\ k.writing[1] \in Rests(m) /\ Len(k.writing[1]) = 2
    <2>1. CASE conn[e].sendQueue = <<>>
      <3>1. k = DoSend(socket[e], q) /\ socket[e].writing = <<>> /\ Head(q) = m
        BY <1>5, <2>1 DEF StartsSending
      <3> HIDE DEF k, q
      <3> QED BY <1>4, <1>5, <2>1, <3>1, WriteStarts
    <2>2. CASE conn[e].sendQueue # <<>>
      BY <1>4, <2>2 DEF StartsSending
    <2> QED BY <2>1, <2>2
  <1>q. q = Append(conn[e].sendQueue, m)
    OBVIOUS
  <1> HIDE DEF k, q
  <1>9. /\ TypeOK' /\ Posts' /\ \A x \in Ends : x # e => Untouched(x)
        /\ ReaderUntouched(e) /\ conn'[e].sendQueue = q /\ conn'[e].closer = conn[e].closer
        /\ socket'[e] = k /\ sent'[e] = sent[e] /\ notified'[e] = notified[e]
        /\ N(e, "written")' = N(e, "written")
    <2>1. q \in Seq(Sendable) /\ k \in Sockets /\ WriterRan(s, "send", e, q, k)
      BY <1>e, <1>1, <1>5, <1>6, <1>7, <1>8 DEF WriterRan
    <2>2. "send" \in {"send", "written"} /\ "written" \in {"send", "written"} /\ "written" # "send"
      OBVIOUS
    <2>3. /\ TypeOK' /\ Posts' /\ \A x \in Ends : x # e => Untouched(x)
          /\ ReaderUntouched(e) /\ conn'[e].sendQueue = q /\ conn'[e].closer = conn[e].closer
          /\ socket'[e] = k /\ sent'[e] = sent[e] /\ notified'[e] = notified[e]
          /\ KeptOps(e, {"written"})
      BY <2>1, <2>2, WriterRuns
    <2>4. N(e, "written")' = N(e, "written")
      BY <2>3, CountsKept
    <2> QED BY <2>3, <2>4, Zenon
  <1>10. ASSUME socket[e].open
         PROVE  /\ Base(e) \in Nat /\ Base(e)' = Base(e) /\ Queued(e)'
                /\ Writes(e, Base(e) + 1)'
    <2>1. Queued(e) /\ Writes(e, Base(e) + 1)
      BY <1>4, <1>10 DEF WriterOK
    <2>2. /\ N(e, "send") = N(e, "send")' + 1 /\ N(e, "send") = Later(e, "send", 1) + 1
          /\ \A i \in W(e, "send")' :
               /\ i + 1 \in W(e, "send") /\ Of(e)'[i] = Of(e)[i + 1]
               /\ Later(e, "send", i)' = Later(e, "send", i + 1)
      BY <1>1, <1>2, OneTaken
    <2>3. N(e, "send")' \in Nat
      BY <1>1, <1>2, MovedUp
    <2>4. /\ Base(e)' = Base(e) /\ Base(e) \in Nat /\ Queued(e)'
          /\ Base(e) + (Len(conn[e].sendQueue) + 1) \in DOMAIN sent[e]
          /\ sent[e][Base(e) + (Len(conn[e].sendQueue) + 1)] = m
      BY <1>2, <1>3, <1>9, <1>q, <2>1, <2>2, <2>3, QueuedTaken
    <2>5. CASE conn[e].sendQueue = <<>>
      <3>1. Base(e) + 1 \in DOMAIN sent[e] /\ sent[e][Base(e) + 1] = m
        BY <2>4, <2>5
      <3> QED BY <1>8, <1>9, <2>4, <2>5, <3>1 DEF Writes
    <2>6. CASE conn[e].sendQueue # <<>>
      BY <1>8, <1>9, <2>1, <2>4, <2>6 DEF Writes
    <2> QED BY <2>4, <2>5, <2>6
  <1>11. WriterOK(e)'
    <2>1. CASE conn[e].sendQueue = <<>>
      <3>1. Len(socket'[e].writing) + N(e, "written")' = 1
        <4>1. Len(socket'[e].writing) = 1 /\ N(e, "written")' = 0
          BY <1>5, <1>8, <1>9, <2>1, Zenon
        <4> QED BY <4>1
      <3>2. conn'[e].sendQueue # <<>>
        BY <1>5, <1>9
      <3>3. socket'[e].open => Queued(e)' /\ Writes(e, Base(e) + 1)'
        BY <1>8, <1>9, <1>10
      <3> QED BY <3>1, <3>2, <3>3 DEF WriterOK
    <2>2. CASE conn[e].sendQueue # <<>>
      BY <1>4, <1>5, <1>8, <1>9, <1>10, <2>2 DEF WriterOK
    <2> QED BY <2>1, <2>2
  <1>12. ASSUME socket[e].open
         PROVE  Put(e)' = Put(e)
    <2>1. CASE conn[e].sendQueue = <<>>
      <3>1. Put(e) = 2 * Base(e)
        <4>1. Put(e) = 2 * Base(e) + 0
          BY <1>2, <1>5, <2>1 DEF Put
        <4> QED BY <1>10, <1>12, <4>1
      <3>2. Put(e)' = 2 * Base(e)' + (2 - Len(k.writing[1]))
        BY <1>1, <1>2, <1>8, <1>9, <2>1 DEF Put
      <3>3. Base(e)' = Base(e) /\ Base(e) \in Nat /\ Len(k.writing[1]) = 2
        BY <1>8, <1>10, <1>12, <2>1, Zenon
      <3> QED BY <3>1, <3>2, <3>3
    <2>2. CASE conn[e].sendQueue # <<>>
      BY <1>1, <1>8, <1>9, <1>10, <1>12, <2>2 DEF Put
    <2> QED BY <2>1, <2>2
  <1>13. Extends(sent[e], sent'[e])
    BY <1>2, <1>9, Typed DEF Extends
  <1> QED BY <1>1, <1>2, <1>8, <1>9, <1>11, <1>12, <1>13, WriterMoves

\* The queue without its first message, which has been written.
LEMMA BaseMoves ==
  ASSUME TypeOK, NEW e \in Ends, sent'[e] = sent[e], conn[e].sendQueue # <<>>,
         conn'[e].sendQueue = Tail(conn[e].sendQueue), N(e, "send")' = N(e, "send")
  PROVE  Base(e) \in Int /\ Base(e)' = Base(e) + 1
PROOF
  <1>n. PICK n, q, l : n = Len(sent[e]) /\ q = Len(conn[e].sendQueue) /\ l = N(e, "send")
    OBVIOUS
  <1>1. StrandsOK /\ sent[e] \in Seq(Messages) /\ conn[e].sendQueue \in Seq(Sendable)
    BY Typed
  <1>2. l \in Nat
    BY <1>n, <1>1, Counts
  <1>3. n \in Nat /\ q \in Nat /\ Len(conn'[e].sendQueue) = q - 1
    BY <1>n, <1>1
  <1>4. Base(e) = n - l - q
    BY <1>n DEF Base
  <1>5. Base(e)' = n - l - (q - 1)
    <2>1. Base(e)' = Len(sent'[e]) - N(e, "send")' - Len(conn'[e].sendQueue)
      BY DEF Base
    <2> QED BY <1>n, <1>3, <2>1
  <1> HIDE DEF Base
  <1> QED BY <1>2, <1>3, <1>4, <1>5

LEMMA QueuedShifted ==
  ASSUME TypeOK, NEW e \in Ends, Queued(e), sent'[e] = sent[e], conn[e].sendQueue # <<>>,
         conn'[e].sendQueue = Tail(conn[e].sendQueue), KeptOps(e, {"send"})
  PROVE  /\ Base(e) \in Nat /\ Base(e)' = Base(e) + 1 /\ Queued(e)'
         /\ conn'[e].sendQueue # <<>> =>
              /\ Base(e)' + 1 \in DOMAIN sent[e]
              /\ sent[e][Base(e)' + 1] = Head(conn'[e].sendQueue)
PROOF
  <1>q. PICK q, r : q = conn[e].sendQueue /\ r = Tail(q)
    OBVIOUS
  <1>1. /\ StrandsOK /\ sent[e] \in Seq(Messages) /\ q \in Seq(Sendable) /\ q # <<>>
        /\ conn'[e].sendQueue = r
    BY <1>q, Typed
  <1>2. /\ r \in Seq(Sendable) /\ Len(q) \in Nat /\ Len(r) = Len(q) - 1
        /\ DOMAIN r = 1 .. (Len(q) - 1) /\ DOMAIN q = 1 .. Len(q)
        /\ \A k \in DOMAIN r : k + 1 \in DOMAIN q /\ r[k] = q[k + 1]
    BY <1>q, <1>1
  <1>3. /\ N(e, "send")' = N(e, "send")
        /\ \A i \in W(e, "send")' : \E j \in W(e, "send") :
             Of(e)'[i] = Of(e)[j] /\ Later(e, "send", i)' = Later(e, "send", j)
    BY CountsKept
  <1>4. Base(e) \in Int /\ Base(e)' = Base(e) + 1
    BY <1>3, BaseMoves
  <1>5. Base(e) >= 0 /\ Base(e) \in Nat
    BY <1>4 DEF Queued
  <1>6. ASSUME NEW k \in DOMAIN r
        PROVE  r[k] = sent[e][Base(e)' + k]
    <2>1. r[k] = sent[e][Base(e) + (k + 1)]
      <3>1. k + 1 \in DOMAIN q /\ r[k] = q[k + 1]
        BY <1>2
      <3>2. \A i \in DOMAIN q : q[i] = sent[e][Base(e) + i]
        BY <1>q DEF Queued
      <3> QED BY <3>1, <3>2, Zenon
    <2>2. Base(e) + (k + 1) = Base(e)' + k
      BY <1>2, <1>4, <1>5
    <2> QED BY <2>1, <2>2
  <1>7. \A i \in W(e, "send")' :
          Of(e)'[i].message = sent'[e][Len(sent'[e]) - Later(e, "send", i)']
    BY <1>3 DEF Queued
  <1>8. Queued(e)'
    <2>1. Base(e)' >= 0
      BY <1>4, <1>5
    <2>2. \A k \in DOMAIN conn'[e].sendQueue : conn'[e].sendQueue[k] = sent'[e][Base(e)' + k]
      BY <1>1, <1>6
    <2> QED BY <1>7, <2>1, <2>2 DEF Queued
  <1>9. ASSUME r # <<>>
        PROVE  Base(e)' + 1 \in DOMAIN sent[e] /\ sent[e][Base(e)' + 1] = Head(r)
    <2>1. 1 \in DOMAIN r /\ Head(r) = r[1] /\ Len(q) >= 2
      BY <1>2, <1>9
    <2>2. sent[e][Base(e)' + 1] = r[1]
      BY <1>6, <2>1
    <2>3. N(e, "send") \in Nat /\ Len(sent[e]) \in Nat /\ DOMAIN sent[e] = 1 .. Len(sent[e])
      BY <1>1, Counts
    <2>4. Base(e) = Len(sent[e]) - N(e, "send") - Len(q)
      BY <1>q DEF Base
    <2>5. Base(e)' + 1 \in 1 .. Len(sent[e])
      <3>b. PICK b, c, l, n, d : /\ b = Base(e) /\ c = Base(e)' /\ l = Len(sent[e])
                                 /\ n = N(e, "send") /\ d = Len(q)
        OBVIOUS
      <3>1. /\ b \in Nat /\ l \in Nat /\ n \in Nat /\ d \in Nat /\ d >= 2
            /\ b = l - n - d /\ c = b + 1
        BY <1>2, <1>4, <1>5, <2>1, <2>3, <2>4, <3>b, Zenon
      <3>2. c + 1 \in 1 .. l
        BY <3>1
      <3> QED BY <3>b, <3>2, Zenon
    <2> QED BY <2>1, <2>2, <2>3, <2>5
  <1> QED BY <1>1, <1>4, <1>5, <1>8, <1>9

LEMMA RunWrittenStep ==
  ASSUME IInv, NEW s \in Strands, RunWritten(s)
  PROVE  IInv'
PROOF
  <1>e. PICK e : e = Head(strand[s]).end
    OBVIOUS
  <1> DEFINE q == Tail(conn[e].sendQueue)
             k == IF SendsNext(q) THEN DoSend(socket[e], q) ELSE socket[e]
  <1>1. /\ AtFront(s, "written") /\ strand' = Finished(s) /\ UNCHANGED <<plain, reader, history>>
        /\ plain' = plain
    BY DEF RunWritten
  <1>2. /\ TypeOK /\ StrandsOK /\ Posts /\ strand[s] # <<>> /\ e \in Ends /\ e \notin plain
        /\ StrandOf[e] = s /\ 1 \in W(e, "written") /\ ConnectionOK(e)
    BY <1>1, <1>e, InFront
  <1>3. N(e, "written") = N(e, "written")' + 1 /\ N(e, "written")' \in Nat
    BY <1>1, <1>2, OneTaken, MovedUp
  <1>4. /\ WriterOK(e) /\ conn[e].sendQueue \in Seq(Sendable) /\ socket[e] \in Sockets
        /\ conn[e].sendQueue # <<>> /\ socket[e].writing = <<>>
        /\ N(e, "written") = 1 /\ N(e, "written")' = 0
    <2>1. WriterOK(e) /\ socket[e] \in Sockets
      BY <1>2, Fields DEF ConnectionOK
    <2>2. N(e, "written") # 0 /\ N(e, "written") \in Nat
      BY <1>3
    <2>3. /\ conn[e].sendQueue \in Seq(Sendable) /\ conn[e].sendQueue # <<>>
          /\ socket[e].writing = <<>> /\ Len(socket[e].writing) = 0
      BY <1>2, <2>1, <2>2, WriterFacts
    <2>4. Len(socket[e].writing) + N(e, "written") <= 1
      BY <2>1 DEF WriterOK
    <2>5. N(e, "written") = 1 /\ N(e, "written")' = 0
      BY <1>3, <2>2, <2>3, <2>4
    <2> QED BY <2>1, <2>3, <2>5
  <1>5. q \in Seq(Sendable)
    BY <1>4
  <1>6. conn' = [conn EXCEPT ![e].sendQueue = q]
    BY <1>e DEF RunWritten
  <1>7. socket' = [socket EXCEPT ![e] = k]
    <2>1. socket' = IF SendsNext(q) THEN [socket EXCEPT ![e] = DoSend(@, q)] ELSE socket
      BY <1>e DEF RunWritten
    <2>2. socket = [socket EXCEPT ![e] = socket[e]]
      BY <1>2, Same
    <2> QED BY <2>1, <2>2
  <1>8. /\ k \in Sockets /\ k.open = socket[e].open /\ k.reading = socket[e].reading
        /\ k.unread = socket[e].unread
        /\ q = <<>> => k.writing = <<>>
        /\ q # <<>> => /\ k.writing # <<>> /\ Len(k.writing) = 1
                       /\ k.writing[1] \in Rests(Head(q)) /\ Len(k.writing[1]) = 2
    <2>1. CASE q # <<>>
      <3>1. k = DoSend(socket[e], q)
        BY <2>1 DEF SendsNext
      <3> HIDE DEF k, q
      <3> QED BY <1>4, <1>5, <2>1, <3>1, WriteStarts
    <2>2. CASE q = <<>>
      BY <1>4, <2>2 DEF SendsNext
    <2> QED BY <2>1, <2>2
  <1>q. q = Tail(conn[e].sendQueue)
    OBVIOUS
  <1> HIDE DEF k, q
  <1>9. /\ TypeOK' /\ Posts' /\ \A x \in Ends : x # e => Untouched(x)
        /\ ReaderUntouched(e) /\ conn'[e].sendQueue = q /\ conn'[e].closer = conn[e].closer
        /\ socket'[e] = k /\ sent'[e] = sent[e] /\ notified'[e] = notified[e]
        /\ KeptOps(e, {"send"})
    <2>1. q \in Seq(Sendable) /\ k \in Sockets /\ WriterRan(s, "written", e, q, k)
      BY <1>e, <1>1, <1>5, <1>6, <1>7, <1>8 DEF WriterRan
    <2>2. "send" \in {"send", "written"} /\ "written" \in {"send", "written"} /\ "written" # "send"
      OBVIOUS
    <2> QED BY <2>1, <2>2, WriterRuns, SMTT(30)
  <1>10. ASSUME socket[e].open
         PROVE  /\ Base(e) \in Nat /\ Base(e)' = Base(e) + 1 /\ Queued(e)'
                /\ Writes(e, Base(e) + 1)'
    <2>1. Queued(e)
      BY <1>4, <1>10 DEF WriterOK
    <2>2. /\ Base(e) \in Nat /\ Base(e)' = Base(e) + 1 /\ Queued(e)'
          /\ q # <<>> => Base(e)' + 1 \in DOMAIN sent[e] /\ sent[e][Base(e)' + 1] = Head(q)
      BY <1>2, <1>4, <1>9, <1>q, <2>1, QueuedShifted
    <2>3. Writes(e, Base(e) + 1)'
      BY <1>8, <1>9, <2>2 DEF Writes
    <2> QED BY <2>2, <2>3
  <1>11. WriterOK(e)'
    <2>1. CASE q = <<>>
      <3>1. Len(socket'[e].writing) + N(e, "written")' = 0
        <4>1. socket'[e].writing = <<>> /\ N(e, "written")' = 0
          BY <1>4, <1>8, <1>9, <2>1, Zenon
        <4> QED BY <4>1
      <3>2. socket'[e].open => Queued(e)' /\ Writes(e, Base(e) + 1)'
        BY <1>8, <1>9, <1>10
      <3> QED BY <1>4, <1>8, <1>9, <2>1, <3>1, <3>2 DEF WriterOK
    <2>2. CASE q # <<>>
      <3>1. Len(socket'[e].writing) + N(e, "written")' = 1
        <4>1. Len(socket'[e].writing) = 1 /\ N(e, "written")' = 0
          BY <1>4, <1>8, <1>9, <2>2, Zenon
        <4> QED BY <4>1
      <3>2. socket'[e].open => Queued(e)' /\ Writes(e, Base(e) + 1)'
        BY <1>8, <1>9, <1>10
      <3> QED BY <1>9, <2>2, <3>1, <3>2 DEF WriterOK
    <2> QED BY <2>1, <2>2
  <1>12. ASSUME socket[e].open
         PROVE  Put(e)' = Put(e)
    <2>1. Put(e) = 2 * Base(e) + 2
      BY <1>2, <1>4 DEF Put
    <2>2. Base(e)' = Base(e) + 1 /\ Base(e) \in Nat
      BY <1>10, <1>12
    <2>3. CASE q = <<>>
      <3>1. Put(e)' = 2 * Base(e)' + 0
        BY <1>1, <1>2, <1>4, <1>8, <1>9, <2>3 DEF Put
      <3> QED BY <2>1, <2>2, <3>1
    <2>4. CASE q # <<>>
      <3>1. Put(e)' = 2 * Base(e)' + (2 - Len(k.writing[1]))
        BY <1>1, <1>2, <1>8, <1>9, <2>4 DEF Put
      <3>2. Len(k.writing[1]) = 2
        BY <1>8, <2>4
      <3> QED BY <2>1, <2>2, <3>1, <3>2
    <2> QED BY <2>3, <2>4
  <1>13. Extends(sent[e], sent'[e])
    BY <1>2, <1>9, Typed DEF Extends
  <1> QED BY <1>1, <1>2, <1>8, <1>9, <1>11, <1>12, <1>13, WriterMoves

\* Of the one write nothing is left.
LEMMA OnlyOneRemoved ==
  ASSUME NEW w \in Seq(Seq(Bytes)), Len(w) = 1, NEW i \in DOMAIN w
  PROVE  i = 1 /\ RemoveAt(w, i) = <<>>
PROOF
  <1>1. i = 1
    OBVIOUS
  <1>2. SubSeq(w, 1, 0) = <<>> /\ SubSeq(w, 2, 1) = <<>>
    BY SubSeqEmpty
  <1>3. RemoveAt(w, 1) = SubSeq(w, 1, 0) \o SubSeq(w, 2, 1)
    BY DEF RemoveAt
  <1> QED BY <1>1, <1>2, <1>3

LEMMA WriteCompletesStep ==
  ASSUME IInv, NEW e \in Ends, e \notin plain, NEW ok \in BOOLEAN, WriteCompletes(e, ok)
  PROVE  IInv'
PROOF
  <1> DEFINE h == Completion(e, "written", ok)
             k == [socket[e] EXCEPT !.writing = <<>>]
  <1>1. /\ plain' = plain /\ conn' = conn /\ reader' = reader /\ calls' = calls /\ sent' = sent
        /\ received' = received /\ notified' = notified /\ strand' = Posted(strand, e, h)
    BY DEF WriteCompletes, history
  <1>2. PICK i \in DOMAIN socket[e].writing :
          /\ IF ok THEN socket[e].writing[i] = <<>>
             ELSE ~socket[e].open \/ ~socket[Peer[e]].open
          /\ socket' = [socket EXCEPT ![e].writing = RemoveAt(@, i)]
    BY DEF WriteCompletes
  <1>3. TypeOK /\ StrandsOK /\ Posts /\ ConnectionOK(e) /\ WriterOK(e) /\ socket[e] \in Sockets
    <2>1. TypeOK /\ StrandsOK /\ Posts /\ ConnectionOK(e)
      BY DEF IInv, EndOK, TypeOK, StrandsOK
    <2> QED BY <2>1, Fields DEF ConnectionOK
  <1>4. /\ socket[e].writing \in Seq(Seq(Bytes)) /\ socket[e].writing # <<>>
        /\ Len(socket[e].writing) = 1 /\ N(e, "written") = 0 /\ conn[e].sendQueue # <<>>
    <2>1. socket[e].writing \in Seq(Seq(Bytes))
      BY <1>3, WriterFacts
    <2>2. socket[e].writing # <<>>
      BY <1>2, <2>1
    <2>3. Len(socket[e].writing) = 1 /\ N(e, "written") = 0 /\ conn[e].sendQueue # <<>>
      BY <1>3, <2>2, WriterFacts
    <2> QED BY <2>1, <2>2, <2>3
  <1>5. i = 1 /\ RemoveAt(socket[e].writing, i) = <<>>
    BY <1>2, <1>4, OnlyOneRemoved
  <1>6. socket' = [socket EXCEPT ![e] = k]
    BY <1>2, <1>3, <1>5, Types DEF Shape
  <1>7. /\ k \in Sockets /\ k.writing = <<>> /\ k.open = socket[e].open
        /\ k.reading = socket[e].reading /\ k.unread = socket[e].unread
    <2>1. <<>> \in Seq(Seq(Bytes))
      OBVIOUS
    <2>2. k \in Sockets
      BY <1>3, <2>1, SocketFields
    <2> QED BY <1>3, <2>2 DEF Sockets
  <1>8. h \in Handlers /\ h.end = e /\ h.op = "written"
    BY CompletionOK
  <1> HIDE DEF h, k
  <1>9. /\ StrandsOK' /\ Posts'
        /\ \A x \in Ends, ops \in SUBSET Ops : x # e \/ "written" \notin ops => KeptOps(x, ops)
    BY <1>1, <1>8, Posting
  <1>10. /\ TypeOK' /\ \A x \in Ends : x # e => Untouched(x)
         /\ conn'[e] = conn[e] /\ socket'[e] = k /\ reader'[e] = reader[e]
         /\ sent'[e] = sent[e] /\ received'[e] = received[e] /\ notified'[e] = notified[e]
    <2>1. Changes(e, conn[e], k, reader[e], sent[e], received[e], notified[e])
      BY <1>1, <1>3, <1>6, Same DEF Changes
    <2>2. \A x \in Ends : x # e => KeptOps(x, Ops)
      BY <1>9
    <2> QED BY <1>3, <1>7, <1>9, <2>1, <2>2, Fields, Changed
  <1>11. ReaderUntouched(e)
    <2>1. KeptOps(e, {"start", "body", "deliver"})
      BY <1>9 DEF Ops
    <2> QED BY <1>7, <1>10, <2>1 DEF ReaderUntouched
  <1>12. KeptOps(e, {"send"})
    BY <1>9 DEF Ops
  <1>13. N(e, "written")' = 1
    <2>n. PICK n : n = Len(Of(e)) + 1
      OBVIOUS
    <2>1. N(e, "written")' = N(e, "written") + 1
      BY <1>1, <1>3, <1>8, <2>n, LastPosted
    <2> QED BY <1>4, <2>1
  <1>14. /\ N(e, "send")' = N(e, "send") /\ Base(e)' = Base(e)
         /\ \A j \in W(e, "send")' : \E l \in W(e, "send") :
              Of(e)'[j] = Of(e)[l] /\ Later(e, "send", j)' = Later(e, "send", l)
    <2>1. /\ N(e, "send")' = N(e, "send")
          /\ \A j \in W(e, "send")' : \E l \in W(e, "send") :
               Of(e)'[j] = Of(e)[l] /\ Later(e, "send", j)' = Later(e, "send", l)
      BY <1>12, CountsKept
    <2> QED BY <1>10, <2>1 DEF Base
  <1>15. WriterOK(e)'
    <2>1. Len(socket'[e].writing) = 0
      BY <1>7, <1>10
    <2>2. Len(socket'[e].writing) + N(e, "written")' = 1
      BY <1>13, <2>1
    <2>3. socket'[e].open => Queued(e)'
      <3>1. socket'[e].open => Queued(e)
        BY <1>3, <1>7, <1>10 DEF WriterOK
      <3> QED BY <1>10, <1>14, <3>1 DEF Queued
    <2>4. Writes(e, Base(e) + 1)'
      BY <1>7, <1>10 DEF Writes
    <2> QED BY <1>4, <1>10, <2>2, <2>3, <2>4 DEF WriterOK
  <1>16. ASSUME socket[e].open, socket[Peer[e]].open
         PROVE  Put(e)' = Put(e)
    <2>1. Len(socket[e].writing[1]) = 0
      BY <1>2, <1>5, <1>16
    <2>2. Put(e) = 2 * Base(e) + (2 - Len(socket[e].writing[1]))
      BY <1>4 DEF Put
    <2>3. Put(e)' = 2 * Base(e)' + 2
      BY <1>1, <1>7, <1>10, <1>13 DEF Put
    <2> QED BY <1>14, <2>1, <2>2, <2>3
  <1>17. Extends(sent[e], sent'[e])
    BY <1>3, <1>10, Typed DEF Extends
  <1> QED BY <1>1, <1>3, <1>7, <1>9, <1>10, <1>11, <1>15, <1>16, <1>17, WriterMoves

LEMMA RestOf ==
  ASSUME NEW m \in Messages, NEW part \in Rests(m), part # <<>>
  PROVE  /\ part \in Seq(Bytes) /\ Head(part) \in Bytes /\ Tail(part) \in Seq(Bytes)
         /\ Tail(part) \in Rests(m) /\ Len(part) \in Nat /\ Len(Tail(part)) = Len(part) - 1
         /\ \/ Len(part) = 2 /\ Head(part) = Part("size", m)
            \/ Len(part) = 1 /\ Head(part) = Part("data", m)
PROOF
  <1> DEFINE d == Part("data", m)
  <1>1. d \in Bytes /\ Part("size", m) \in Bytes
    BY DEF Part, Bytes
  <1>2. CASE part = Frame(m)
    <2>1. /\ part \in Seq(Bytes) /\ Len(part) = 2 /\ Head(part) = Part("size", m)
          /\ Tail(part) = <<Part("data", m)>>
      BY <1>2, FrameOK
    <2>2. Tail(part) \in Rests(m)
      BY <2>1 DEF Rests
    <2>3. Tail(part) = <<d>>
      BY <2>1
    <2> HIDE DEF d
    <2>4. Tail(part) \in Seq(Bytes) /\ Len(Tail(part)) = 1
      <3>1. <<d>> \in Seq(Bytes) /\ Len(<<d>>) = 1
        BY <1>1
      <3> QED BY <2>3, <3>1, Zenon
    <2> QED BY <1>1, <2>1, <2>2, <2>4
  <1>3. CASE part = <<Part("data", m)>>
    <2>1. part = <<d>>
      BY <1>3
    <2>2. <<>> \in Rests(m)
      BY DEF Rests
    <2> HIDE DEF d
    <2>3. part \in Seq(Bytes) /\ Head(part) = d /\ Len(part) = 1
      BY <1>1, <2>1
    <2>4. Tail(part) \in Seq(Bytes) /\ Len(Tail(part)) = 0
      BY <2>3
    <2>5. Tail(part) = <<>>
      BY <2>4, EmptySeq
    <2>6. Len(part) \in Nat /\ Len(Tail(part)) = Len(part) - 1
      BY <2>3, <2>4
    <2>7. Tail(part) \in Rests(m)
      BY <2>2, <2>5
    <2> QED BY <1>1, <2>3, <2>4, <2>6, <2>7 DEF d
  <1> QED BY <1>2, <1>3 DEF Rests

LEMMA OneReplaced ==
  ASSUME NEW S, NEW w \in Seq(S), Len(w) = 1, NEW t \in S, NEW r, r = [w EXCEPT ![1] = t]
  PROVE  r \in Seq(S) /\ Len(r) = 1 /\ r # <<>> /\ r[1] = t
PROOF
  OBVIOUS

\* The write that an end has under way, and where in the stream it is.
WriteAt(e) == IF e \in plain THEN Len(sent[e]) ELSE Base(e) + 1

LEMMA UnderWay ==
  ASSUME IInv, NEW e \in Ends, socket[e].open, socket[e].writing # <<>>
  PROVE  /\ TypeOK /\ Len(socket[e].writing) = 1 /\ WriteAt(e) \in DOMAIN sent[e]
         /\ WriteAt(e) \in Nat /\ sent[e][WriteAt(e)] \in Messages
         /\ socket[e].writing[1] \in Rests(sent[e][WriteAt(e)])
         /\ Put(e) = 2 * WriteAt(e) - Len(socket[e].writing[1])
PROOF
  <1>1. TypeOK /\ StrandsOK /\ EndOK(e) /\ sent[e] \in Seq(Messages)
        /\ socket[e].writing \in Seq(Seq(Bytes))
    BY Typed DEF IInv
  <1>2. DOMAIN sent[e] = 1 .. Len(sent[e]) /\ Len(sent[e]) \in Nat
        /\ \A n \in DOMAIN sent[e] : n \in Nat /\ sent[e][n] \in Messages
    BY <1>1
  <1>3. CASE e \in plain
    <2>1. Len(socket[e].writing) <= 1 /\ Writes(e, Len(sent[e])) /\ WriteAt(e) = Len(sent[e])
      BY <1>1, <1>3 DEF EndOK, PlainOK, WriteAt
    <2>2. Len(socket[e].writing) = 1
      <3>l. PICK l : l = Len(socket[e].writing)
        OBVIOUS
      <3>1. l \in Nat /\ l # 0 /\ l <= 1
        BY <1>1, <2>1, <3>l, EmptySeq
      <3>2. l = 1
        BY <3>1
      <3> QED BY <3>l, <3>2
    <2>3. Put(e) = 2 * WriteAt(e) - Len(socket[e].writing[1])
      BY <1>1, <1>3, <2>1, PlainPut
    <2> QED BY <1>1, <1>2, <2>1, <2>2, <2>3 DEF Writes
  <1>4. CASE e \notin plain
    <2>1. WriterOK(e) /\ WriteAt(e) = Base(e) + 1
      BY <1>1, <1>4 DEF EndOK, ConnectionOK, WriteAt
    <2>2. Len(socket[e].writing) = 1
      BY <1>1, <2>1, WriterFacts
    <2>3. Writes(e, WriteAt(e))
      BY <2>1 DEF WriterOK
    <2>4. /\ WriteAt(e) \in DOMAIN sent[e] /\ WriteAt(e) \in Nat /\ sent[e][WriteAt(e)] \in Messages
          /\ socket[e].writing[1] \in Rests(sent[e][WriteAt(e)])
      BY <1>2, <2>3 DEF Writes
    <2>5. socket[e].writing[1] \in Seq(Bytes) /\ Len(socket[e].writing[1]) \in Nat
      BY <1>1, <2>2
    <2>6. Base(e) \in Int
      <3>1. N(e, "send") \in Nat /\ Len(conn[e].sendQueue) \in Nat
        BY <1>1, <2>1, WriterFacts
      <3> QED BY <1>2, <3>1 DEF Base
    <2>7. Put(e) = 2 * Base(e) + (2 - Len(socket[e].writing[1]))
      BY <1>4 DEF Put
    <2>8. Put(e) = 2 * WriteAt(e) - Len(socket[e].writing[1])
      BY <2>1, <2>5, <2>6, <2>7
    <2> QED BY <1>1, <2>2, <2>4, <2>8
  <1> QED BY <1>3, <1>4

\* The sockets after a part was written: that of the writer, and that of its peer,
\* which holds one more unless it is closed.
Wrote(e, k, u) ==
  /\ k \in Sockets /\ k.open = socket[e].open /\ k.reading = socket[e].reading
  /\ k.unread = socket[e].unread /\ k.writing # <<>> /\ Len(k.writing) = 1
  /\ k.writing[1] = Tail(socket[e].writing[1])
  /\ IF socket[Peer[e]].open
     THEN u = [socket[Peer[e]] EXCEPT !.unread = Append(@, Head(socket[e].writing[1]))]
     ELSE u = socket[Peer[e]]
  /\ socket' = [socket EXCEPT ![e] = k, ![Peer[e]] = u]

LEMMA PartWritten ==
  ASSUME IInv, NEW e \in Ends, WritePart(e)
  PROVE  /\ socket[e].open /\ socket[e].writing # <<>> /\ socket[e].writing[1] # <<>>
         /\ UNCHANGED <<plain, conn, strand, reader, history>>
         /\ \E k, u : Wrote(e, k, u)
PROOF
  <1>1. PICK i \in DOMAIN socket[e].writing :
          LET part == socket[e].writing[i]
              written == [socket EXCEPT ![e].writing[i] = Tail(@)]
          IN /\ part # <<>>
             /\ \/ /\ socket[Peer[e]].open
                   /\ Len(socket[Peer[e]].unread) < WireCapacity
                   /\ socket' = [written EXCEPT ![Peer[e]].unread = Append(@, Head(part))]
                \/ /\ ~socket[Peer[e]].open
                   /\ socket' = written
    BY DEF WritePart
  <1>2. /\ socket[e].open /\ UNCHANGED <<plain, conn, strand, reader, history>>
    BY DEF WritePart
  <1>3. TypeOK
    BY DEF IInv
  <1>4. /\ socket[e].writing \in Seq(Seq(Bytes)) /\ socket[e] \in Sockets
        /\ Peer[e] \in Ends /\ Peer[e] # e /\ socket \in [Ends -> Sockets]
    BY <1>3, Typed, Fields, Types DEF Shape
  <1>5. socket[e].writing # <<>>
    BY <1>1, <1>4
  <1>6. Len(socket[e].writing) = 1
    BY <1>2, <1>5, UnderWay
  <1>7. i = 1
    BY <1>1, <1>4, <1>6
  <1>p. PICK part, p : part = socket[e].writing[1] /\ p = Peer[e]
    OBVIOUS
  <1>8. part \in Seq(Bytes) /\ part # <<>> /\ Tail(part) \in Seq(Bytes)
    BY <1>1, <1>4, <1>6, <1>7, <1>p
  <1>r. PICK r : r = [socket[e].writing EXCEPT ![1] = Tail(part)]
    OBVIOUS
  <1>9. r \in Seq(Seq(Bytes)) /\ Len(r) = 1 /\ r # <<>> /\ r[1] = Tail(part)
    BY <1>4, <1>6, <1>8, <1>r, OneReplaced
  <1>k. PICK k : k = [socket[e] EXCEPT !.writing = r]
    OBVIOUS
  <1>10. k \in Sockets
    BY <1>4, <1>9, <1>k, SocketFields
  <1>11. /\ k.open = socket[e].open /\ k.reading = socket[e].reading
         /\ k.unread = socket[e].unread /\ k.writing = r
    BY <1>4, <1>k DEF Sockets
  <1>12. [socket EXCEPT ![e].writing[i] = Tail(@)] = [socket EXCEPT ![e] = k]
    BY <1>7, <1>p, <1>r, <1>k
  <1>13. CASE socket[p].open
    <2>u. PICK u : u = [socket[p] EXCEPT !.unread = Append(@, Head(part))]
      OBVIOUS
    <2>1. socket' = [[socket EXCEPT ![e] = k] EXCEPT ![p].unread = Append(@, Head(part))]
      BY <1>1, <1>7, <1>12, <1>13, <1>p
    <2>2. socket' = [socket EXCEPT ![e] = k, ![p] = u]
      BY <1>4, <1>p, <2>u, <2>1
    <2>3. /\ u = [socket[Peer[e]] EXCEPT !.unread = Append(@, Head(socket[e].writing[1]))]
          /\ socket' = [socket EXCEPT ![e] = k, ![Peer[e]] = u] /\ socket[Peer[e]].open
      BY <1>13, <1>p, <2>u, <2>2
    <2>4. k.writing # <<>> /\ Len(k.writing) = 1 /\ k.writing[1] = Tail(socket[e].writing[1])
      BY <1>9, <1>11, <1>p, Zenon
    <2>5. Wrote(e, k, u)
      BY <1>10, <1>11, <2>3, <2>4 DEF Wrote
    <2> QED BY <1>2, <1>5, <1>8, <1>p, <2>5
  <1>14. CASE ~socket[p].open
    <2>1. socket' = [socket EXCEPT ![e] = k]
      BY <1>1, <1>12, <1>14, <1>p
    <2>2. socket' = [socket EXCEPT ![e] = k, ![p] = socket[p]]
      BY <1>4, <1>p, <2>1
    <2> QED BY <1>1, <1>2, <1>5, <1>7, <1>9, <1>10, <1>11, <1>14, <1>p, <2>2 DEF Wrote
  <1> QED BY ONLY <1>13, <1>14

LEMMA WroteKeeps ==
  ASSUME IInv, NEW e \in Ends, socket[e].open, socket[e].writing # <<>>,
         socket[e].writing[1] # <<>>, UNCHANGED <<plain, conn, strand, reader, history>>,
         NEW k, NEW u, Wrote(e, k, u)
  PROVE  /\ TypeOK' /\ Posts' /\ StrandsOK'
         /\ plain' = plain /\ conn' = conn /\ strand' = strand /\ reader' = reader
         /\ sent' = sent /\ received' = received /\ notified' = notified
         /\ \A x \in Ends : /\ KeptOps(x, Ops) /\ KeptOps(x, {"send", "written"})
                            /\ KeptOps(x, {"start", "body", "deliver"})
         /\ \A x \in Ends : x # e /\ x # Peer[e] => Untouched(x)
         /\ socket'[e] = k /\ socket'[Peer[e]] = u
         /\ u.open = socket[Peer[e]].open /\ u.reading = socket[Peer[e]].reading
         /\ u.writing = socket[Peer[e]].writing
         /\ socket[Peer[e]].open =>
              u.unread = Append(socket[Peer[e]].unread, Head(socket[e].writing[1]))
         /\ ~socket[Peer[e]].open => u.unread = socket[Peer[e]].unread
PROOF
  <1>p. PICK p, b : p = Peer[e] /\ b = Head(socket[e].writing[1])
    OBVIOUS
  <1>1. /\ TypeOK /\ StrandsOK /\ Posts /\ plain' = plain /\ conn' = conn /\ strand' = strand
        /\ reader' = reader /\ calls' = calls /\ sent' = sent /\ received' = received
        /\ notified' = notified
    BY DEF IInv, TypeOK, StrandsOK, history
  <1>2. p \in Ends /\ p # e /\ socket[p] \in Sockets /\ socket \in [Ends -> Sockets]
    BY <1>1, <1>p, Typed, Fields, Types DEF Shape
  <1>3. b \in Bytes
    BY <1>p, UnderWay, RestOf
  <1>4. Append(socket[p].unread, b) \in Seq(Bytes)
    BY <1>2, <1>3 DEF Sockets
  <1>5. /\ socket[p].open => u = [socket[p] EXCEPT !.unread = Append(socket[p].unread, b)]
        /\ ~socket[p].open => u = socket[p]
    BY <1>p DEF Wrote
  <1>6. u \in Sockets
    BY <1>2, <1>4, <1>5, SocketFields
  <1>7. /\ u.open = socket[p].open /\ u.reading = socket[p].reading /\ u.writing = socket[p].writing
        /\ socket[p].open => u.unread = Append(socket[p].unread, b)
        /\ ~socket[p].open => u.unread = socket[p].unread
    BY <1>2, <1>5 DEF Sockets
  <1>8. k \in Sockets /\ socket' = [socket EXCEPT ![e] = k, ![p] = u]
    BY <1>p DEF Wrote
  <1>9. /\ socket' \in [Ends -> Sockets] /\ socket'[e] = k /\ socket'[p] = u
        /\ \A x \in Ends : x # e /\ x # p => socket'[x] = socket[x]
    BY <1>2, <1>6, <1>8
  <1>10. TypeOK' /\ StrandsOK' /\ Posts'
    BY <1>1, <1>9, Types DEF Shape, StrandsOK, Posts
  <1>11. \A x \in Ends : /\ KeptOps(x, Ops) /\ KeptOps(x, {"send", "written"})
                         /\ KeptOps(x, {"start", "body", "deliver"})
    BY <1>1, SameKeeps DEF Of
  <1>12. \A x \in Ends : x # e /\ x # p => Untouched(x)
    BY <1>1, <1>9, <1>11 DEF Untouched
  <1> QED BY <1>1, <1>7, <1>9, <1>10, <1>11, <1>12, <1>p

\* What WritePart does, as the lemmas below use it.
LEMMA WritePartChanges ==
  ASSUME IInv, NEW e \in Ends, WritePart(e)
  PROVE  /\ TypeOK /\ TypeOK' /\ StrandsOK /\ StrandsOK' /\ Posts'
         /\ plain' = plain /\ conn' = conn /\ strand' = strand /\ reader' = reader
         /\ sent' = sent /\ received' = received /\ notified' = notified
         /\ \A x \in Ends : /\ KeptOps(x, Ops) /\ KeptOps(x, {"send", "written"})
                            /\ KeptOps(x, {"start", "body", "deliver"})
         /\ \A x \in Ends : x # e /\ x # Peer[e] => Untouched(x)
         /\ socket[e].open /\ socket[e].writing # <<>> /\ socket[e].writing[1] # <<>>
         /\ \A x \in Ends : socket'[x].open = socket[x].open /\ socket'[x].reading = socket[x].reading
         /\ socket'[e].unread = socket[e].unread /\ socket'[e].writing # <<>>
         /\ Len(socket'[e].writing) = 1
         /\ socket'[e].writing[1] = Tail(socket[e].writing[1])
         /\ socket'[Peer[e]].writing = socket[Peer[e]].writing
         /\ socket[Peer[e]].open =>
              socket'[Peer[e]].unread =
                Append(socket[Peer[e]].unread, Head(socket[e].writing[1]))
PROOF
  <1>1. /\ socket[e].open /\ socket[e].writing # <<>> /\ socket[e].writing[1] # <<>>
        /\ UNCHANGED <<plain, conn, strand, reader, history>>
        /\ \E k, u : Wrote(e, k, u)
    BY PartWritten
  <1>2. PICK k, u : Wrote(e, k, u)
    BY <1>1
  <1>3. /\ TypeOK' /\ Posts' /\ StrandsOK'
        /\ plain' = plain /\ conn' = conn /\ strand' = strand /\ reader' = reader
        /\ sent' = sent /\ received' = received /\ notified' = notified
        /\ \A x \in Ends : /\ KeptOps(x, Ops) /\ KeptOps(x, {"send", "written"})
                           /\ KeptOps(x, {"start", "body", "deliver"})
        /\ \A x \in Ends : x # e /\ x # Peer[e] => Untouched(x)
        /\ socket'[e] = k /\ socket'[Peer[e]] = u
        /\ u.open = socket[Peer[e]].open /\ u.reading = socket[Peer[e]].reading
        /\ u.writing = socket[Peer[e]].writing
        /\ socket[Peer[e]].open =>
             u.unread = Append(socket[Peer[e]].unread, Head(socket[e].writing[1]))
    BY <1>1, <1>2, WroteKeeps
  <1>4. /\ k.open = socket[e].open /\ k.reading = socket[e].reading
        /\ k.unread = socket[e].unread /\ k.writing # <<>> /\ Len(k.writing) = 1
        /\ k.writing[1] = Tail(socket[e].writing[1])
    BY <1>2 DEF Wrote
  <1>5. \A x \in Ends : socket'[x].open = socket[x].open /\ socket'[x].reading = socket[x].reading
    BY <1>3, <1>4 DEF Untouched
  <1>6. TypeOK /\ StrandsOK
    BY DEF IInv, TypeOK, StrandsOK
  <1> QED BY <1>1, <1>3, <1>4, <1>5, <1>6

LEMMA PutGrows ==
  ASSUME IInv, NEW e \in Ends, WritePart(e)
  PROVE  /\ WriteAt(e)' = WriteAt(e) /\ Put(e)' = Put(e) + 1
         /\ socket'[e].writing[1] \in Rests(sent[e][WriteAt(e)])
PROOF
  <1>p. PICK part : part = socket[e].writing[1]
    OBVIOUS
  <1>1. /\ TypeOK /\ TypeOK' /\ plain' = plain /\ conn' = conn /\ sent' = sent
        /\ KeptOps(e, {"send", "written"})
        /\ socket[e].open /\ socket[e].writing # <<>> /\ part # <<>>
        /\ socket'[e].writing # <<>> /\ socket'[e].writing[1] = Tail(part)
    BY <1>p, WritePartChanges
  <1>2. /\ WriteAt(e) \in Nat /\ sent[e][WriteAt(e)] \in Messages
        /\ part \in Rests(sent[e][WriteAt(e)]) /\ Put(e) = 2 * WriteAt(e) - Len(part)
    BY <1>1, <1>p, UnderWay
  <1>3. /\ Tail(part) \in Rests(sent[e][WriteAt(e)])
        /\ Len(part) \in Nat /\ Len(Tail(part)) = Len(part) - 1
    BY <1>1, <1>2, RestOf
  <1>4. N(e, "send")' = N(e, "send") /\ N(e, "written")' = N(e, "written")
    BY <1>1, CountsKept
  <1>5. Base(e)' = Base(e)
    BY <1>1, <1>4 DEF Base
  <1>6. WriteAt(e)' = WriteAt(e)
    BY <1>1, <1>5 DEF WriteAt
  <1>7. Put(e)' = 2 * WriteAt(e) - Len(Tail(part))
    <2>1. CASE e \in plain
      <3>1. Put(e)' = 2 * Len(sent'[e]) - Len(socket'[e].writing[1])
        BY <1>1, <2>1, PlainPutNext
      <3> QED BY <1>1, <2>1, <3>1 DEF WriteAt
    <2>2. CASE e \notin plain
      <3>1. Put(e)' = 2 * Base(e)' + (2 - Len(socket'[e].writing[1]))
        BY <1>1, <2>2 DEF Put
      <3>2. WriteAt(e) = Base(e) + 1
        BY <2>2 DEF WriteAt
      <3>3. Base(e) \in Int
        <4>1. StrandsOK /\ Len(sent[e]) \in Nat /\ Len(conn[e].sendQueue) \in Nat
          BY <1>1, Typed
        <4>2. N(e, "send") \in Nat
          BY <4>1, Counts
        <4> QED BY <4>1, <4>2 DEF Base
      <3>4. Put(e)' = 2 * Base(e) + (2 - Len(Tail(part)))
        BY <1>1, <1>5, <3>1
      <3> QED BY <1>2, <1>3, <3>2, <3>3, <3>4
    <2> QED BY <2>1, <2>2
  <1>8. Put(e)' = Put(e) + 1
    <2>l. PICK n, l, t : n = WriteAt(e) /\ l = Len(part) /\ t = Len(Tail(part))
      OBVIOUS
    <2>1. n \in Nat /\ l \in Nat /\ t = l - 1 /\ Put(e) = 2 * n - l /\ Put(e)' = 2 * n - t
      BY <1>2, <1>3, <1>7, <2>l, Zenon
    <2> QED BY <2>1
  <1> QED BY <1>1, <1>3, <1>6, <1>8

\* The end that writes.
LEMMA WriterAfter ==
  ASSUME IInv, NEW e \in Ends, WritePart(e)
  PROVE  EndOK(e)'
PROOF
  <1>p. PICK p : p = Peer[e]
    OBVIOUS
  <1>1. /\ TypeOK /\ TypeOK' /\ StrandsOK /\ StrandsOK' /\ plain' = plain /\ conn' = conn
        /\ reader' = reader /\ sent' = sent /\ received' = received /\ notified' = notified
        /\ strand' = strand
        /\ socket[e].open /\ socket[e].writing # <<>>
        /\ socket'[e].open = socket[e].open /\ socket'[e].reading = socket[e].reading
        /\ socket'[e].unread = socket[e].unread
        /\ Len(socket'[e].writing) = 1
    BY WritePartChanges
  <1>2. /\ WriteAt(e)' = WriteAt(e) /\ WriteAt(e) \in DOMAIN sent[e]
        /\ socket'[e].writing[1] \in Rests(sent[e][WriteAt(e)])
    BY <1>1, PutGrows, UnderWay
  <1>3. CASE e \in plain
    <2>1. PlainOK(e)
      BY <1>3 DEF IInv, EndOK
    <2>2. Len(sent'[e]) = WriteAt(e)
      BY <1>1, <1>3 DEF WriteAt
    <2>3. Writes(e, Len(sent[e]))'
      BY <1>1, <1>2, <2>2 DEF Writes
    <2>4. PlainOK(e)'
      <3>1. Len(socket'[e].writing) <= 1
        BY <1>1
      <3> QED BY <1>1, <2>1, <2>3, <3>1 DEF PlainOK
    <2> QED BY <1>1, <1>3, <2>4 DEF EndOK
  <1>4. CASE e \notin plain
    <2>1. ConnectionOK(e)
      BY <1>4 DEF IInv, EndOK
    <2>2. /\ KeptOps(e, {"send", "written"}) /\ KeptOps(e, {"start", "body", "deliver"})
          /\ p \in Ends /\ KeptOps(p, {"send", "written"}) /\ socket'[p].writing = socket[p].writing
          /\ socket'[p].open = socket[p].open
      BY <1>1, <1>p, Typed, WritePartChanges
    <2>3. ReaderUntouched(e) /\ WriterUntouched(p)
      BY <1>1, <2>2 DEF ReaderUntouched, WriterUntouched
    <2>4. Closing(e)'
      BY <1>1, <2>1 DEF ConnectionOK, Closing
    <2>5. WriterOK(e)'
      <3>1. N(e, "send")' = N(e, "send") /\ N(e, "written")' = N(e, "written")
        BY <2>2, CountsKept
      <3>2. Base(e)' = Base(e)
        BY <1>1, <3>1 DEF Base
      <3>3. /\ Len(socket'[e].writing) = Len(socket[e].writing) /\ conn[e].sendQueue # <<>>
        <4>1. WriterOK(e)
          BY <2>1 DEF ConnectionOK
        <4> QED BY <1>1, <4>1, WriterFacts
      <3>4. Queued(e)'
        <4>1. Queued(e)
          BY <1>1, <2>1 DEF ConnectionOK, WriterOK
        <4> QED BY <1>1, <3>2, <4>1 DEF Queued, Of, W, Later
      <3>5. Writes(e, Base(e) + 1)'
        <4>1. WriteAt(e) = Base(e) + 1
          BY <1>4 DEF WriteAt
        <4> QED BY <1>1, <1>2, <3>2, <4>1 DEF Writes
      <3> QED BY <1>1, <2>1, <3>1, <3>3, <3>4, <3>5 DEF ConnectionOK, WriterOK
    <2>6. ReaderOK(e)'
      BY <1>1, <2>1, <2>3, ReaderKept DEF ConnectionOK
    <2>7. Extends(sent[p], sent'[p])
      BY <1>1, <2>2, Typed DEF Extends
    <2>8. WireUntouched(e)
      BY <1>1, <2>3, ReaderIsUntouched
    <2>9. Chain(e)'
      BY <1>1, <1>p, <2>1, <2>7, <2>8, ChainKept DEF ConnectionOK, WireUntouched
    <2>10. Put(p)' = Put(p)
      BY <1>1, <2>2, <2>3, PutKept
    <2>11. Wire(e)'
      BY <1>1, <1>p, <2>1, <2>2, <2>7, <2>8, <2>10, WireKept DEF ConnectionOK
    <2> QED BY <1>1, <1>4, <2>4, <2>5, <2>6, <2>9, <2>11 DEF EndOK, ConnectionOK
  <1> QED BY <1>3, <1>4

\* What is held for the other end goes on with the part that was written.
LEMMA HoldsNext ==
  ASSUME IInv, NEW e \in Ends, WritePart(e), NEW p, p = Peer[e], socket[p].open, Holds(p),
         HasRead(p) + Len(socket[p].unread) = Put(e), HasRead(p)' = HasRead(p)
  PROVE  Holds(p)' /\ HasRead(p)' + Len(socket'[p].unread) = Put(e)'
PROOF
  <1>p. PICK part, b, n, u, q :
          /\ part = socket[e].writing[1] /\ b = Head(part) /\ n = WriteAt(e)
          /\ u = socket[p].unread /\ q = sent[e]
    OBVIOUS
  <1>1. /\ TypeOK /\ sent' = sent /\ socket[e].open /\ socket[e].writing # <<>> /\ part # <<>>
        /\ socket'[p].unread = Append(u, b)
    BY <1>p, WritePartChanges
  <1>2. /\ n \in DOMAIN q /\ n \in Nat /\ q[n] \in Messages /\ part \in Rests(q[n])
        /\ Put(e) = 2 * n - Len(part)
    BY <1>1, <1>p, UnderWay
  <1>3. /\ b \in Bytes
        /\ \/ Len(part) = 2 /\ b = Part("size", q[n])
           \/ Len(part) = 1 /\ b = Part("data", q[n])
    BY <1>1, <1>2, <1>p, RestOf
  <1>4. Put(e)' = Put(e) + 1
    BY PutGrows
  <1>5. /\ p \in Ends /\ u \in Seq(Bytes) /\ q \in Seq(Messages) /\ SentTo(p) = q /\ SentTo(p)' = q
    BY <1>1, <1>p, Typed DEF SentTo
  <1>6. HasRead(p) \in Nat
    BY <1>1, <1>5, ReadCounts
  <1>h. PICK h : h = HasRead(p)
    OBVIOUS
  <1>7. /\ Len(u) \in Nat /\ Len(q) \in Nat /\ n <= Len(q) /\ DOMAIN q = 1 .. Len(q)
        /\ DOMAIN Append(u, b) = 1 .. (Len(u) + 1) /\ Len(Append(u, b)) = Len(u) + 1
        /\ Append(u, b)[Len(u) + 1] = b
        /\ \A j \in 1 .. Len(u) : j \in DOMAIN u /\ Append(u, b)[j] = u[j]
    BY <1>2, <1>3, <1>5
  <1>8. h + Len(u) = 2 * n - Len(part) /\ h \in Nat
    BY <1>2, <1>6, <1>h, <1>p
  <1>9. h + Len(Append(u, b)) <= 2 * Len(q)
    <2>l. PICK l, m, a, x : l = Len(u) /\ m = Len(part) /\ a = Len(Append(u, b)) /\ x = Len(q)
      OBVIOUS
    <2>1. /\ l \in Nat /\ a = l + 1 /\ x \in Nat /\ n <= x /\ h + l = 2 * n - m
          /\ m = 1 \/ m = 2
      BY <1>3, <1>7, <1>8, <2>l, Zenon
    <2>2. h + a <= 2 * x
      BY <1>2, <1>8, <2>1
    <2> QED BY <2>l, <2>2
  <1>10. ASSUME NEW j \in DOMAIN Append(u, b), NEW k \in DOMAIN q
         PROVE  /\ h + j = 2 * k - 1 => Append(u, b)[j] = Part("size", q[k])
                /\ h + j = 2 * k => Append(u, b)[j] = Part("data", q[k])
    <2>1. CASE j \in 1 .. Len(u)
      <3>1. j \in DOMAIN u /\ Append(u, b)[j] = u[j]
        BY <1>7, <2>1
      <3> QED BY <1>5, <1>h, <1>p, <3>1, SMTT(30) DEF Holds
    <2>2. CASE j = Len(u) + 1
      <3>1. k \in Nat /\ h + j = 2 * n - Len(part) + 1
        BY <1>7, <1>8, <2>2
      <3>2. CASE Len(part) = 2 /\ b = Part("size", q[n])
        <4>1. h + j = 2 * n - 1
          BY <1>2, <3>1, <3>2
        <4>2. (h + j = 2 * k - 1 => k = n) /\ h + j # 2 * k
          BY <1>2, <3>1, <4>1, SMTT(30)
        <4> QED BY <1>7, <2>2, <3>2, <4>2
      <3>3. CASE Len(part) = 1 /\ b = Part("data", q[n])
        <4>1. h + j = 2 * n
          BY <1>2, <3>1, <3>3
        <4>2. (h + j = 2 * k => k = n) /\ h + j # 2 * k - 1
          BY <1>2, <3>1, <4>1, SMTT(30)
        <4> QED BY <1>7, <2>2, <3>3, <4>2
      <3> QED BY <1>3, <3>2, <3>3
    <2> QED BY <1>7, <2>1, <2>2
  <1>11. Holds(p)'
    BY <1>1, <1>5, <1>9, <1>10, <1>h DEF Holds
  <1>12. HasRead(p)' + Len(socket'[p].unread) = Put(e)'
    BY <1>1, <1>4, <1>7, <1>8, <1>h, <1>2
  <1> QED BY <1>11, <1>12

\* The end that is written to.
LEMMA ReaderAfter ==
  ASSUME IInv, NEW e \in Ends, WritePart(e), NEW p, p = Peer[e]
  PROVE  EndOK(p)'
PROOF
  <1>1. /\ TypeOK /\ TypeOK' /\ StrandsOK /\ StrandsOK' /\ plain' = plain /\ conn' = conn
        /\ reader' = reader /\ sent' = sent /\ received' = received /\ notified' = notified
        /\ strand' = strand /\ socket[e].open /\ socket'[p].writing = socket[p].writing
    BY WritePartChanges
  <1>2. p \in Ends /\ Peer[p] = e
    BY <1>1, Typed
  <1>3. /\ KeptOps(p, {"send", "written"}) /\ KeptOps(p, {"start", "body", "deliver"})
        /\ socket'[p].open = socket[p].open /\ socket'[p].reading = socket[p].reading
        /\ socket'[e].open
    BY <1>1, <1>2, WritePartChanges
  <1>4. CASE p \in plain
    <2>1. PlainOK(p)
      BY <1>2, <1>4 DEF IInv, EndOK
    <2>2. PlainOK(p)'
      BY <1>1, <1>3, <2>1 DEF PlainOK, Writes
    <2> QED BY <1>1, <1>4, <2>2 DEF EndOK
  <1>5. CASE p \notin plain
    <2>1. ConnectionOK(p)
      BY <1>2, <1>5 DEF IInv, EndOK
    <2>2. ReaderUntouched(p) /\ WriterUntouched(p)
      BY <1>1, <1>3 DEF ReaderUntouched, WriterUntouched
    <2>3. Closing(p)'
      BY <1>1, <1>3, <2>1 DEF ConnectionOK, Closing
    <2>4. WriterOK(p)'
      BY <1>2, <2>1, <2>2, WriterKept DEF ConnectionOK
    <2>5. ReaderOK(p)'
      BY <1>1, <1>2, <2>1, <2>2, ReaderKept DEF ConnectionOK
    <2>6. Extends(sent[Peer[p]], sent'[Peer[p]])
      BY <1>1, <1>2, Typed DEF Extends
    <2>7. /\ N(p, "deliver")' = N(p, "deliver") /\ N(p, "body")' = N(p, "body")
          /\ W(p, "deliver")' = W(p, "deliver") /\ W(p, "body")' = W(p, "body")
          /\ Of(p)' = Of(p)
      BY <1>1 DEF N, W, Of
    <2>8. ChainUntouched(p)
      BY <1>1, <1>3, <2>7 DEF ChainUntouched, NoneNew, NoneSucceeds
    <2>9. Chain(p)'
      BY <1>1, <1>2, <2>1, <2>6, <2>8, ChainKept DEF ConnectionOK
    <2>10. HasRead(p)' = HasRead(p) /\ (Failed(p)' <=> Failed(p))
      BY <1>1, <1>3, <2>7 DEF HasRead, Handed, Failed
    <2>11. Wire(p)'
      <3>1. SUFFICES ASSUME socket[p].open, ~Failed(p)
                     PROVE  Holds(p)' /\ HasRead(p)' + Len(socket'[p].unread) = Put(e)'
        BY <1>2, <1>3, <2>10 DEF Wire
      <3>2. Holds(p) /\ HasRead(p) + Len(socket[p].unread) = Put(e)
        BY <1>1, <1>2, <2>1, <3>1 DEF ConnectionOK, Wire
      <3> QED BY <2>10, <3>1, <3>2, HoldsNext
    <2> QED BY <1>1, <1>5, <2>3, <2>4, <2>5, <2>9, <2>11 DEF EndOK, ConnectionOK
  <1> QED BY <1>4, <1>5

LEMMA WritePartStep ==
  ASSUME IInv, NEW e \in Ends, WritePart(e)
  PROVE  IInv'
PROOF
  <1>1. /\ TypeOK /\ TypeOK' /\ Posts' /\ plain' = plain
        /\ \A x \in Ends : x # e /\ x # Peer[e] => Untouched(x)
    BY WritePartChanges
  <1>2. EndOK(e)' /\ EndOK(Peer[e])'
    BY WriterAfter, ReaderAfter
  <1>3. ASSUME NEW x \in Ends, x # e, x # Peer[e]
        PROVE  EndOK(x)'
    <2>1. Peer[x] \in Ends /\ Peer[x] # e /\ Peer[x] # Peer[e]
      BY <1>1, <1>3, Typed
    <2>2. SenderKept(Peer[x])
      BY <1>1, <2>1, UntouchedSender
    <2> QED BY <1>1, <1>3, <2>2, OthersKept DEF IInv
  <1>4. \A x \in Ends : EndOK(x)'
    BY <1>2, <1>3
  <1> QED BY <1>1, <1>4 DEF IInv

-----------------------------------------------------------------------------
(* The invariant, and what follows from it.                                *)

LEMMA InitIInv ==
  ASSUME Init
  PROVE  IInv
PROOF
  <1>1. /\ plain \subseteq PlainEnds
        /\ \A e \in Ends :
             /\ conn[e] = [started |-> FALSE, closer |-> "nobody", sendQueue |-> <<>>,
                           size |-> 0, data |-> Nothing]
             /\ socket[e] = [open |-> TRUE, reading |-> "none", writing |-> <<>>, unread |-> <<>>]
             /\ reader[e] = "none" /\ sent[e] = <<>> /\ received[e] = <<>> /\ notified[e] = 0
             /\ Of(e) = <<>>
    BY DEF Init, Of, Strands
  <1>2. TypeOK
    <2>1. /\ conn \in [Ends -> Conns] /\ socket \in [Ends -> Sockets]
      <3>1. [started |-> FALSE, closer |-> "nobody", sendQueue |-> <<>>,
             size |-> 0, data |-> Nothing] \in Conns
        BY DEF Conns
      <3>2. [open |-> TRUE, reading |-> "none", writing |-> <<>>, unread |-> <<>>] \in Sockets
        BY DEF Sockets
      <3> QED BY <3>1, <3>2 DEF Init
    <2>2. StrandsOK
      BY DEF Init, StrandsOK
    <2>3. /\ reader \in [Ends -> {"none", "ok", "error"}] /\ calls \in [Ends -> Nat]
          /\ sent \in [Ends -> Seq(Messages)] /\ received \in [Ends -> Seq(Received)]
          /\ notified \in [Ends -> Nat]
      BY DEF Init
    <2> QED BY <1>1, <2>1, <2>2, <2>3, Types DEF Shape
  <1>3. Posts
    BY DEF Init, Posts
  <1>4. ASSUME NEW e \in Ends
        PROVE  EndOK(e)
    <2>1. \A op : W(e, op) = {} /\ N(e, op) = 0
      <3>1. \A op : W(e, op) = {}
        BY <1>1 DEF W, Where
      <3> QED BY <3>1, FS_EmptySet DEF N
    <2>2. PlainOK(e)
      BY <1>1 DEF PlainOK, Writes
    <2>3. Closing(e)
      BY <1>1 DEF Closing
    <2>4. WriterOK(e)
      <3>1. Base(e) = 0
        BY <1>1, <2>1 DEF Base
      <3>2. Queued(e) /\ Writes(e, Base(e) + 1)
        BY <1>1, <2>1, <3>1 DEF Queued, Writes
      <3> QED BY <1>1, <2>1, <3>2 DEF WriterOK
    <2>5. ReaderOK(e)
      <3>1. Links(e) = 0
        BY <1>1, <2>1 DEF Links
      <3> QED BY <1>1, <2>1, <3>1 DEF ReaderOK
    <2>6. Chain(e)
      BY <1>1, <2>1 DEF Chain
    <2>7. Wire(e)
      <3>1. Peer[e] \in Ends
        BY EndsAssumption
      <3>2. Put(Peer[e]) = 0
        <4>1. \A op : N(Peer[e], op) = 0
          <5>1. \A op : W(Peer[e], op) = {}
            BY <1>1, <3>1 DEF W, Where
          <5> QED BY <5>1, FS_EmptySet DEF N
        <4> QED BY <1>1, <3>1, <4>1 DEF Put, Base
      <3>3. HasRead(e) = 0
        BY <1>1, <2>1 DEF HasRead, Handed
      <3>4. Holds(e)
        BY <1>1, <3>1, <3>3 DEF Holds, SentTo
      <3> QED BY <1>1, <3>2, <3>3, <3>4 DEF Wire
    <2> QED BY <2>2, <2>3, <2>4, <2>5, <2>6, <2>7 DEF EndOK, ConnectionOK
  <1> QED BY <1>2, <1>3, <1>4 DEF IInv

LEMMA NextIInv ==
  ASSUME IInv, [Next]_vars
  PROVE  IInv'
PROOF
  <1>1. CASE UNCHANGED vars
    <2>1. /\ TypeOK /\ Posts /\ plain' = plain /\ conn' = conn /\ socket' = socket
          /\ strand' = strand /\ reader' = reader /\ calls' = calls /\ sent' = sent
          /\ received' = received /\ notified' = notified
      BY <1>1 DEF IInv, vars
    <2>2. TypeOK' /\ Posts'
      BY <2>1 DEF TypeOK, Posts
    <2>3. \A x \in Ends : Untouched(x)
      <3>1. \A x \in Ends : KeptOps(x, Ops)
        BY <2>1, SameKeeps DEF Of, TypeOK, StrandsOK
      <3> QED BY <2>1, <3>1 DEF Untouched
    <2>4. ASSUME NEW x \in Ends
          PROVE  EndOK(x)'
      <3>1. Peer[x] \in Ends
        BY EndsAssumption
      <3>2. SenderKept(Peer[x])
        BY <2>1, <2>3, <3>1, UntouchedSender
      <3>3. EndOK(x)
        BY DEF IInv
      <3> QED BY <2>1, <2>2, <2>3, <3>2, <3>3, OthersKept
    <2> QED BY <2>2, <2>4 DEF IInv
  <1>2. CASE Call
    BY <1>2, StartStep, SendStep, CloseStep, PlainWriteStep, PlainReadStep, PlainCloseStep
    DEF Call
  <1>3. ASSUME NEW s \in Strands, RunHandler(s)
        PROVE  IInv'
    BY <1>3, RunStartStep, RunSendStep, RunWrittenStep, RunBodyStep, RunDeliverStep,
       StrandCloseStep, StrandHasClosedStep DEF RunHandler
  <1>4. ASSUME NEW e \in Ends, RunReader(e)
        PROVE  IInv'
    BY <1>4, ReadDataStep, ReaderCloseStep, ReaderHasClosedStep DEF RunReader
  <1>5. ASSUME NEW e \in Ends, ReadProgress(e)
        PROVE  IInv'
    BY <1>5, ReadSucceedsStep, ReadFailsStep DEF ReadProgress
  <1>6. ASSUME NEW e \in Ends, WriteProgress(e)
        PROVE  IInv'
    BY <1>6, WritePartStep, WriteCompletesStep, PlainWrittenStep DEF WriteProgress
  <1>7. ASSUME NEW e \in Ends, Reset(e)
        PROVE  IInv'
    BY <1>7, ResetStep
  <1>8. CASE Next
    BY <1>2, <1>3, <1>4, <1>5, <1>6, <1>7, <1>8, Zenon DEF Next
  <1> QED BY <1>1, <1>8

LEMMA AtATime ==
  ASSUME IInv
  PROVE  OneAtATime
PROOF
  <1>1. TypeOK
    BY DEF IInv
  <1>2. \A e \in Ends : \A op : Waiting(e, op) = W(e, op)
    BY DEF Waiting, W, Where, Of
  <1>3. ASSUME NEW e \in Ends \ plain
        PROVE  WriterOK(e) /\ ReaderOK(e)
    BY DEF IInv, EndOK, ConnectionOK
  <1>4. OneWriteAtATime
    BY <1>2, <1>3 DEF OneWriteAtATime, WriterOK, N
  <1>5. OneReadAtATime
    BY <1>2, <1>3 DEF OneReadAtATime, ReaderOK, Links, N
  <1> QED BY <1>1, <1>4, <1>5 DEF OneAtATime

\* Whatever the two ends, the strands they share and the threads of the io_service do, a
\* connection has at most one asynchronous write and one asynchronous read, or handler of
\* one, at a time: Send and DoSend begin a write, and Start, ReadSize and ReadData the next
\* read, only where none is under way.
THEOREM OneOperationAtATime ==
  Spec => []OneAtATime
PROOF
  <1>1. Init => IInv
    BY InitIInv
  <1>2. IInv /\ [Next]_vars => IInv'
    BY NextIInv
  <1>3. IInv => OneAtATime
    BY AtATime
  <1> QED BY <1>1, <1>2, <1>3, PTL DEF Spec

-----------------------------------------------------------------------------
(* The refinement.                                                         *)

\* A step that the users of the connection do not see.
Quiet ==
  /\ \A x \in Ends : socket'[x].open = socket[x].open
  /\ sent' = sent /\ received' = received /\ notified' = notified

LEMMA QuietStutters ==
  ASSUME Quiet
  PROVE  UNCHANGED Stream!vars
PROOF
  <1>1. [e \in Ends |-> socket[e].open]' = [e \in Ends |-> socket[e].open]
    BY DEF Quiet
  <1> QED BY <1>1 DEF Quiet, Stream!vars

\* The socket of one end is changed, or none is.
LEMMA OpenKept ==
  ASSUME TypeOK, NEW e \in Ends, NEW k, k.open = socket[e].open,
         socket' = [socket EXCEPT ![e] = k] \/ socket' = socket
  PROVE  \A x \in Ends : socket'[x].open = socket[x].open
PROOF
  BY Types DEF Shape

LEMMA SocketRecord ==
  ASSUME NEW s \in Sockets
  PROVE  /\ \A r : [s EXCEPT !.reading = r].open = s.open
         /\ \A w : [s EXCEPT !.writing = w].open = s.open
         /\ \A u : [s EXCEPT !.unread = u].open = s.open
         /\ \A r, u : [s EXCEPT !.reading = r, !.unread = u].open = s.open
         /\ \A q : DoSend(s, q).open = s.open
         /\ ~SocketClosed(s).open
PROOF
  BY DEF Sockets, DoSend, SocketClosed

LEMMA SocketsTyped ==
  ASSUME TypeOK, NEW e \in Ends
  PROVE  socket[e] \in Sockets /\ socket \in [Ends -> Sockets]
PROOF
  BY Types DEF Shape

\* A step that changes one socket, if any, and leaves it open or closed as it was.
LEMMA QuietSocket ==
  ASSUME TypeOK, NEW e \in Ends, sent' = sent, received' = received, notified' = notified,
         \/ socket' = socket
         \/ \E r : socket' = [socket EXCEPT ![e].reading = r]
         \/ \E w : socket' = [socket EXCEPT ![e].writing = w]
         \/ \E u : socket' = [socket EXCEPT ![e].unread = u]
         \/ \E q : socket' = [socket EXCEPT ![e] = DoSend(@, q)]
  PROVE  Quiet
PROOF
  <1>1. socket[e] \in Sockets /\ socket \in [Ends -> Sockets]
    BY SocketsTyped
  <1>2. ASSUME NEW k, k.open = socket[e].open, socket' = [socket EXCEPT ![e] = k]
        PROVE  Quiet
    BY <1>2, OpenKept DEF Quiet
  <1>3. CASE socket' = socket
    BY <1>3 DEF Quiet
  <1>4. ASSUME NEW r, socket' = [socket EXCEPT ![e].reading = r]
        PROVE  Quiet
    BY <1>1, <1>2, <1>4, SocketRecord
  <1>5. ASSUME NEW w, socket' = [socket EXCEPT ![e].writing = w]
        PROVE  Quiet
    BY <1>1, <1>2, <1>5, SocketRecord
  <1>6. ASSUME NEW u, socket' = [socket EXCEPT ![e].unread = u]
        PROVE  Quiet
    BY <1>1, <1>2, <1>6, SocketRecord
  <1>7. ASSUME NEW q, socket' = [socket EXCEPT ![e] = DoSend(@, q)]
        PROVE  Quiet
    BY <1>1, <1>2, <1>7, SocketRecord
  <1> QED BY <1>3, <1>4, <1>5, <1>6, <1>7

LEMMA QuietCalls ==
  ASSUME IInv, NEW e \in Ends,
         (\E b \in BOOLEAN : Start(e, b)) \/ Close(e) \/ PlainRead(e)
  PROVE  Quiet
PROOF
  <1>1. TypeOK
    BY DEF IInv
  <1>2. sent' = sent /\ received' = received /\ notified' = notified
    BY DEF Start, Close, PlainRead, history
  <1>3. CASE \E b \in BOOLEAN : Start(e, b)
    <2>1. socket' = socket \/ \E r : socket' = [socket EXCEPT ![e].reading = r]
      BY <1>3 DEF Start
    <2> QED BY <1>1, <1>2, <2>1, QuietSocket
  <1>4. CASE Close(e)
    BY <1>1, <1>2, <1>4, QuietSocket DEF Close
  <1>5. CASE PlainRead(e)
    <2>1. \E u : socket' = [socket EXCEPT ![e].unread = u]
      BY <1>5 DEF PlainRead
    <2> QED BY <1>1, <1>2, <2>1, QuietSocket
  <1> QED BY <1>3, <1>4, <1>5

LEMMA QuietHandlers ==
  ASSUME IInv, NEW s \in Strands,
         RunStart(s) \/ RunSend(s) \/ RunWritten(s) \/ RunBody(s)
  PROVE  Quiet
PROOF
  <1>e. PICK e : e = Head(strand[s]).end
    BY ZenonT(60)
  <1>1. /\ sent' = sent /\ received' = received /\ notified' = notified /\ plain' = plain
        /\ \E op : AtFront(s, op)
    BY DEF RunStart, RunSend, RunWritten, RunBody, history
  <1>2. TypeOK /\ e \in Ends
    <2>1. PICK op : AtFront(s, op)
      BY <1>1
    <2> QED BY <1>1, <1>e, <2>1, InFront
  <1>3. CASE RunStart(s) \/ RunBody(s)
    <2>1. \E r : socket' = [socket EXCEPT ![e].reading = r]
      BY <1>e, <1>3 DEF RunStart, RunBody
    <2> QED BY <1>1, <1>2, <2>1, QuietSocket
  <1>4. CASE RunSend(s)
    <2>1. socket' = socket \/ \E q : socket' = [socket EXCEPT ![e] = DoSend(@, q)]
      BY <1>e, <1>4 DEF RunSend
    <2> QED BY <1>1, <1>2, <2>1, QuietSocket
  <1>5. CASE RunWritten(s)
    <2>1. socket' = socket \/ \E q : socket' = [socket EXCEPT ![e] = DoSend(@, q)]
      BY <1>e, <1>5 DEF RunWritten
    <2> QED BY <1>1, <1>2, <2>1, QuietSocket
  <1> QED BY <1>3, <1>4, <1>5

LEMMA QuietSockets ==
  ASSUME IInv, NEW e \in Ends,
         ReadData(e) \/ ReadProgress(e) \/ WriteProgress(e) \/ Reset(e)
  PROVE  Quiet
PROOF
  <1>1. TypeOK
    BY ZenonT(60) DEF IInv
  <1>2. sent' = sent /\ received' = received /\ notified' = notified
    BY DEF ReadData, ReadProgress, ReadSucceeds, ReadFails, WriteProgress, WritePart,
           WriteCompletes, PlainWritten, Reset, history
  <1>3. CASE ReadData(e) \/ ReadFails(e)
    <2>1. \E r : socket' = [socket EXCEPT ![e].reading = r]
      BY <1>3 DEF ReadData, ReadFails
    <2> QED BY <1>1, <1>2, <2>1, QuietSocket
  <1>4. CASE ReadSucceeds(e)
    <2> DEFINE k == [socket[e] EXCEPT !.reading = "none", !.unread = Tail(socket[e].unread)]
    <2>1. socket[e] \in Sockets /\ socket \in [Ends -> Sockets]
      BY <1>1, SocketsTyped
    <2>2. socket' = [socket EXCEPT ![e] = k]
      BY <1>4, <2>1 DEF ReadSucceeds
    <2>3. k.open = socket[e].open
      BY <2>1 DEF Sockets
    <2> HIDE DEF k
    <2> QED BY <1>1, <1>2, <2>2, <2>3, OpenKept DEF Quiet
  <1>5. CASE WritePart(e)
    BY <1>2, <1>5, WritePartChanges DEF Quiet
  <1>6. CASE (\E ok \in BOOLEAN : WriteCompletes(e, ok)) \/ PlainWritten(e)
    <2>1. \E w : socket' = [socket EXCEPT ![e].writing = w]
      BY <1>6 DEF WriteCompletes, PlainWritten
    <2> QED BY <1>1, <1>2, <2>1, QuietSocket
  <1>7. CASE Reset(e)
    <2>1. \E u : socket' = [socket EXCEPT ![e].unread = u]
      BY <1>7 DEF Reset
    <2> QED BY <1>1, <1>2, <2>1, QuietSocket
  <1> QED BY <1>3, <1>4, <1>5, <1>6, <1>7 DEF ReadProgress, WriteProgress

\* The steps that the users see: a message is sent,
LEMMA StreamSends ==
  ASSUME IInv, NEW e \in Ends, PlainWrite(e) \/ Send(e)
  PROVE  Quiet \/ \E m \in Messages : Stream!Send(e, m)
PROOF
  <1>m. PICK m : m = NextOut(e)
    OBVIOUS
  <1>1. TypeOK /\ m \in Messages
    BY <1>m, NextOutOK DEF IInv, PlainWrite, Send
  <1>2. received' = received /\ notified' = notified
    BY DEF PlainWrite, Send
  <1>3. ASSUME \A x \in Ends : socket'[x].open = socket[x].open,
               socket[e].open, sent' = [sent EXCEPT ![e] = Append(@, m)]
        PROVE  Stream!Send(e, m)
    <2>1. [x \in Ends |-> socket[x].open]' = [x \in Ends |-> socket[x].open]
      BY <1>3
    <2> QED BY <1>2, <1>3, <2>1 DEF Stream!Send
  <1>4. CASE PlainWrite(e)
    <2>1. \A x \in Ends : socket'[x].open = socket[x].open
      <3>1. PICK k : k = [socket[e] EXCEPT !.writing = <<Frame(m)>>]
        OBVIOUS
      <3>2. socket[e] \in Sockets /\ socket \in [Ends -> Sockets]
        BY <1>1, SocketsTyped
      <3>3. k.open = socket[e].open
        BY <3>1, <3>2, SocketRecord
      <3>4. socket' = [socket EXCEPT ![e] = k]
        BY <1>m, <1>4, <3>1, <3>2 DEF PlainWrite
      <3> QED BY <1>1, <3>3, <3>4, OpenKept
    <2>2. socket[e].open /\ sent' = [sent EXCEPT ![e] = Append(@, m)]
      BY <1>m, <1>4 DEF PlainWrite
    <2>3. Stream!Send(e, m)
      BY <1>3, <2>1, <2>2
    <2> QED BY <1>1, <2>3
  <1>5. CASE Send(e)
    <2>1. /\ socket' = socket
          /\ sent' # sent => socket[e].open /\ sent' = [sent EXCEPT ![e] = Append(@, m)]
      BY <1>m, <1>5 DEF Send
    <2>2. CASE sent' = sent
      BY <1>2, <2>1, <2>2 DEF Quiet
    <2>3. CASE sent' # sent
      <3>1. Stream!Send(e, m)
        BY <1>3, <2>1, <2>3
      <3> QED BY <1>1, <3>1
    <2> QED BY <2>2, <2>3
  <1> QED BY <1>4, <1>5

\* a socket is closed,
LEMMA StreamCloses ==
  ASSUME TypeOK, NEW e \in Ends, socket[e].open, NEW k, ~k.open, k.open \in BOOLEAN,
         socket' = [socket EXCEPT ![e] = k],
         sent' = sent, received' = received, notified' = notified
  PROVE  Stream!Close(e)
PROOF
  <1>1. socket \in [Ends -> Sockets]
    BY SocketsTyped
  <1>2. [x \in Ends |-> socket[x].open]' = [[x \in Ends |-> socket[x].open] EXCEPT ![e] = FALSE]
    BY <1>1
  <1> QED BY <1>2 DEF Stream!Close

LEMMA ConnectionCloses ==
  ASSUME IInv, NEW e \in Ends, e \notin plain, NEW who, BeginClose(e, who),
         sent' = sent, received' = received, notified' = notified
  PROVE  Stream!Close(e)
PROOF
  <1>1. TypeOK /\ Closing(e)
    BY DEF IInv, EndOK, ConnectionOK
  <1>2. PICK k : k = SocketClosed(socket[e])
    OBVIOUS
  <1>3. socket[e] \in Sockets /\ k \in Sockets /\ ~k.open
    BY <1>1, <1>2, SocketsTyped, SocketFields, SocketRecord
  <1>4. socket' = [socket EXCEPT ![e] = k] /\ socket[e].open
    BY <1>1, <1>2 DEF BeginClose, Closing
  <1> QED BY <1>1, <1>3, <1>4, StreamCloses DEF Sockets

LEMMA PlainCloses ==
  ASSUME IInv, NEW e \in Ends, PlainClose(e)
  PROVE  Stream!Close(e)
PROOF
  <1>1. TypeOK /\ socket[e].open
    BY DEF IInv, PlainClose
  <1>2. PICK c : c = SocketClosed(socket[e])
    OBVIOUS
  <1>3. c \in Sockets /\ ~c.open
    BY <1>1, <1>2, SocketsTyped, SocketFields, SocketRecord
  <1>4. PICK k : k = [c EXCEPT !.writing = <<>>]
    OBVIOUS
  <1>5. k.open = c.open
    BY <1>3, <1>4, SocketRecord
  <1>6. socket' = [socket EXCEPT ![e] = k] /\ sent' = sent /\ received' = received /\ notified' = notified
    BY <1>2, <1>4 DEF PlainClose, history
  <1> QED BY <1>1, <1>3, <1>5, <1>6, StreamCloses DEF Sockets

\* its close is reported,
LEMMA StreamNotifies ==
  ASSUME IInv, NEW e \in Ends, e \notin plain, NEW who \in {"strand", "reader"},
         EndClose(e, who), socket' = socket, sent' = sent, received' = received
  PROVE  Quiet \/ Stream!Notify(e)
PROOF
  <1>1. TypeOK /\ Closing(e) /\ ~socket[e].open
    BY ClosedEnd DEF IInv, EndOK, ConnectionOK, EndClose
  <1>2. CASE conn[e].closer = who /\ conn[e].started
    <2>1. notified[e] = 0 /\ notified' = [notified EXCEPT ![e] = @ + 1]
      BY <1>1, <1>2 DEF EndClose, Closing
    <2>2. notified' = [notified EXCEPT ![e] = 1]
      BY <2>1
    <2>3. [x \in Ends |-> socket[x].open]' = [x \in Ends |-> socket[x].open]
      OBVIOUS
    <2> QED BY <1>1, <2>1, <2>2, <2>3 DEF Stream!Notify
  <1>3. CASE ~(conn[e].closer = who /\ conn[e].started)
    BY <1>3 DEF EndClose, Quiet
  <1> QED BY <1>2, <1>3

\* or a message is received, which is the next that the peer has sent.
LEMMA StreamReceives ==
  ASSUME IInv, NEW s \in Strands, RunDeliver(s)
  PROVE  \E e \in Ends : Stream!Receive(e)
PROOF
  <1>e. PICK e : e = Head(strand[s]).end
    OBVIOUS
  <1>m. PICK m : m = Head(strand[s]).message
    OBVIOUS
  <1>1. /\ AtFront(s, "deliver") /\ plain' = plain
        /\ socket' = socket /\ sent' = sent /\ notified' = notified
        /\ received' = [received EXCEPT ![e] = Append(@, m)]
    BY <1>e, <1>m DEF RunDeliver, Delivered
  <1>2. /\ e \in Ends /\ 1 \in W(e, "deliver") /\ ConnectionOK(e) /\ Of(e)[1] = Head(strand[s])
    BY <1>1, <1>e, InFront
  <1>3. Comes(e, Len(received[e]) + 1) /\ m = SentTo(e)[Len(received[e]) + 1]
    BY <1>2, <1>m DEF ConnectionOK, Chain
  <1>4. [x \in Ends |-> socket[x].open]' = [x \in Ends |-> socket[x].open]
    BY <1>1
  <1>5. Stream!Receive(e)
    BY <1>1, <1>3, <1>4 DEF Stream!Receive, Comes, SentTo
  <1> QED BY <1>2, <1>5

LEMMA StreamSteps ==
  ASSUME IInv, [Next]_vars
  PROVE  [Stream!Next]_(Stream!vars)
PROOF
  <1>1. CASE UNCHANGED vars
    <2>1. Quiet
      BY <1>1 DEF vars, Quiet
    <2> QED BY <2>1, QuietStutters
  <1>2. ASSUME Quiet PROVE [Stream!Next]_(Stream!vars)
    BY <1>2, QuietStutters
  <1>3. ASSUME NEW e \in Ends,
               \/ \E m \in Messages : Stream!Send(e, m)
               \/ Stream!Receive(e) \/ Stream!Close(e) \/ Stream!Notify(e)
        PROVE  [Stream!Next]_(Stream!vars)
    BY <1>3 DEF Stream!Next
  <1>4. CASE Call
    BY <1>2, <1>3, <1>4, QuietCalls, StreamSends, PlainCloses DEF Call
  <1>5. ASSUME NEW s \in Strands, RunHandler(s)
        PROVE  [Stream!Next]_(Stream!vars)
    <2>1. ASSUME StrandCloses(s) \/ StrandHasClosed(s)
          PROVE  Quiet \/ \E e \in Ends : Stream!Close(e) \/ Stream!Notify(e)
      <3>e. PICK e : e = Head(strand[s]).end
        OBVIOUS
      <3>1. (\E op : AtFront(s, op)) /\ plain' = plain
        BY <2>1 DEF StrandCloses, StrandHasClosed, ClosingFront
      <3>2. e \in Ends /\ e \notin plain
        BY <3>1, <3>e, InFront
      <3>3. CASE StrandCloses(s)
        BY <3>2, <3>3, <3>e, ConnectionCloses DEF StrandCloses, history
      <3>4. CASE StrandHasClosed(s)
        BY <3>2, <3>4, <3>e, StreamNotifies DEF StrandHasClosed
      <3> QED BY <2>1, <3>3, <3>4
    <2> QED BY <1>2, <1>3, <1>5, <2>1, QuietHandlers, StreamReceives DEF RunHandler
  <1>6. ASSUME NEW e \in Ends, RunReader(e)
        PROVE  [Stream!Next]_(Stream!vars)
    <2>1. CASE ReadData(e)
      BY <1>2, <2>1, QuietSockets
    <2>2. ASSUME ReaderCloses(e) \/ ReaderHasClosed(e)
          PROVE  e \notin plain
      BY <2>2 DEF IInv, EndOK, PlainOK, ReaderCloses, ReaderHasClosed, ReaderFails
    <2>3. CASE ReaderCloses(e)
      BY <1>3, <2>2, <2>3, ConnectionCloses DEF ReaderCloses, history
    <2>4. CASE ReaderHasClosed(e)
      BY <1>2, <1>3, <2>2, <2>4, StreamNotifies DEF ReaderHasClosed
    <2> QED BY <1>6, <2>1, <2>3, <2>4 DEF RunReader
  <1>7. ASSUME NEW e \in Ends, ReadProgress(e) \/ WriteProgress(e) \/ Reset(e)
        PROVE  [Stream!Next]_(Stream!vars)
    BY <1>2, <1>7, QuietSockets
  <1>8. CASE Next
    BY <1>4, <1>5, <1>6, <1>7, <1>8, Zenon DEF Next
  <1> QED BY <1>1, <1>8

LEMMA StreamStarts ==
  ASSUME Init
  PROVE  Stream!Init
PROOF
  BY DEF Init, Stream!Init

\* Whatever the two ends, their strands and the network between them do, each connection
\* hands over to on_message_received_ whole messages, the ones its peer sent before its
\* socket was closed, in order, each once and none left out, and it reports its own close
\* through on_connection_closed_ at most once, after the socket was closed.
THEOREM ImplementsStream ==
  Spec => MessagesStream
PROOF
  <1>1. Init => IInv
    BY InitIInv
  <1>2. IInv /\ [Next]_vars => IInv'
    BY NextIInv
  <1>3. Init => Stream!Init
    BY StreamStarts
  <1>4. IInv /\ [Next]_vars => [Stream!Next]_(Stream!vars)
    BY StreamSteps
  <1> QED BY <1>1, <1>2, <1>3, <1>4, PTL DEF Spec, MessagesStream, Stream!Spec
=============================================================================

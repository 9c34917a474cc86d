---------------------------- MODULE MessageStream ----------------------------
(***************************************************************************)
(* What the users of two connected ends may rely on: each receives, whole, *)
(* in order and once, some of the messages that the other sent before its  *)
(* socket was closed, leaving out none before the last; and each hears of  *)
(* its own close at most once.                                             *)
(***************************************************************************)
EXTENDS Integers, Sequences

CONSTANTS
  Ends,
  Peer,
  Messages,
  MaxMessageSize

VARIABLES
  open,     \* open[e]: e's socket has not been closed
  sent,     \* by each end, while it was open
  received, \* by each end
  notified  \* how often each end was told that its socket is closed

vars == <<open, sent, received, notified>>

Init ==
  /\ open = [e \in Ends |-> TRUE]
  /\ sent = [e \in Ends |-> <<>>]
  /\ received = [e \in Ends |-> <<>>]
  /\ notified = [e \in Ends |-> 0]

Send(e, m) ==
  /\ open[e]
  /\ sent' = [sent EXCEPT ![e] = Append(@, m)]
  /\ UNCHANGED <<open, received, notified>>

Receive(e) ==
  LET n == Len(received[e]) + 1
  IN /\ n \in DOMAIN sent[Peer[e]]
     /\ sent[Peer[e]][n].size <= MaxMessageSize
     /\ received' = [received EXCEPT ![e] = Append(@, sent[Peer[e]][n])]
     /\ UNCHANGED <<open, sent, notified>>

Close(e) ==
  /\ open[e]
  /\ open' = [open EXCEPT ![e] = FALSE]
  /\ UNCHANGED <<sent, received, notified>>

Notify(e) ==
  /\ ~open[e] /\ notified[e] = 0
  /\ notified' = [notified EXCEPT ![e] = 1]
  /\ UNCHANGED <<open, sent, received>>

Next ==
  \/ \E e \in Ends, m \in Messages : Send(e, m)
  \/ \E e \in Ends : Receive(e) \/ Close(e) \/ Notify(e)

Spec == Init /\ [][Next]_vars
=============================================================================

--------------------------- MODULE BufferContract ---------------------------
(***************************************************************************)
(* What a client of DataBuffer may rely on, with no memory, no disk and no *)
(* worker: one value per key, which appears only while a Store of that key *)
(* and value is in progress, and disappears only once a Delete of the key  *)
(* has been called, the pop functor has been given it, that Store has      *)
(* failed, or the buffer has stopped running.                              *)
(***************************************************************************)
CONSTANTS Keys, Values, NoValue

VARIABLES
  held,      \* held[k]: the value a Get of k would find
  offered,   \* <<key, value>> pairs of the Store calls in progress
  condemned, \* keys a Delete has been called for
  popped,    \* keys handed to the pop functor
  running    \* has the buffer not stopped?

vars == <<held, offered, condemned, popped, running>>

Init ==
  /\ held = [k \in Keys |-> NoValue]
  /\ offered = {} /\ condemned = {} /\ popped = {}
  /\ running = TRUE

\* A call begins, or ends without effect.
CallOrReturn ==
  /\ offered \subseteq offered' \/ offered' \subseteq offered
  /\ condemned \subseteq condemned'
  /\ UNCHANGED <<held, popped, running>>

\* A store takes effect; its call may end in the same step.
Accept(k, v) ==
  /\ <<k, v>> \in offered
  /\ held[k] = NoValue
  /\ held' = [held EXCEPT ![k] = v]
  /\ offered' \subseteq offered
  /\ UNCHANGED <<condemned, popped, running>>

\* The call that offers a value fails, and takes it back.
Retract(k, v) ==
  /\ <<k, v>> \in offered
  /\ held' = [held EXCEPT ![k] = NoValue]
  /\ offered' \subseteq offered \ {<<k, v>>}
  /\ UNCHANGED <<condemned, popped, running>>

Lose(k) ==
  /\ k \in condemned \cup popped \/ ~running
  /\ held' = [held EXCEPT ![k] = NoValue]
  /\ offered' \subseteq offered
  /\ UNCHANGED <<condemned, popped, running>>

\* The popped value may linger in memory, where Get still finds it.
Pop(k) ==
  /\ held[k] # NoValue
  /\ popped' = popped \cup {k}
  /\ held' \in {held, [held EXCEPT ![k] = NoValue]}
  /\ UNCHANGED <<offered, condemned, running>>

\* The buffer stops, and the store that stopped it ends.
Stop ==
  /\ running' = FALSE
  /\ \A k \in Keys : held'[k] \in {held[k], NoValue}
  /\ offered' \subseteq offered
  /\ UNCHANGED <<condemned, popped>>

Next ==
  \/ CallOrReturn
  \/ \E k \in Keys, v \in Values : Accept(k, v) \/ Retract(k, v)
  \/ \E k \in Keys : Lose(k) \/ Pop(k)
  \/ Stop

Spec == Init /\ [][Next]_vars
=============================================================================

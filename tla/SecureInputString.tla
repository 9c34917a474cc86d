-------------------------- MODULE SecureInputString --------------------------
(***************************************************************************)
(* maidsafe::authentication::detail::SecureInputString and SecureString    *)
(* (authentication/detail/secure_string.h, .cc): text typed piece by piece *)
(* at positions, each piece encrypted on its own, then finalised into one  *)
(* encrypted string; editing a finalised one takes it apart again.         *)
(* Encryption is abstracted: what is written is what is read.              *)
(***************************************************************************)
EXTENDS Integers, FiniteSets, FiniteSetsExt, Sequences

Ext == INSTANCE SequencesExt

CONSTANTS
  Texts,        \* what a caller may insert at one position
  Sizes,        \* the sizes that satisfy the Predicate
  Good,         \* the characters a regex accepts
  MaxPosition   \* bound: positions a caller uses

\* chars: encrypted_chars_, from positions to pieces; written: what secure_string_'s
\* encryptor has been given since it was made; finalised; thrown: by the last call.
VARIABLE input

Nothing == [p \in {} |-> <<>>]

Init == input = [chars |-> Nothing, written |-> <<>>, finalised |-> FALSE, thrown |-> FALSE]

\* The pieces at and behind a position, in order; and pieces put one behind the other.
PiecesFrom(chars, p) ==
  LET positions == {q \in DOMAIN chars : q >= p}
  IN [i \in 1..Cardinality(positions) |-> chars[Ext!SetToSortSeq(positions, <)[i]]]
Placed(chars, p, pieces) ==
  LET kept == {q \in DOMAIN chars : q < p}
  IN [q \in kept \cup p..(p + Len(pieces) - 1) |-> IF q \in kept THEN chars[q] ELSE pieces[q - p + 1]]

\* A finalised string is taken apart, one position for each character.
Reset(s) ==
  IF ~s.finalised THEN s
  ELSE [s EXCEPT !.chars = [p \in 0..(Len(s.written) - 1) |-> <<s.written[p + 1]>>],
                 !.written = <<>>, !.finalised = FALSE]

\* Faulty: a piece goes over the one that is there.
Overwritten(chars, p, text) == [q \in DOMAIN chars \cup {p} |-> IF q = p THEN text ELSE chars[q]]
\* A free position is filled; at one that is taken, it and all behind it move up, closing gaps.
Inserted(chars, p, text) ==
  IF p \notin DOMAIN chars THEN Overwritten(chars, p, text)
  ELSE Placed(chars, p, <<text>> \o PiecesFrom(chars, p))

Insert(p, text) ==
  /\ Max(DOMAIN Reset(input).chars \cup {0}) < MaxPosition
  /\ LET s == Reset(input)
     IN input' = [s EXCEPT !.chars = Inserted(@, p, text), !.thrown = FALSE]

\* What there is to remove goes even if it is less than asked for.
Remove(p, length) ==
  LET s == Reset(input)
      behind == PiecesFrom(s.chars, p)
  IN input' = IF p \notin DOMAIN s.chars \/ length = 0 THEN [s EXCEPT !.thrown = TRUE]
              ELSE [s EXCEPT !.thrown = length > Len(behind),
                             !.chars = Placed(@, p, SubSeq(behind, length + 1, Len(behind)))]

Clear == input' = [input EXCEPT !.chars = Nothing, !.written = <<>>, !.finalised = FALSE, !.thrown = FALSE]

\* The pieces are read in order up to the first gap, which ends the call.
AtAGap(s, read) == [s EXCEPT !.written = <<>>, !.thrown = TRUE]
Finalise ==
  LET pieces == PiecesFrom(input.chars, 0)
      read == {i \in 1..Len(pieces) : 0..(i - 1) \subseteq DOMAIN input.chars}
      next == [input EXCEPT !.thrown = FALSE]
  IN input' = CASE input.finalised -> next
                [] ~input.finalised /\ Len(pieces) \notin Sizes -> [next EXCEPT !.thrown = TRUE]
                [] ~input.finalised /\ Len(pieces) \in Sizes ->
                     IF read # 1..Len(pieces) THEN AtAGap(next, SubSeq(pieces, 1, Cardinality(read)))
                     ELSE [next EXCEPT !.written = @ \o Ext!FlattenSeq(pieces),
                                       !.chars = Nothing, !.finalised = TRUE]

\* A piece passes if the regex is found anywhere in it (regex_search).
IsValid(s) ==
  LET pieces == IF s.finalised THEN [i \in 1..Len(s.written) |-> <<s.written[i]>>] ELSE PiecesFrom(s.chars, 0)
  IN /\ Len(pieces) \in Sizes
     /\ s.finalised \/ DOMAIN s.chars = 0..(Len(pieces) - 1)
     /\ \A i \in 1..Len(pieces) : \E j \in 1..Len(pieces[i]) : pieces[i][j] \in Good

Next ==
  \/ \E p \in 0..MaxPosition, text \in Texts : Insert(p, text)
  \/ \E p \in 0..MaxPosition, length \in 0..2 : Remove(p, length)
  \/ Clear
  \/ Finalise

Spec == Init /\ [][Next]_input

-----------------------------------------------------------------------------
Text(s) == IF s.finalised THEN s.written ELSE Ext!FlattenSeq(PiecesFrom(s.chars, 0))

\* Finalising gives exactly the text typed, whatever was inserted, removed, finalised or
\* refused for a gap before it; and if each piece is one character, the finalised string
\* is valid just when the pieces were (Finalise, IsValid).
FinalisedIsTheText ==
  ~input.finalised /\ input'.finalised =>
    /\ Text(input') = Text(input)
    /\ (\A p \in DOMAIN input.chars : Len(input.chars[p]) = 1) => IsValid(input') = IsValid(input)

\* A call edits the text in the place it was asked to, and there only: Insert puts its piece
\* behind the text at lower positions and before all the rest, Remove takes the pieces from
\* its position on, as many as were asked for or as there are, and Finalise takes nothing;
\* also when there are gaps, when a finalised string is taken apart for the edit and when
\* the call throws (Insert, Remove, Clear, Finalise).
EditedWhereAsked ==
  LET pieces == IF input.finalised THEN [i \in 1..Len(input.written) |-> <<input.written[i]>>]
                ELSE PiecesFrom(input.chars, 0)
      taken == IF input.finalised THEN 0..(Len(input.written) - 1) ELSE DOMAIN input.chars
      Before(p) == Cardinality({q \in taken : q < p})
      FromTo(first, last) == Ext!FlattenSeq(SubSeq(pieces, first, last))
      new == Text(input')
  IN \A p \in 0..MaxPosition :
       /\ \A text \in Texts : Insert(p, text) =>
            new = FromTo(1, Before(p)) \o text \o FromTo(Before(p) + 1, Len(pieces))
       /\ \A length \in 0..2 : Remove(p, length) =>
            IF p \in taken
            THEN new = FromTo(1, Before(p)) \o FromTo(Before(p) + length + 1, Len(pieces))
            ELSE input'.thrown /\ new = Text(input)
       /\ Finalise => new = Text(input)
       /\ Clear => new = <<>>

\* No call changes the text but in the one place it was asked to.
EditsKeepTheText == FinalisedIsTheText /\ EditedWhereAsked
=============================================================================

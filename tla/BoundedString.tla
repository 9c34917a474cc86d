---------------------------- MODULE BoundedString ----------------------------
(***************************************************************************)
(* maidsafe::detail::BoundedString (bounded_string.h): strings of one type *)
(* or another, each type with its bounds, built, copied, converted, moved, *)
(* saved and loaded.  Release builds: without debug_string_.               *)
(***************************************************************************)
EXTENDS Integers, Sequences, SequencesExt

CONSTANTS
  Strings,
  minOf, maxOf, \* the bounds of each object's type
  MaxString   \* bound: size of a string

ASSUME BoundsAssumption == \A o \in Strings : minOf[o] \in Nat /\ maxOf[o] \in Nat

StringContents == BoundedSeq({0, 1}, MaxString)

\* strings: string_ and valid_ of each object; archive: what save wrote last; error: what the
\* last call threw.
VARIABLE bounded

OutwithBounds(o, string) == Len(string) < minOf[o] \/ Len(string) > maxOf[o]

BoundedInit ==
  bounded = [strings |-> [o \in Strings |-> [string |-> <<>>, valid |-> ~OutwithBounds(o, <<>>)]],
             archive |-> <<>>, error |-> "none"]

StringOf(o) == bounded.strings[o].string
ValidString(o) == bounded.strings[o].valid
SetString(o, string, valid) == [bounded EXCEPT !.strings[o] = [string |-> string, valid |-> valid],
                                               !.error = "none"]
StringThrows(error) == bounded' = [bounded EXCEPT !.error = error]

DefaultString(o) == bounded' = SetString(o, <<>>, ~OutwithBounds(o, <<>>))

\* A new one from a plain string, assigned to o if it is not refused.
FromString(o, string) ==
  IF OutwithBounds(o, string) THEN StringThrows("outside_of_bounds")
  ELSE bounded' = SetString(o, string, TRUE)

SameBounds(o, p) == minOf[o] = minOf[p] /\ maxOf[o] = maxOf[p]
CopyString(o, p) ==
  o # p /\ SameBounds(o, p) /\ bounded' = SetString(o, StringOf(p), ValidString(p))

\* Moving empties the string of p; valid_ of p stays as it is.
MoveString(o, p) ==
  /\ o # p /\ SameBounds(o, p)
  /\ bounded' = [SetString(o, StringOf(p), ValidString(p)) EXCEPT !.strings[p].string = <<>>]

\* From a type whose bounds are within those of o (static_assert).
ConvertString(o, p) ==
  /\ ~SameBounds(o, p) /\ minOf[o] <= minOf[p] /\ maxOf[o] >= maxOf[p]
  /\ bounded' = SetString(o, StringOf(p), ValidString(p))

SaveString(o) ==
  IF ValidString(o) THEN bounded' = [bounded EXCEPT !.archive = StringOf(o), !.error = "none"]
  ELSE StringThrows("uninitialised")

LoadString(o) ==
  IF OutwithBounds(o, bounded.archive) THEN StringThrows("parsing_error")
  ELSE bounded' = SetString(o, bounded.archive, TRUE)

\* operator[], for a position the string has.
SetAt(o, pos, value) ==
  IF ~ValidString(o) THEN StringThrows("uninitialised")
  ELSE pos <= Len(StringOf(o)) /\ bounded' = SetString(o, [StringOf(o) EXCEPT ![pos] = value], TRUE)

\* Of two of one fixed size, neither emptied by a move.
XorOf(p, q) == [i \in 1..minOf[p] |-> (StringOf(p)[i] + StringOf(q)[i]) % 2]
XorStrings(o, p, q) ==
  /\ SameBounds(o, p) /\ SameBounds(p, q) /\ minOf[o] = maxOf[o]
  /\ IF ~ValidString(p) \/ ~ValidString(q) THEN StringThrows("uninitialised")
     ELSE /\ \A r \in {p, q} : ~OutwithBounds(r, StringOf(r))
          /\ bounded' = SetString(o, XorOf(p, q), TRUE)

BoundedNext ==
  \E o, p, q \in Strings :
    \/ DefaultString(o) \/ CopyString(o, p) \/ MoveString(o, p) \/ ConvertString(o, p)
    \/ \E string \in StringContents : FromString(o, string)
    \/ SaveString(o) \/ LoadString(o)
    \/ \E value \in {0, 1}, pos \in 1..MaxString : SetAt(o, pos, value)
    \/ XorStrings(o, p, q)

BoundedSpec == BoundedInit /\ [][BoundedNext]_bounded

Equal(o, p) == IF ValidString(o) /\ ValidString(p) THEN StringOf(o) = StringOf(p)
               ELSE ValidString(o) = ValidString(p)

\* Lexicographical, as operator< of std::vector and std::string.
Before(s, t) ==
  \/ IsStrictPrefix(s, t)
  \/ \E i \in DOMAIN s \cap DOMAIN t : s[i] < t[i] /\ \A j \in 1..(i - 1) : s[j] = t[j]

\* Faulty: one that is not initialised is below every one.
LessIfUninitialised(o, p) ==
  IF ValidString(o) THEN ValidString(p) /\ Before(StringOf(o), StringOf(p)) ELSE TRUE
Less(o, p) ==
  IF ValidString(o) THEN ValidString(p) /\ Before(StringOf(o), StringOf(p))
  ELSE ValidString(p)
Greater(o, p) == Less(p, o)

-----------------------------------------------------------------------------
\* Whatever was thrown, converted or loaded on the way, a string that says it is initialised
\* is within its bounds, or was emptied by a move (constructors, assignments, load).
InitialisedIsWithinBounds ==
  \A o \in Strings : ValidString(o) => ~OutwithBounds(o, StringOf(o)) \/ StringOf(o) = <<>>

\* The comparisons order all strings of a type, those not initialised and those emptied
\* by a move among them, so that any of them is a key (operator==, operator<).
OrderedAsAKey ==
  \A o, p \in Strings :
    /\ <<Less(o, p), Equal(o, p), Greater(o, p)>> \in
         {<<TRUE, FALSE, FALSE>>, <<FALSE, TRUE, FALSE>>, <<FALSE, FALSE, TRUE>>}
    /\ \A q \in Strings : Less(o, p) /\ Less(p, q) => Less(o, q)

\* Any of them, however it came about, can be the key of a map.
StringsAreKeys == InitialisedIsWithinBounds /\ OrderedAsAKey
=============================================================================

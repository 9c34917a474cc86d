-------------------------------- MODULE Errors --------------------------------
(***************************************************************************)
(* maidsafe_error and its categories (error.h, error.cc,                   *)
(* error_categories.cc): an error is sent to another process as one int,   *)
(* which any process may have written, and becomes an error again there.   *)
(***************************************************************************)
EXTENDS Integers, Sequences

CONSTANT Ints  \* what may arrive that no ErrorToInt here has written

ASSUME IntsAssumption == Ints \subseteq Int

kMultiple == 100000

Categories == <<"Common", "Asymm", "Passport", "Encrypt", "Routing", "Nfs", "Drive", "Vault",
                "VaultManager", "Api">>
LastCode == <<28, 12, 1, 10, 4, 2, 6, 12, 9, 1>> \* the last value of each enumeration
CodesOf(c) == (IF Categories[c] = "Common" THEN 0 ELSE 1)..LastCode[c]

MakeError(c, value) == <<Categories[c], value>>
System == <<"system", 0>> \* of a maidsafe_error made without a code

Thrown == <<"thrown", 0>>
Nothing == <<"none", 0>>

\* made: an error; wire: what travels; got: what came of it at the other end.
VARIABLE error

ErrorInit ==
  \/ error = [made |-> System, wire |-> <<>>, got |-> Nothing]
  \/ \E c \in DOMAIN Categories : \E value \in CodesOf(c) :
       error = [made |-> MakeError(c, value), wire |-> <<>>, got |-> Nothing]

Number(category) == CHOOSE c \in DOMAIN Categories : Categories[c] = category
ErrorToInt(code) == -(Number(code[1]) * kMultiple) - code[2]

\* C++ division truncates: a negative number has a negative remainder.
Remainder(n) == IF n >= 0 THEN n % kMultiple ELSE -((-n) % kMultiple)

\* Faulty: the remainder of what arrived.
Unnegated(n) == <<(0 - n) - Remainder(n), Remainder(n)>>
Split(n) == <<(0 - n) - Remainder(0 - n), Remainder(0 - n)>>
IntToError(n) ==
  LET parts == Split(n)
  IN IF \E c \in DOMAIN Categories : parts[1] = c * kMultiple
     THEN MakeError(parts[1] \div kMultiple, parts[2]) ELSE Thrown

\* A code of another category cannot be saved.
SaveError ==
  /\ error.wire = <<>> /\ error.got = Nothing
  /\ error' = IF error.made = System THEN [error EXCEPT !.got = Thrown]
              ELSE [error EXCEPT !.wire = <<ErrorToInt(error.made)>>]

Arrive(n) == /\ error.wire = <<>> /\ error.got = Nothing
             /\ error' = [error EXCEPT !.made = Nothing, !.wire = <<n>>]

LoadError ==
  /\ error.wire # <<>> /\ error.got = Nothing
  /\ error' = [error EXCEPT !.got = IntToError(error.wire[1])]

ErrorNext == SaveError \/ LoadError \/ \E n \in Ints : Arrive(n)

ErrorSpec == ErrorInit /\ [][ErrorNext]_error

-----------------------------------------------------------------------------
\* Every error of every category arrives as the same one, and whatever int arrives is
\* refused or read as the one error that is written as this int (ErrorToInt, IntToError).
ErrorsTravel ==
  error.got # Nothing =>
    /\ error.made \notin {Nothing, System} => error.got = error.made
    /\ error.got # Thrown => ErrorToInt(error.got) = error.wire[1]
=============================================================================

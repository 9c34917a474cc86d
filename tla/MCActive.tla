------------------------------ MODULE MCActive -------------------------------
(***************************************************************************)
(* Two clients that send two functors each, two of which send more.        *)
(***************************************************************************)
EXTENDS ActiveProperties

CONSTANTS c1, c2, f1, f2, g1, g2, h1, h2, h3

MCClients == {c1, c2}
MCFunctors == {f1, f2, g1, g2, h1, h2, h3}
MCScript == [c \in MCClients |-> IF c = c1 THEN <<f1, f2>> ELSE <<g1, g2>>]
MCBody == [f \in MCFunctors |->
  CASE f = f1 -> <<h1, h2>>
    [] f = g2 -> <<h3>>
    [] OTHER -> <<>>]
=============================================================================

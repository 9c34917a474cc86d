------------------------------ MODULE Identity -------------------------------
(***************************************************************************)
(* maidsafe::Identity (identity.cc): addresses, here strings of Bits bits, *)
(* compared by the XOR metric.  The code keeps 512 bits in 64 bytes and    *)
(* finds the first byte, then the first bit, in which two of them differ.  *)
(***************************************************************************)
EXTENDS Integers

CONSTANT Bits \* the length of an address: 8 * identity_size

FirstDifference(a, b) == CHOOSE i \in 1..Bits : a[i] # b[i] /\ \A j \in 1..(i - 1) : a[j] = b[j]

CommonLeadingBits(a, b) == IF a = b THEN Bits ELSE FirstDifference(a, b) - 1

\* Where the distances to the target first differ, the smaller one has no bit set.
CloserToTarget(a, b, target) ==
  a # b /\ LET i == FirstDifference(a, b) IN a[i] = target[i]
=============================================================================

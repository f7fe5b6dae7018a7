------------------------------ MODULE Orderings ------------------------------
(***************************************************************************)
(* core::cmp::Ordering, which every comparison of the crate returns.        *)
(***************************************************************************)
EXTENDS Integers

Orders == {"Less", "Equal", "Greater"}

\* Ord::cmp of integers.
Cmp(x, y) == CASE x < y -> "Less" [] x = y -> "Equal" [] x > y -> "Greater"

\* Ordering::reverse; what is not decided stays so.
Reversed(order) ==
  CASE order = "Less"    -> "Greater"
    [] order = "Greater" -> "Less"
    [] OTHER             -> order
==============================================================================

----------------------------- MODULE MCOrderLaws -----------------------------
(***************************************************************************)
(* The laws on strings without white space (where they hold) and with it    *)
(* (where they do not).                                                     *)
(***************************************************************************)
EXTENDS OrderLaws

Over(bytes, n) == UNION {[1 .. m -> bytes] : m \in 0 .. n}

\* Leading zeros, equal and unequal runs, a letter inside and after a run.
WsFreeStrings ==
  Over({48, 49, 97}, 3) \union Over({48, 49}, 4) \union Over({45, 48, 50, 97}, 2)

SpacedStrings == Over({48, 49, 97, 32}, 3)

TrailingSpace == Over({97, 32, 9}, 3)
==============================================================================

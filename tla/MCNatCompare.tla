----------------------------- MODULE MCNatCompare -----------------------------
(***************************************************************************)
(* One call of compare_impl on every pair of short strings.  The alphabet   *)
(* has a zero and two other digits, a letter (above the digits), a          *)
(* punctuation mark (below them) and two kinds of white space.              *)
(***************************************************************************)
EXTENDS NaturalOrder


CONSTANT MaxLen    \* strings over Core have up to MaxLen bytes

Core == {48, 49, 97, 32}

Alphabet == Core \union {50}

Rich == Alphabet \union {45, 9}

Over(bytes, n) == UNION {[1 .. m -> bytes] : m \in 0 .. n}

MCStrings ==
  Over(Rich, MaxLen - 2) \union Over(Alphabet, MaxLen - 1)
    \union Over(Core, MaxLen) \union Over({48, 49}, MaxLen + 1)
==============================================================================

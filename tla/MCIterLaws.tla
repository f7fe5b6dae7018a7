------------------------------ MODULE MCIterLaws ------------------------------
(***************************************************************************)
(* compare and compare_iter on every pair of short strings, with the        *)
(* callbacks of the tests: white space is skipped, characters are ordered   *)
(* by their code, and digits are decimal.                                   *)
(***************************************************************************)
EXTENDS IterLaws

CONSTANT MaxLen    \* strings over Core have up to MaxLen characters

MCItems == {32, 45, 48, 49, 50, 97}

\* char::is_whitespace, Ord::cmp and char::to_digit(10) on these, where char::is_whitespace
\* and is_ascii_ws of compare say the same.
MCSkip(x) == x = 32

MCCmpItems(x, y) == Cmp(x, y)

MCToDigit(x) == IF x \in 48 .. 57 THEN x - 48 ELSE NotDigit

Core == {32, 48, 49, 97}

Over(items, n) == UNION {[1 .. m -> items] : m \in 0 .. n}

MCStreams ==
  Over(MCItems, MaxLen - 1) \union Over(Core, MaxLen) \union Over({48, 49}, MaxLen + 1)

Alphanumeric == Over({48, 49, 97}, MaxLen)
==============================================================================

----------------------------- MODULE NaturalOrder -----------------------------
(***************************************************************************)
(* The order the crate is named for, defined on the meaning of a string and *)
(* not on how it is scanned: the string is read as numbers and single       *)
(* characters, numbers compare by value, and the first difference decides.  *)
(* It is the reference NatCompare is checked against.                       *)
(***************************************************************************)
EXTENDS NatCompare

\* A token is its first byte and, for a number, its value.
Token(c) == [first |-> c, value |-> IF IsDigit(c) THEN c - Zero ELSE 0]

\* The last token read is a number, which another digit would make longer.
InNumber(tokens) == tokens # <<>> /\ IsDigit(tokens[Len(tokens)].first)

Longer(token, c) == [token EXCEPT !.value = 10 * @ + (c - Zero)]

\* What is read once the byte c has been read too; white space means nothing.
ReadByte(tokens, c) ==
  CASE IsWs(c) -> tokens
    [] ~ IsWs(c) /\ IsDigit(c) /\ InNumber(tokens) ->
         [tokens EXCEPT ![Len(tokens)] = Longer(@, c)]
    [] ~ IsWs(c) /\ ~ (IsDigit(c) /\ InNumber(tokens)) -> Append(tokens, Token(c))

\* The tokens of the first n bytes of s, for every n.
Reading(s) ==
  LET read[n \in 0 .. Len(s)] == IF n = 0 THEN <<>> ELSE ReadByte(read[n - 1], s[n])
  IN  read

Tokens(s) == Reading(s)[Len(s)]

CmpTokens(u, v) ==
  IF IsDigit(u.first) /\ IsDigit(v.first)
  THEN Cmp(u.value, v.value)
  ELSE Cmp(u.first, v.first)

\* The first token that differs decides; a proper prefix is Less.
CmpTokenLists(u, v) ==
  LET n == Smaller(Len(u), Len(v))
      k == EqualBytes(u, 0, v, 0, n)
  IN  IF k = n THEN Cmp(Len(u), Len(v)) ELSE CmpTokens(At(u, k), At(v, k))

NaturalCmp(s, t) == CmpTokenLists(Tokens(s), Tokens(t))

\* Strings whose numbers have no superfluous zeros and whose white space neither
\* follows a digit nor ends the string.
Plain(s) ==
  /\ \A k \in 1 .. Len(s) - 1 :
       /\ IsWs(s[k + 1]) => ~ IsDigit(s[k])
       /\ s[k] = Zero /\ IsDigit(s[k + 1]) => k > 1 /\ IsDigit(s[k - 1])
  /\ s # <<>> => ~ IsWs(s[Len(s)])

\* On plain strings the result is the natural order, white space left out: the
\* scan agrees with comparing numbers by value, wherever the common prefix ends.
NaturalOnPlain ==
  res # "Undecided" /\ Plain(a) /\ Plain(b) => res = NaturalCmp(a, b)
==============================================================================

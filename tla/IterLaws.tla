------------------------------- MODULE IterLaws -------------------------------
(***************************************************************************)
(* What compare_iter should answer: the order of the meanings of the two    *)
(* streams, and the answer of compare on the same text, which               *)
(* prop_compare_iter_matches_compare in src/tests/proptests.rs asks for.    *)
(* Here the items are bytes; compare is called first, compare_iter second.  *)
(***************************************************************************)
EXTENDS IterMirror

CONSTANT ShortRun    \* of compare

ASSUME ShortRunAssumption == ShortRun \in Nat

VARIABLES da, db, dpc, dres    \* the call of compare

directVars == <<da, db, dpc, dres>>

Direct == INSTANCE NaturalOrder
  WITH Strings <- Streams, a <- left, b <- right,
       pa <- da, pb <- db, pc <- dpc, res <- dres

PairInit == Init /\ Direct!Init

DirectStep == Direct!Step /\ UNCHANGED <<nl, nr, pc, lastcmp, res>>

IterStep == dpc = "done" /\ Step /\ UNCHANGED directVars

PairIdle == dpc = "done" /\ Idle /\ UNCHANGED directVars

PairNext == DirectStep \/ IterStep \/ PairIdle

pairVars == <<vars, directVars>>

\* The one thread goes on, and the iterators answer.
PairSpec == PairInit /\ [][PairNext]_pairVars /\ WF_pairVars(DirectStep \/ IterStep)

(***************************************************************************)
(* The meaning of a stream: a sequence of tokens, each a run of digits or   *)
(* one other item.  A skipped item is no token, but ends a run.             *)
(***************************************************************************)
IsDigitItem(x) == ToDigit(x) # NotDigit

\* What is read of a stream: the tokens, and whether the last one is a run that another
\* digit would make longer.
Nothing == [tokens |-> <<>>, open |-> FALSE]

Prolonged(tokens, x) == [tokens EXCEPT ![Len(tokens)] = Append(@, x)]

ReadItem(read, x) ==
  CASE read.open /\ IsDigitItem(x) ->
         [tokens |-> Prolonged(read.tokens, x), open |-> TRUE]
    [] ~ (read.open /\ IsDigitItem(x)) /\ Skip(x) ->
         [tokens |-> read.tokens, open |-> FALSE]
    [] ~ (read.open /\ IsDigitItem(x)) /\ ~ Skip(x) ->
         [tokens |-> Append(read.tokens, <<x>>), open |-> IsDigitItem(x)]

\* What is read of s once n items are, for every n.
Reading(s) ==
  LET read[n \in 0 .. Len(s)] == IF n = 0 THEN Nothing ELSE ReadItem(read[n - 1], s[n])
  IN  read

Tokens(s) == Reading(s)[Len(s)].tokens

\* The value of the first n digits of a run, for every n.
Values(run) ==
  LET value[n \in 0 .. Len(run)] ==
        IF n = 0 THEN 0 ELSE 10 * value[n - 1] + ToDigit(run[n])
  IN  value

Value(run) == Values(run)[Len(run)]

\* Runs without leading zeros are numbers.  Of a run with one, the digits count as
\* those of a fraction do, and the longer of two equal fractions is Greater.
CmpFractions(u, v) ==
  LET n == Smaller(Len(u), Len(v))
      k == FirstStop(0, n, {i \in 0 .. n - 1 : ToDigit(At(u, i)) # ToDigit(At(v, i))})
  IN  IF k = n THEN Cmp(Len(u), Len(v)) ELSE Cmp(ToDigit(At(u, k)), ToDigit(At(v, k)))

CmpTokens(u, v) ==
  IF IsDigitItem(u[1]) /\ IsDigitItem(v[1])
  THEN IF ToDigit(u[1]) = 0 \/ ToDigit(v[1]) = 0
       THEN CmpFractions(u, v)
       ELSE Cmp(Value(u), Value(v))
  ELSE CmpItems(u[1], v[1])

\* The first token that differs decides; a proper prefix is Less.
TokenCmp(u, v) ==
  LET n == Smaller(Len(u), Len(v))
      k == FirstStop(0, n, {i \in 0 .. n - 1 : CmpTokens(At(u, i), At(v, i)) # "Equal"})
  IN  IF k = n THEN Cmp(Len(u), Len(v)) ELSE CmpTokens(At(u, k), At(v, k))

(***************************************************************************)
(* Properties.                                                              *)
(***************************************************************************)

\* The answer is the order of the meanings: reading both streams in step loses no
\* item and compares no two items of different tokens.
IterIsNatural == pc = "done" => res = TokenCmp(Tokens(left), Tokens(right))

BothReturned == pc = "done" /\ dpc = "done"

\* On text without superfluous zeros, and with white space neither after a digit nor
\* at the end, the two implementations of the natural order agree.
AgreeOnPlain ==
  BothReturned /\ Direct!Plain(left) /\ Direct!Plain(right) => res = dres

\* What the comment of prop_compare_iter_matches_compare says: "Without whitespace
\* the two agree."
AgreeWithoutSpace ==
  BothReturned /\ Direct!WsFree(left) /\ Direct!WsFree(right) => res = dres
==============================================================================

------------------------------ MODULE OrderLaws ------------------------------
(***************************************************************************)
(* A caller that needs `compare` to be a total order, as slice::sort_by     *)
(* does: it compares x with y, y with x, y with some z, and x with z, one   *)
(* call of NatCompare after the other, and remembers the four answers.      *)
(* The laws it relies on are those of check_total_order in                  *)
(* src/tests/proptests.rs.                                                  *)
(***************************************************************************)
EXTENDS NatCompare

VARIABLES
  words,     \* x, y and, from the third call on, z
  answers    \* the results of the finished calls

lawVars == <<vars, words, answers>>

\* Which two words each call compares.
Calls == << <<1, 2>>, <<2, 1>>, <<2, 3>>, <<1, 3>> >>

LawInit ==
  /\ Init
  /\ words = <<a, b>>
  /\ answers = <<>>

\* The call under way makes a step.
CallStep == Next /\ UNCHANGED <<words, answers>>

Ask(n) ==
  /\ a' = words'[Calls[n][1]]
  /\ b' = words'[Calls[n][2]]
  /\ pa' = 0 /\ pb' = 0
  /\ pc' = "new"
  /\ res' = "Undecided"

Answered == pc = "done" /\ answers' = Append(answers, res)

AskSecond ==
  /\ Len(answers) = 0
  /\ Answered
  /\ words' = words
  /\ Ask(2)

\* The third word is any string; x and y are taken in their order.
AskThird ==
  /\ Len(answers) = 1
  /\ Answered
  /\ answers[1] # "Greater"
  /\ \E z \in Strings : words' = Append(words, z)
  /\ Ask(3)

AskFourth ==
  /\ Len(answers) = 2
  /\ Answered
  /\ words' = words
  /\ Ask(4)

Finish ==
  /\ Len(answers) = 3
  /\ Answered
  /\ UNCHANGED <<vars, words>>

LawNext == CallStep \/ AskSecond \/ AskThird \/ AskFourth \/ Finish

LawSpec == LawInit /\ [][LawNext]_lawVars

(***************************************************************************)
(* What decides between two strings without white space: the first byte at  *)
(* which they differ, and the run of digits it stands in.  No loop is       *)
(* needed to say so, nor a prefix skip, a rewind or two ways to compare     *)
(* runs.                                                                    *)
(***************************************************************************)
\* The end of a string is below every byte.
ByteAt(s, k) == IF k < Len(s) THEN At(s, k) ELSE -1

FirstDifference(s, t, k) ==
  /\ k \in 0 .. Len(s) /\ k \in 0 .. Len(t)
  /\ \A i \in 0 .. k - 1 : ByteAt(s, i) = ByteAt(t, i)
  /\ ByteAt(s, k) # ByteAt(t, k)

\* A digit stands before k.
Inside(s, k) == k > 0 /\ IsDigit(At(s, k - 1))

\* The shorter run is below, then the smaller digit.
BelowByLength(s, t, k) ==
  \/ DigitEnd(s, k) < DigitEnd(t, k)
  \/ DigitEnd(s, k) = DigitEnd(t, k) /\ ByteAt(s, k) < ByteAt(t, k)

\* Directly behind one leading zero the digits are those of a fraction.
BelowInFraction(s, t, k) ==
  \/ ~ DigitAt(s, k) /\ DigitAt(t, k)
  \/ (DigitAt(s, k) <=> DigitAt(t, k)) /\ ByteAt(s, k) < ByteAt(t, k)

TwoNumbers(s, t, k) ==
  DigitAt(s, k) /\ DigitAt(t, k) /\ ByteAt(s, k) # Zero /\ ByteAt(t, k) # Zero

Below(s, t, k) ==
  CASE Inside(s, k) /\ LeadingZero(s, k - 1)       -> BelowInFraction(s, t, k)
    [] Inside(s, k) /\ ~ LeadingZero(s, k - 1)     -> BelowByLength(s, t, k)
    [] ~ Inside(s, k) /\ TwoNumbers(s, t, k)       -> BelowByLength(s, t, k)
    [] ~ Inside(s, k) /\ ~ TwoNumbers(s, t, k)     -> ByteAt(s, k) < ByteAt(t, k)

Ordered(s, t) == \E k \in 0 .. Len(s) : FirstDifference(s, t, k) /\ Below(s, t, k)

\* The Ordering that Ordered gives for s and t.
Says(s, t, order) ==
  \/ order = "Less" /\ Ordered(s, t)
  \/ order = "Greater" /\ Ordered(t, s)
  \/ order = "Equal" /\ s = t

\* Without white space the loop comes down to this: the digits are compared as numbers
\* up to the first difference, and as those of a fraction behind one leading zero.
FirstDifferenceDecides == pc = "done" /\ WsFree(a) /\ WsFree(b) => Says(a, b, res)

(***************************************************************************)
(* The laws.                                                                *)
(***************************************************************************)
\* Swapping the arguments reverses the answer, although the code looks at the
\* two sides differently (check_digit_boundary only looks back in a).
Antisymmetric ==
  Len(answers) = 1 /\ pc = "done" => res = Reversed(answers[1])

\* Three answers never contradict each other: x < y < z gives x < z, and equal
\* words compare alike with any third.
Transitive ==
  Len(answers) = 4 =>
    /\ answers[1] = "Less" /\ answers[3] = "Less" => answers[4] = "Less"
    /\ answers[1] = "Equal" => answers[4] = answers[3]
    /\ answers[3] = "Equal" => answers[4] = answers[1]

\* The same call with its arguments, and so its answer, exchanged.
Mirror == INSTANCE NatCompare
  WITH a <- b, b <- a, pa <- pb, pb <- pa, res <- Reversed(res)

\* The reason for antisymmetry: without white space, every step of one call is a step
\* of the call with the arguments exchanged.
MirrorImage == [][WsFree(a) /\ WsFree(b) /\ Step => Mirror!Step]_vars
==============================================================================

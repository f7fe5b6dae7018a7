----------------------------- MODULE CompareIter -----------------------------
(***************************************************************************)
(* compare_iter of src/src/compare_iter.rs: the natural order of two        *)
(* streams of items, told apart by three callbacks of the caller.  One item *)
(* of each stream is held; nl and nr say how often `next` has been called,  *)
(* so that the items held are the nl-th and the nr-th, or None past the     *)
(* end.                                                                     *)
(***************************************************************************)
EXTENDS Orderings, Scanning

CONSTANTS
  Items,            \* what the iterators yield
  Streams,          \* the sequences of items that may be compared
  Skip(_),          \* the callbacks
  CmpItems(_, _),
  ToDigit(_),       \* the digit of an item, or
  NotDigit          \* None

ASSUME StreamsAssumption == Streams \subseteq Seq(Items)

\* The callbacks are functions of their arguments; cmp is an order's.
ASSUME CallbackAssumption ==
  /\ NotDigit \notin Int
  /\ \A x \in Items : Skip(x) \in BOOLEAN
  /\ \A x \in Items : ToDigit(x) = NotDigit \/ ToDigit(x) \in Int
  /\ \A x, y \in Items :
       CmpItems(x, y) \in Orders /\ CmpItems(y, x) = Reversed(CmpItems(x, y))

VARIABLES
  left, right,    \* the streams
  nl, nr,         \* how often each has been asked for an item
  pc,             \* "start", "items", "digits_left", "digits_right", "done"
  lastcmp,        \* of 'digits_right: the first difference of the two runs
  res             \* the Ordering returned

vars == <<left, right, nl, nr, pc, lastcmp, res>>

Some(s, n) == n <= Len(s)

Digit(s, n) == IF Some(s, n) THEN ToDigit(s[n]) ELSE NotDigit

dl == Digit(left, nl)
dr == Digit(right, nr)

BothDigits == dl # NotDigit /\ dr # NotDigit

Init ==
  /\ left \in Streams /\ right \in Streams
  /\ nl = 0 /\ nr = 0
  /\ pc = "start"
  /\ lastcmp = "Equal"
  /\ res = "Undecided"

\* Every item is followed by a second call of `next`.
ReadTwo(s, n) == IF n > Len(s) THEN n ELSE n + 2

\* A stream that has ended (left_done, right_done) is not asked again.
Read(s, n) == IF n > Len(s) THEN n ELSE n + 1

ReadBoth(place) ==
  /\ nl' = Read(left, nl) /\ nr' = Read(right, nr)
  /\ pc' = place
  /\ UNCHANGED <<left, right, res>>

Settle(order) ==
  /\ res' = order
  /\ pc' = "done"
  /\ UNCHANGED <<left, right, nl, nr, lastcmp>>

Start ==
  /\ pc = "start"
  /\ ReadBoth("items")
  /\ UNCHANGED lastcmp

(***************************************************************************)
(* 'nondigits.                                                              *)
(***************************************************************************)
Skippable(s, n) == Some(s, n) /\ Skip(s[n])

\* The two `while` loops that pass over items without a meaning.
Skipped(s, n) ==
  FirstStop(n, Len(s) + 1, {k \in 1 .. Len(s) : ~ Skip(s[k])})

SkipItems ==
  /\ pc = "items"
  /\ Skippable(left, nl) \/ Skippable(right, nr)
  /\ nl' = Skipped(left, nl) /\ nr' = Skipped(right, nr)
  /\ UNCHANGED <<left, right, pc, lastcmp, res>>

AtItems ==
  /\ pc = "items"
  /\ ~ Skippable(left, nl) /\ ~ Skippable(right, nr)

BothItems == AtItems /\ Some(left, nl) /\ Some(right, nr)

End ==
  /\ AtItems
  /\ ~ (Some(left, nl) /\ Some(right, nr))
  /\ Settle(IF Some(left, nl) THEN "Greater" ELSE IF Some(right, nr) THEN "Less" ELSE "Equal")

ItemsDiffer ==
  /\ BothItems /\ ~ BothDigits
  /\ CmpItems(left[nl], right[nr]) # "Equal"
  /\ Settle(CmpItems(left[nl], right[nr]))

\* The two equal items are not followed by others.
ItemsEqualStays ==
  /\ BothItems /\ ~ BothDigits
  /\ CmpItems(left[nl], right[nr]) = "Equal"
  /\ UNCHANGED vars

ItemsEqual ==
  /\ BothItems /\ ~ BothDigits
  /\ CmpItems(left[nl], right[nr]) = "Equal"
  /\ ReadBoth("items")
  /\ UNCHANGED lastcmp

\* A zero on the right only is not noticed.
LeadingZeroLeft == dl = 0

\* A run that begins with a zero makes the comparison left-aligned.
LeadingZero == dl = 0 \/ dr = 0

EnterLeft ==
  /\ BothItems /\ BothDigits /\ LeadingZero
  /\ dl = dr
  /\ ReadBoth("digits_left")
  /\ UNCHANGED lastcmp

ZeroSettles ==
  /\ BothItems /\ BothDigits /\ LeadingZero
  /\ dl # dr
  /\ Settle(Cmp(dl, dr))

EnterRight ==
  /\ BothItems /\ BothDigits /\ ~ LeadingZero
  /\ lastcmp' = Cmp(dl, dr)
  /\ ReadBoth("digits_right")

(***************************************************************************)
(* 'digits_left and 'digits_right: both loops read in step.                 *)
(***************************************************************************)
InRun == pc \in {"digits_left", "digits_right"}

\* One run goes on where the other has ended.
RunLonger ==
  /\ InRun
  /\ (dl = NotDigit) # (dr = NotDigit)
  /\ Settle(IF dr = NotDigit THEN "Greater" ELSE "Less")

DigitsEqual ==
  /\ pc = "digits_left" /\ BothDigits
  /\ dl = dr
  /\ ReadBoth("digits_left")
  /\ UNCHANGED lastcmp

DigitsDiffer ==
  /\ pc = "digits_left" /\ BothDigits
  /\ dl # dr
  /\ Settle(Cmp(dl, dr))

\* The last difference wins, not the first.
LatestCmp == Cmp(dl, dr)

FirstCmp == IF lastcmp = "Equal" THEN Cmp(dl, dr) ELSE lastcmp

DigitsRight ==
  /\ pc = "digits_right" /\ BothDigits
  /\ lastcmp' = FirstCmp
  /\ ReadBoth("digits_right")

\* The items that ended the runs are given up.
RunsEndReads ==
  /\ InRun
  /\ dl = NotDigit /\ dr = NotDigit
  /\ pc = "digits_left" \/ lastcmp = "Equal"
  /\ ReadBoth("items")
  /\ UNCHANGED lastcmp

RunsEnd ==
  /\ InRun
  /\ dl = NotDigit /\ dr = NotDigit
  /\ pc = "digits_left" \/ lastcmp = "Equal"
  /\ pc' = "items"
  /\ UNCHANGED <<left, right, nl, nr, lastcmp, res>>

RunsSettle ==
  /\ pc = "digits_right"
  /\ dl = NotDigit /\ dr = NotDigit
  /\ lastcmp # "Equal"
  /\ Settle(lastcmp)

Step ==
  \/ Start \/ SkipItems \/ End \/ ItemsDiffer \/ ItemsEqual
  \/ EnterLeft \/ ZeroSettles \/ EnterRight
  \/ RunLonger \/ DigitsEqual \/ DigitsDiffer \/ DigitsRight
  \/ RunsEnd \/ RunsSettle

Idle == pc = "done" /\ UNCHANGED vars

Next == Step \/ Idle

\* The one thread goes on, and the iterators answer.
Spec == Init /\ [][Next]_vars /\ WF_vars(Step)

(***************************************************************************)
(* Properties.                                                              *)
(***************************************************************************)

\* The range of every variable: an iterator that has said None is never asked for
\* another item, as `next` of an iterator that is not fused may then yield again.
TypeOK ==
  /\ left \in Streams /\ right \in Streams
  /\ nl \in 0 .. Len(left) + 1 /\ nr \in 0 .. Len(right) + 1
  /\ pc \in {"start", "items", "digits_left", "digits_right", "done"}
  /\ lastcmp \in Orders
  /\ res \in Orders \union {"Undecided"}

\* Every call returns an Ordering, whatever the callbacks skip.
Returns == <>(pc = "done" /\ res \in Orders)
==============================================================================

-------------------------- MODULE CompareIterProofs --------------------------
(***************************************************************************)
(* For all streams and callbacks: compare_iter asks no iterator for an item *)
(* after its end, and is antisymmetric, since each step of a call is a step *)
(* of the call with its arguments exchanged.  Where digits are decimal, its *)
(* answer is the order of what the streams mean, and with the callbacks of  *)
(* the tests that of compare on plain text.                                 *)
(***************************************************************************)
EXTENDS IterLaws, BasicLemmas

\* The positions of both streams.
LEMMA Positions ==
  ASSUME TypeOK
  PROVE  /\ left \in Seq(Items) /\ right \in Seq(Items)
         /\ Len(left) \in Nat /\ Len(right) \in Nat /\ nl \in Nat /\ nr \in Nat
         /\ nl <= Len(left) + 1 /\ nr <= Len(right) + 1
<1>1. left \in Seq(Items) /\ right \in Seq(Items)
  BY StreamsAssumption DEF TypeOK
<1>2. Len(left) \in Nat /\ Len(right) \in Nat
  BY <1>1
<1> QED
  BY <1>1, <1>2 DEF TypeOK

LEMMA ReadRange ==
  ASSUME NEW s \in Seq(Items), NEW n \in 0 .. Len(s) + 1
  PROVE  Read(s, n) \in 0 .. Len(s) + 1
<1>1. Len(s) \in Nat
  OBVIOUS
<1> QED
  BY <1>1 DEF Read

LEMMA SkippedRange ==
  ASSUME NEW s \in Seq(Items), NEW n \in 0 .. Len(s) + 1
  PROVE  Skipped(s, n) \in 0 .. Len(s) + 1
<1> DEFINE stops == {k \in 1 .. Len(s) : ~ Skip(s[k])}
<1>1. Len(s) + 1 \in Nat /\ n \in Nat /\ n <= Len(s) + 1
  OBVIOUS
<1>2. FirstStop(n, Len(s) + 1, stops) \in n .. Len(s) + 1
  <2> HIDE DEF stops
  <2> QED
    BY <1>1, FirstStopIs
<1> QED
  BY <1>1, <1>2 DEF Skipped

\* The digit of an item that is there and has one is a number.
LEMMA DigitIs ==
  ASSUME NEW s \in Seq(Items), NEW n \in Nat \ {0}
  PROVE  Digit(s, n) = NotDigit \/ Digit(s, n) \in Int
<1>1. CASE n <= Len(s)
  <2>1. s[n] \in Items
    BY <1>1
  <2> QED
    BY <1>1, <2>1, CallbackAssumption DEF Digit, Some
<1>2. CASE ~ (n <= Len(s))
  BY <1>2 DEF Digit, Some
<1> QED
  BY <1>1, <1>2

-------------------------------------------------------------------------------
(***************************************************************************)
(* The invariant: the types, and that both streams have been read from when *)
(* their items are looked at.                                               *)
(***************************************************************************)
IInv == TypeOK /\ (pc # "start" => nl > 0 /\ nr > 0)

LEMMA BothNumbers ==
  ASSUME IInv, pc # "start", BothDigits
  PROVE  dl \in Int /\ dr \in Int
<1>1. nl \in Nat \ {0} /\ nr \in Nat \ {0}
  BY Positions DEF IInv
<1> QED
  BY <1>1, Positions, DigitIs DEF IInv, BothDigits, dl, dr

LEMMA ItemsCompared ==
  ASSUME IInv, BothItems
  PROVE  /\ CmpItems(left[nl], right[nr]) \in Orders
         /\ CmpItems(right[nr], left[nl]) = Reversed(CmpItems(left[nl], right[nr]))
<1>1. nl \in 1 .. Len(left) /\ nr \in 1 .. Len(right)
  BY Positions DEF IInv, BothItems, AtItems, Some
<1>2. left[nl] \in Items /\ right[nr] \in Items
  BY <1>1, Positions DEF IInv
<1> QED
  BY <1>2, CallbackAssumption

LEMMA SettleKeeps ==
  ASSUME IInv, NEW order \in Orders, Settle(order), pc # "start"
  PROVE  IInv'
BY DEF IInv, TypeOK, Settle

LEMMA ReadBothKeeps ==
  ASSUME IInv, NEW place \in {"items", "digits_left", "digits_right"}, ReadBoth(place),
         lastcmp' \in Orders
  PROVE  IInv'
<1>1. /\ nl' = Read(left, nl) /\ nr' = Read(right, nr) /\ pc' = place
      /\ left' = left /\ right' = right /\ res' = res
  BY DEF ReadBoth
<1>2. nl' \in 0 .. Len(left) + 1 /\ nr' \in 0 .. Len(right) + 1
  BY <1>1, Positions, ReadRange DEF IInv, TypeOK
<1>3. nl' > 0 /\ nr' > 0
  BY <1>1, Positions DEF IInv, Read
<1> QED
  BY <1>1, <1>2, <1>3 DEF IInv, TypeOK

LEMMA InitInv == Init => IInv
<1> SUFFICES ASSUME Init PROVE IInv
  OBVIOUS
<1>1. left \in Seq(Items) /\ right \in Seq(Items)
  BY StreamsAssumption DEF Init
<1>2. 0 \in 0 .. Len(left) + 1 /\ 0 \in 0 .. Len(right) + 1
  BY <1>1
<1> QED
  BY <1>2 DEF Init, IInv, TypeOK, Orders

LEMMA Inductive == IInv /\ [Next]_vars => IInv'
<1> SUFFICES ASSUME IInv, [Next]_vars PROVE IInv'
  OBVIOUS
<1>1. TypeOK /\ lastcmp \in Orders
  BY DEF IInv, TypeOK
<1>2. CASE Start
  BY <1>1, <1>2, ReadBothKeeps DEF Start
<1>3. CASE SkipItems
  <2>1. /\ nl' = Skipped(left, nl) /\ nr' = Skipped(right, nr)
        /\ left' = left /\ right' = right /\ pc' = pc /\ lastcmp' = lastcmp /\ res' = res
        /\ pc = "items"
    BY <1>3 DEF SkipItems
  <2>2. nl' \in 0 .. Len(left) + 1 /\ nr' \in 0 .. Len(right) + 1
    BY <1>1, <2>1, Positions, SkippedRange DEF TypeOK
  <2>3. nl' >= nl /\ nr' >= nr
    <3>1. \A s \in Seq(Items) : \A n \in 0 .. Len(s) + 1 : Skipped(s, n) >= n
      <4> SUFFICES ASSUME NEW s \in Seq(Items), NEW n \in 0 .. Len(s) + 1
                   PROVE  Skipped(s, n) >= n
        OBVIOUS
      <4> DEFINE stops == {k \in 1 .. Len(s) : ~ Skip(s[k])}
      <4>1. Len(s) + 1 \in Nat /\ n \in Nat /\ n <= Len(s) + 1
        OBVIOUS
      <4>2. FirstStop(n, Len(s) + 1, stops) \in n .. Len(s) + 1
        <5> HIDE DEF stops
        <5> QED
          BY <4>1, FirstStopIs
      <4> QED
        BY <4>1, <4>2 DEF Skipped
    <3> QED
      BY <1>1, <2>1, <3>1, Positions DEF TypeOK
  <2> QED
    BY <1>1, <2>1, <2>2, <2>3, Positions DEF IInv, TypeOK
<1>4. CASE End
  <2>1. pc # "start" /\ (Settle("Greater") \/ Settle("Less") \/ Settle("Equal"))
    BY <1>4 DEF End, AtItems
  <2> QED
    BY <2>1, SettleKeeps DEF Orders
<1>5. CASE ItemsDiffer
  <2>1. pc # "start" /\ BothItems /\ Settle(CmpItems(left[nl], right[nr]))
    BY <1>5 DEF ItemsDiffer, BothItems, AtItems
  <2> QED
    BY <2>1, ItemsCompared, SettleKeeps
<1>6. CASE ItemsEqual \/ EnterLeft \/ DigitsEqual
  BY <1>1, <1>6, ReadBothKeeps DEF ItemsEqual, EnterLeft, DigitsEqual
<1>7. CASE ZeroSettles \/ DigitsDiffer
  <2>1. pc # "start" /\ BothDigits /\ Settle(Cmp(dl, dr))
    BY <1>7 DEF ZeroSettles, DigitsDiffer, BothItems, AtItems
  <2> QED
    BY <2>1, BothNumbers, CmpIs, SettleKeeps
<1>8. CASE EnterRight \/ DigitsRight
  <2>1. /\ pc # "start" /\ BothDigits /\ ReadBoth("digits_right")
        /\ lastcmp' = Cmp(dl, dr) \/ lastcmp' = lastcmp
    BY <1>8 DEF EnterRight, DigitsRight, BothItems, AtItems, FirstCmp
  <2>2. lastcmp' \in Orders
    BY <1>1, <2>1, BothNumbers, CmpIs
  <2> QED
    BY <2>1, <2>2, ReadBothKeeps
<1>9. CASE RunLonger
  <2>1. pc # "start" /\ (Settle("Greater") \/ Settle("Less"))
    BY <1>9 DEF RunLonger, InRun
  <2> QED
    BY <2>1, SettleKeeps DEF Orders
<1>10. CASE RunsEnd
  BY <1>10 DEF RunsEnd, InRun, IInv, TypeOK
<1>11. CASE RunsSettle
  BY <1>1, <1>11, SettleKeeps DEF RunsSettle
<1>12. CASE UNCHANGED vars
  BY <1>12 DEF vars, IInv, TypeOK
<1> QED
  BY <1>2, <1>3, <1>4, <1>5, <1>6, <1>7, <1>8, <1>9, <1>10, <1>11, <1>12
  DEF Next, Step, Idle

-------------------------------------------------------------------------------
(***************************************************************************)
(* The theorems.                                                            *)
(***************************************************************************)

\* The strengthened invariant holds of every call.
THEOREM Invariance == Spec => []IInv
<1> QED
  BY InitInv, Inductive, PTL DEF Spec

\* Type correctness: `next` of an iterator that has said None is never called again.
THEOREM TypeCorrect == Spec => []TypeOK
<1>1. IInv => TypeOK
  BY DEF IInv
<1> QED
  BY <1>1, Invariance, PTL

-------------------------------------------------------------------------------
(***************************************************************************)
(* The mirror.                                                              *)
(***************************************************************************)

\* The state predicates are their own images.
LEMMA MirrorViews ==
  /\ Mirror!dl = dr /\ Mirror!dr = dl
  /\ Mirror!BothDigits <=> BothDigits
  /\ Mirror!AtItems <=> AtItems
  /\ Mirror!BothItems <=> BothItems
  /\ Mirror!LeadingZero <=> LeadingZero
  /\ Mirror!InRun <=> InRun
BY DEF Mirror!dl, Mirror!dr, Mirror!BothDigits, Mirror!AtItems, Mirror!BothItems,
       Mirror!LeadingZero, Mirror!InRun, Mirror!Skippable, Mirror!Some, Mirror!Digit,
       dl, dr, BothDigits, AtItems, BothItems, LeadingZero, InRun, Skippable, Some, Digit

\* What does not speak of the state is the same in the mirror.
LEMMA MirrorConstants ==
  /\ \A x, y : Mirror!Cmp(x, y) = Cmp(x, y)
  /\ \A s, n : Mirror!Skipped(s, n) = Skipped(s, n)
<1>1. ASSUME NEW x, NEW y PROVE Mirror!Cmp(x, y) = Cmp(x, y)
  BY DEF Mirror!Cmp, Cmp
<1>2. ASSUME NEW s, NEW n PROVE Mirror!Skipped(s, n) = Skipped(s, n)
  BY DEF Mirror!Skipped, Skipped, Mirror!FirstStop, FirstStop, Mirror!Least, Least
<1> QED
  BY <1>1, <1>2

LEMMA MirrorSettle ==
  ASSUME NEW order, Settle(order)
  PROVE  Mirror!Settle(Reversed(order))
BY DEF Settle, Mirror!Settle

LEMMA MirrorReadBoth ==
  ASSUME NEW place, ReadBoth(place)
  PROVE  Mirror!ReadBoth(place)
BY DEF ReadBoth, Mirror!ReadBoth, Read, Mirror!Read

LEMMA MirrorInit == Init => Mirror!Init
BY ReversedIs DEF Init, Mirror!Init

LEMMA MirrorStep ==
  ASSUME IInv, Next
  PROVE  Mirror!Next
<1>1. CASE Start
  BY <1>1, MirrorReadBoth DEF Start, Mirror!Next, Mirror!Step, Mirror!Start
<1>2. CASE SkipItems
  BY <1>2, MirrorConstants
  DEF SkipItems, Skippable, Some, Mirror!Next, Mirror!Step,
      Mirror!SkipItems, Mirror!Skippable, Mirror!Some
<1>3. CASE End
  <2> DEFINE order == IF Some(left, nl) THEN "Greater"
                      ELSE IF Some(right, nr) THEN "Less" ELSE "Equal"
  <2>1. AtItems /\ ~ (Some(left, nl) /\ Some(right, nr)) /\ Settle(order)
    BY <1>3 DEF End
  <2>2. Reversed(order) = IF Some(right, nr) THEN "Greater"
                          ELSE IF Some(left, nl) THEN "Less" ELSE "Equal"
    BY <2>1, ReversedIs
  <2> HIDE DEF order
  <2>3. Mirror!Settle(IF Some(right, nr) THEN "Greater"
                      ELSE IF Some(left, nl) THEN "Less" ELSE "Equal")
    BY <2>1, <2>2, MirrorSettle
  <2> QED
    BY <2>1, <2>3, MirrorViews
    DEF Some, Mirror!Some, Mirror!End, Mirror!Step, Mirror!Next
<1>4. CASE ItemsDiffer
  <2> DEFINE order == CmpItems(left[nl], right[nr])
  <2>1. BothItems /\ ~ BothDigits /\ order # "Equal" /\ Settle(order)
    BY <1>4 DEF ItemsDiffer
  <2>2. order \in Orders /\ CmpItems(right[nr], left[nl]) = Reversed(order)
    BY <2>1, ItemsCompared
  <2> HIDE DEF order
  <2>3. Reversed(order) # "Equal" /\ Mirror!Settle(Reversed(order))
    BY <2>1, <2>2, ReversedIs, MirrorSettle
  <2> QED
    BY <2>1, <2>2, <2>3, MirrorViews DEF Mirror!ItemsDiffer, Mirror!Step, Mirror!Next
<1>5. CASE ItemsEqual
  <2>1. /\ BothItems /\ ~ BothDigits /\ ReadBoth("items") /\ UNCHANGED lastcmp
        /\ CmpItems(left[nl], right[nr]) = "Equal"
    BY <1>5 DEF ItemsEqual
  <2>2. CmpItems(right[nr], left[nl]) = "Equal"
    BY <2>1, ItemsCompared, ReversedIs
  <2> QED
    BY <2>1, <2>2, MirrorViews, MirrorReadBoth
    DEF Mirror!ItemsEqual, Mirror!Step, Mirror!Next
<1>6. CASE EnterLeft
  BY <1>6, MirrorViews, MirrorReadBoth
  DEF EnterLeft, Mirror!EnterLeft, Mirror!Step, Mirror!Next
<1>7. CASE ZeroSettles
  <2>1. BothItems /\ BothDigits /\ LeadingZero /\ dl # dr /\ Settle(Cmp(dl, dr))
    BY <1>7 DEF ZeroSettles
  <2>2. Mirror!Settle(Cmp(dr, dl))
    BY <2>1, MirrorSettle, BothNumbers, CmpReversed DEF BothItems, AtItems
  <2> QED
    BY <2>1, <2>2, MirrorViews, MirrorConstants DEF Mirror!ZeroSettles, Mirror!Step, Mirror!Next
<1>8. CASE EnterRight
  <2>1. /\ BothItems /\ BothDigits /\ ~ LeadingZero
        /\ lastcmp' = Cmp(dl, dr) /\ ReadBoth("digits_right")
    BY <1>8 DEF EnterRight
  <2>2. Reversed(lastcmp') = Cmp(dr, dl)
    BY <2>1, BothNumbers, CmpReversed DEF BothItems, AtItems
  <2> QED
    BY <2>1, <2>2, MirrorViews, MirrorConstants, MirrorReadBoth
    DEF Mirror!EnterRight, Mirror!Step, Mirror!Next
<1>9. CASE RunLonger
  <2>1. /\ InRun /\ (dl = NotDigit) # (dr = NotDigit)
        /\ Settle(IF dr = NotDigit THEN "Greater" ELSE "Less")
    BY <1>9 DEF RunLonger
  <2>2. Mirror!Settle(IF dl = NotDigit THEN "Greater" ELSE "Less")
    <3>1. CASE dr = NotDigit
      <4>1. dl # NotDigit /\ Settle("Greater")
        BY <2>1, <3>1
      <4> QED
        BY <4>1, MirrorSettle, ReversedIs
    <3>2. CASE dr # NotDigit
      <4>1. dl = NotDigit /\ Settle("Less")
        BY <2>1, <3>2
      <4> QED
        BY <4>1, MirrorSettle, ReversedIs
    <3> QED
      BY <3>1, <3>2
  <2> QED
    BY <2>1, <2>2, MirrorViews DEF Mirror!RunLonger, Mirror!Step, Mirror!Next
<1>10. CASE DigitsEqual
  BY <1>10, MirrorViews, MirrorReadBoth
  DEF DigitsEqual, Mirror!DigitsEqual, Mirror!Step, Mirror!Next
<1>11. CASE DigitsDiffer
  <2>1. pc = "digits_left" /\ BothDigits /\ dl # dr /\ Settle(Cmp(dl, dr))
    BY <1>11 DEF DigitsDiffer
  <2>2. Mirror!Settle(Cmp(dr, dl))
    BY <2>1, MirrorSettle, BothNumbers, CmpReversed
  <2> QED
    BY <2>1, <2>2, MirrorViews, MirrorConstants DEF Mirror!DigitsDiffer, Mirror!Step, Mirror!Next
<1>12. CASE DigitsRight
  <2>1. /\ pc = "digits_right" /\ BothDigits /\ ReadBoth("digits_right")
        /\ lastcmp' = IF lastcmp = "Equal" THEN Cmp(dl, dr) ELSE lastcmp
    BY <1>12 DEF DigitsRight, FirstCmp
  <2>2. Cmp(dr, dl) = Reversed(Cmp(dl, dr)) /\ lastcmp \in Orders
    BY <2>1, BothNumbers, CmpReversed DEF IInv, TypeOK
  <2>3. Reversed(lastcmp')
          = IF Reversed(lastcmp) = "Equal" THEN Cmp(dr, dl) ELSE Reversed(lastcmp)
    BY <2>1, <2>2, ReversedIs
  <2> QED
    BY <2>1, <2>3, MirrorViews, MirrorConstants, MirrorReadBoth
    DEF Mirror!DigitsRight, Mirror!FirstCmp, Mirror!Step, Mirror!Next
<1>13. CASE RunsEnd
  BY <1>13, MirrorViews, ReversedIs
  DEF RunsEnd, Mirror!RunsEnd, Mirror!Step, Mirror!Next
<1>14. CASE RunsSettle
  <2>1. /\ pc = "digits_right" /\ dl = NotDigit /\ dr = NotDigit
        /\ lastcmp # "Equal" /\ Settle(lastcmp) /\ lastcmp \in Orders
    BY <1>14 DEF RunsSettle, IInv, TypeOK
  <2>2. Reversed(lastcmp) # "Equal" /\ Mirror!Settle(Reversed(lastcmp))
    BY <2>1, ReversedIs, MirrorSettle
  <2> QED
    BY <2>1, <2>2, MirrorViews DEF Mirror!RunsSettle, Mirror!Step, Mirror!Next
<1>15. CASE Idle
  BY <1>15 DEF Idle, vars, Mirror!Idle, Mirror!vars, Mirror!Next
<1> QED
  BY <1>1, <1>2, <1>3, <1>4, <1>5, <1>6, <1>7, <1>8, <1>9, <1>10, <1>11, <1>12,
     <1>13, <1>14, <1>15 DEF Next, Step

\* compare_iter is antisymmetric, for every order of the items and every notion of
\* digit: the call with the arguments exchanged takes the same steps to the reverse.
THEOREM Mirrored == Spec => MirrorImage
<1>1. IInv /\ [Next]_vars => [Mirror!Next]_vars
  BY MirrorStep
<1> QED
  BY <1>1, MirrorInit, Invariance, PTL DEF Spec, MirrorImage

-------------------------------------------------------------------------------
(***************************************************************************)
(* Reading one item.                                                        *)
(***************************************************************************)
\* A token: a run of digits, or one item that is none.
RunType == {t \in Seq(Items) :
              /\ t # <<>>
              /\ IsDigitItem(t[1]) => \A i \in 1 .. Len(t) : IsDigitItem(t[i])}

Last(tokens) == tokens[Len(tokens)]

ReadType ==
  {r \in [tokens : Seq(RunType), open : BOOLEAN] :
     r.open => r.tokens # <<>> /\ IsDigitItem(Last(r.tokens)[1])}

LEMMA ReadTypeIs ==
  ASSUME NEW r \in ReadType
  PROVE  /\ r.tokens \in Seq(RunType) /\ Len(r.tokens) \in Nat /\ r.open \in BOOLEAN
         /\ r.open => /\ Len(r.tokens) \in 1 .. Len(r.tokens)
                      /\ Last(r.tokens) \in RunType /\ IsDigitItem(Last(r.tokens)[1])
<1>1. /\ r \in [tokens : Seq(RunType), open : BOOLEAN]
      /\ r.open => r.tokens # <<>> /\ IsDigitItem(Last(r.tokens)[1])
  BY DEF ReadType
<1>2. r.tokens \in Seq(RunType) /\ Len(r.tokens) \in Nat /\ r.open \in BOOLEAN
  BY <1>1
<1>3. ASSUME r.open PROVE Len(r.tokens) \in 1 .. Len(r.tokens)
  BY <1>1, <1>2, <1>3
<1>4. ASSUME r.open PROVE Last(r.tokens) \in RunType
  BY <1>2, <1>3, <1>4 DEF Last
<1> QED
  BY <1>1, <1>2, <1>3, <1>4

LEMMA RunIs ==
  ASSUME NEW t \in RunType
  PROVE  /\ t \in Seq(Items) /\ Len(t) \in Nat \ {0} /\ 1 \in 1 .. Len(t) /\ t[1] \in Items
         /\ IsDigitItem(t[1]) => \A i \in 1 .. Len(t) : IsDigitItem(t[i])
BY DEF RunType

\* A digit read while a run goes on.
LEMMA ReadOn ==
  ASSUME NEW r \in ReadType, NEW x \in Items, r.open, IsDigitItem(x)
  PROVE  LET q == ReadItem(r, x)
         IN  /\ q \in ReadType /\ q.open /\ Len(q.tokens) = Len(r.tokens)
             /\ \A i \in 1 .. Len(r.tokens) - 1 : q.tokens[i] = r.tokens[i]
             /\ Last(q.tokens) = Append(Last(r.tokens), x)
<1> DEFINE u == r.tokens
           w == Append(Last(u), x)
           v == [u EXCEPT ![Len(u)] = w]
<1>1. u \in Seq(RunType) /\ Len(u) \in 1 .. Len(u) /\ Len(u) \in Nat
      /\ Last(u) \in RunType /\ IsDigitItem(Last(u)[1])
  BY ReadTypeIs
<1>2. w \in RunType /\ IsDigitItem(w[1])
  <2> DEFINE l == Last(u)
  <2>1. /\ l \in Seq(Items) /\ Len(l) \in Nat \ {0} /\ IsDigitItem(l[1])
        /\ \A i \in 1 .. Len(l) : IsDigitItem(l[i])
    BY <1>1, RunIs
  <2> HIDE DEF l
  <2>2. /\ Append(l, x) \in Seq(Items) /\ Len(Append(l, x)) = Len(l) + 1
        /\ Append(l, x)[Len(l) + 1] = x
        /\ \A i \in 1 .. Len(l) : Append(l, x)[i] = l[i]
    BY <2>1
  <2>3. ASSUME NEW i \in 1 .. Len(l) + 1 PROVE IsDigitItem(Append(l, x)[i])
    <3>1. i \in 1 .. Len(l) \/ i = Len(l) + 1
      BY <2>1
    <3> QED
      BY <2>1, <2>2, <3>1
  <2>4. Append(l, x) # <<>> /\ Append(l, x)[1] = l[1]
    BY <2>1, <2>2
  <2>5. Append(l, x) \in RunType
    BY <2>2, <2>3, <2>4 DEF RunType
  <2> QED
    BY <2>1, <2>4, <2>5 DEF l
<1>3. ReadItem(r, x) = [tokens |-> v, open |-> TRUE]
  BY DEF ReadItem, Prolonged, Last
<1> HIDE DEF w
<1>4. /\ v \in Seq(RunType) /\ Len(v) = Len(u) /\ v[Len(u)] = w
      /\ \A i \in 1 .. Len(u) - 1 : v[i] = u[i]
  BY <1>1, <1>2
<1> HIDE DEF v, u
<1>5. v # <<>> /\ Last(v) = w
  BY <1>1, <1>4 DEF Last
<1>6. [tokens |-> v, open |-> TRUE] \in ReadType
  BY <1>2, <1>4, <1>5 DEF ReadType
<1> QED
  BY <1>3, <1>4, <1>5, <1>6 DEF u, w

\* An item without a meaning.
LEMMA ReadSkipped ==
  ASSUME NEW r \in ReadType, NEW x \in Items, ~ (r.open /\ IsDigitItem(x)), Skip(x)
  PROVE  /\ ReadItem(r, x) \in ReadType
         /\ ReadItem(r, x).tokens = r.tokens /\ ~ ReadItem(r, x).open
<1>1. ReadItem(r, x) = [tokens |-> r.tokens, open |-> FALSE]
  BY DEF ReadItem
<1>2. r.tokens \in Seq(RunType)
  BY ReadTypeIs
<1> QED
  BY <1>1, <1>2 DEF ReadType

\* An item that begins a token.
LEMMA ReadNext ==
  ASSUME NEW r \in ReadType, NEW x \in Items, ~ (r.open /\ IsDigitItem(x)), ~ Skip(x)
  PROVE  LET q == ReadItem(r, x)
         IN  /\ q \in ReadType /\ q.open = IsDigitItem(x)
             /\ Len(q.tokens) = Len(r.tokens) + 1
             /\ \A i \in 1 .. Len(r.tokens) : q.tokens[i] = r.tokens[i]
             /\ Last(q.tokens) = <<x>>
<1> DEFINE u == r.tokens
           v == Append(u, <<x>>)
<1>1. u \in Seq(RunType) /\ Len(u) \in Nat
  BY ReadTypeIs
<1>2. <<x>> \in RunType
  <2>1. <<x>> \in Seq(Items) /\ <<x>> # <<>> /\ Len(<<x>>) = 1 /\ <<x>>[1] = x
    OBVIOUS
  <2>2. \A i \in 1 .. Len(<<x>>) : <<x>>[i] = <<x>>[1]
    BY <2>1
  <2> QED
    BY <2>1, <2>2 DEF RunType
<1>3. ReadItem(r, x) = [tokens |-> v, open |-> IsDigitItem(x)]
  BY DEF ReadItem
<1> HIDE DEF u
<1>4. /\ v \in Seq(RunType) /\ Len(v) = Len(u) + 1 /\ v[Len(u) + 1] = <<x>>
      /\ \A i \in 1 .. Len(u) : v[i] = u[i]
  BY <1>1, <1>2
<1> HIDE DEF v
<1>5. v # <<>> /\ Last(v) = <<x>>
  BY <1>1, <1>4 DEF Last
<1>6. IsDigitItem(x) \in BOOLEAN /\ Last(v)[1] = x
  BY <1>5 DEF IsDigitItem
<1>7. [tokens |-> v, open |-> IsDigitItem(x)] \in ReadType
  BY <1>4, <1>5, <1>6 DEF ReadType
<1> QED
  BY <1>3, <1>4, <1>5, <1>7 DEF u

LEMMA ReadItemType ==
  ASSUME NEW r \in ReadType, NEW x \in Items
  PROVE  ReadItem(r, x) \in ReadType
BY ReadOn, ReadSkipped, ReadNext

LEMMA ReadingIs ==
  ASSUME NEW s \in Seq(Items)
  PROVE  /\ Reading(s) \in [0 .. Len(s) -> ReadType]
         /\ Reading(s)[0] = Nothing
         /\ \A n \in 1 .. Len(s) : Reading(s)[n] = ReadItem(Reading(s)[n - 1], s[n])
<1> DEFINE Body(read) == [n \in 0 .. Len(s) |->
                            IF n = 0 THEN Nothing ELSE ReadItem(read[n - 1], s[n])]
           m == Len(s)
           step == [z \in ReadType \X (1 .. m) |-> ReadItem(z[1], s[z[2]])]
<1>1. m \in Nat /\ \A n \in 1 .. m : s[n] \in Items
  OBVIOUS
<1>2. Nothing \in ReadType
  <2>1. <<>> \in Seq(RunType)
    OBVIOUS
  <2> QED
    BY <2>1 DEF Nothing, ReadType
<1>3. Stepping(ReadType, Nothing, m, step)
  <2>1. ASSUME NEW z \in ReadType \X (1 .. m) PROVE ReadItem(z[1], s[z[2]]) \in ReadType
    <3>1. z[1] \in ReadType /\ z[2] \in 1 .. m
      OBVIOUS
    <3> QED
      BY <1>1, <3>1, ReadItemType
  <2>2. step \in [ReadType \X (1 .. m) -> ReadType]
    BY <2>1
  <2> HIDE DEF step
  <2> QED
    BY <1>1, <1>2, <2>2 DEF Stepping
<1>4. PICK g : Steps(g, ReadType, Nothing, m, step)
  <2> HIDE DEF step, m
  <2> QED
    BY <1>3, Recursion
<1>5. /\ g \in [0 .. m -> ReadType] /\ g[0] = Nothing
      /\ \A n \in 1 .. m : g[n] = ReadItem(g[n - 1], s[n])
  <2>1. ASSUME NEW n \in 1 .. m PROVE g[n] = ReadItem(g[n - 1], s[n])
    <3>1. n - 1 \in 0 .. m
      BY <1>1
    <3>2. g[n - 1] \in ReadType /\ g[n] = step[<<g[n - 1], n>>]
      BY <1>4, <3>1 DEF Steps
    <3>3. <<g[n - 1], n>> \in ReadType \X (1 .. m)
      BY <3>2
    <3> QED
      BY <3>2, <3>3
  <2> QED
    BY <1>4, <2>1 DEF Steps
<1>6. g = Body(g)
  <2>1. ASSUME NEW n \in 0 .. m PROVE g[n] = Body(g)[n]
    <3>1. CASE n = 0
      BY <1>1, <1>5, <3>1
    <3>2. CASE n \in 1 .. m
      BY <1>1, <1>5, <3>2
    <3> QED
      BY <1>1, <3>1, <3>2
  <2> QED
    BY <1>5, <2>1
<1>7. Reading(s) = CHOOSE read : read = Body(read)
  BY DEF Reading
<1>8. Reading(s) = Body(Reading(s))
  <2> HIDE DEF Body
  <2> QED
    BY <1>6, <1>7
<1> DEFINE f == Reading(s)
<1> HIDE DEF f
<1>9. f[0] = Nothing /\ \A n \in 1 .. m : f[n] = ReadItem(f[n - 1], s[n])
  BY <1>1, <1>8 DEF f
<1> DEFINE S == {k \in Nat : k <= m => f[k] \in ReadType}
<1>10. \A n \in Nat : n \in S
  <2>1. 0 \in S
    BY <1>2, <1>9
  <2>2. ASSUME NEW n \in Nat, n \in S PROVE n + 1 \in S
    <3>1. SUFFICES ASSUME n + 1 <= m PROVE f[n + 1] \in ReadType
      OBVIOUS
    <3>2. n + 1 \in 1 .. m /\ (n + 1) - 1 = n /\ f[n] \in ReadType
      BY <1>1, <2>2, <3>1
    <3>3. s[n + 1] \in Items /\ f[n + 1] = ReadItem(f[n], s[n + 1])
      BY <1>1, <1>9, <3>2
    <3> QED
      BY <3>2, <3>3, ReadItemType
  <2> HIDE DEF S
  <2> QED
    BY <2>1, <2>2, Induction
<1>11. \A n \in 0 .. m : f[n] \in ReadType
  BY <1>1, <1>10
<1>12. f \in [0 .. m -> ReadType]
  <2> DEFINE e(n) == IF n = 0 THEN Nothing ELSE ReadItem(f[n - 1], s[n])
  <2>1. f = [n \in 0 .. m |-> e(n)]
    BY <1>8 DEF f
  <2> HIDE DEF e
  <2> QED
    BY <1>11, <2>1
<1> QED
  BY <1>9, <1>12 DEF f

\* What is read before the item held, and with it.
LEMMA ReadAt ==
  ASSUME NEW s \in Seq(Items), NEW n \in Nat \ {0}, n <= Len(s)
  PROVE  /\ Reading(s)[n - 1] \in ReadType /\ Reading(s)[n] \in ReadType
         /\ Reading(s)[n] = ReadItem(Reading(s)[n - 1], s[n])
         /\ s[n] \in Items
<1>1. Len(s) \in Nat /\ n \in 1 .. Len(s) /\ n - 1 \in 0 .. Len(s) /\ n \in 0 .. Len(s)
  OBVIOUS
<1> QED
  BY <1>1, ReadingIs

-------------------------------------------------------------------------------
(***************************************************************************)
(* Reading on.                                                              *)
(***************************************************************************)
\* The run u is the beginning of v; of token lists, the tokens of u are the first of v.
Extends(u, v) == Len(u) <= Len(v) /\ \A i \in 1 .. Len(u) : v[i] = u[i]

\* The tokens of r are still there in q, but that a run r ends in may have grown.
Kept(r, q) ==
  /\ r \in ReadType /\ q \in ReadType
  /\ Len(r.tokens) <= Len(q.tokens)
  /\ \A i \in 1 .. Len(r.tokens) :
       /\ Extends(r.tokens[i], q.tokens[i])
       /\ i < Len(r.tokens) \/ ~ r.open => q.tokens[i] = r.tokens[i]
  /\ Len(r.tokens) = Len(q.tokens) /\ q.open => r.open

LEMMA ExtendsIs ==
  /\ \A u \in RunType : Extends(u, u)
  /\ \A u, v, w \in RunType : Extends(u, v) /\ Extends(v, w) => Extends(u, w)
<1>1. ASSUME NEW u \in RunType PROVE Extends(u, u)
  BY RunIs DEF Extends
<1>2. ASSUME NEW u \in RunType, NEW v \in RunType, NEW w \in RunType,
             Extends(u, v), Extends(v, w)
      PROVE  Extends(u, w)
  <2>1. Len(u) \in Nat /\ Len(v) \in Nat /\ Len(w) \in Nat
    BY RunIs
  <2>2. \A i \in 1 .. Len(u) : i \in 1 .. Len(v)
    BY <1>2, <2>1 DEF Extends
  <2> QED
    BY <1>2, <2>1, <2>2 DEF Extends
<1> QED
  BY <1>1, <1>2

LEMMA KeptTransitive ==
  ASSUME NEW r, NEW q, NEW p, Kept(r, q), Kept(q, p)
  PROVE  Kept(r, p)
<1> DEFINE u == r.tokens
           v == q.tokens
           w == p.tokens
<1>1. /\ r \in ReadType /\ q \in ReadType /\ p \in ReadType
      /\ u \in Seq(RunType) /\ v \in Seq(RunType) /\ w \in Seq(RunType)
      /\ Len(u) \in Nat /\ Len(v) \in Nat /\ Len(w) \in Nat
      /\ Len(u) <= Len(v) /\ Len(v) <= Len(w)
  BY ReadTypeIs DEF Kept
<1>2. /\ \A i \in 1 .. Len(u) : Extends(u[i], v[i]) /\ (i < Len(u) \/ ~ r.open => v[i] = u[i])
      /\ \A i \in 1 .. Len(v) : Extends(v[i], w[i]) /\ (i < Len(v) \/ ~ q.open => w[i] = v[i])
      /\ Len(u) = Len(v) /\ q.open => r.open
      /\ Len(v) = Len(w) /\ p.open => q.open
  BY DEF Kept
<1> HIDE DEF u, v, w
<1>3. ASSUME NEW i \in 1 .. Len(u)
      PROVE  Extends(u[i], w[i]) /\ (i < Len(u) \/ ~ r.open => w[i] = u[i])
  <2>1. i \in 1 .. Len(v) /\ i \in 1 .. Len(w)
    BY <1>1
  <2>2. u[i] \in RunType /\ v[i] \in RunType /\ w[i] \in RunType
    BY <1>1, <2>1
  <2>3. Extends(u[i], w[i])
    BY <1>2, <2>1, <2>2, ExtendsIs
  <2>4. ASSUME i < Len(u) \/ ~ r.open PROVE w[i] = u[i]
    <3>1. v[i] = u[i]
      BY <1>2, <2>4
    <3>2. i < Len(v) \/ ~ q.open
      BY <1>1, <1>2, <2>4, <2>1
    <3> QED
      BY <1>2, <2>1, <3>1, <3>2
  <2> QED
    BY <2>3, <2>4
<1>4. Len(u) = Len(w) /\ p.open => r.open
  BY <1>1, <1>2
<1> QED
  BY <1>1, <1>3, <1>4 DEF Kept, u, v, w

LEMMA ReadItemKeeps ==
  ASSUME NEW r \in ReadType, NEW x \in Items
  PROVE  Kept(r, ReadItem(r, x))
<1> DEFINE q == ReadItem(r, x)
           u == r.tokens
           v == q.tokens
<1>1. /\ u \in Seq(RunType) /\ Len(u) \in Nat /\ q \in ReadType
      /\ \A i \in 1 .. Len(u) : u[i] \in RunType
  BY ReadTypeIs, ReadItemType
<1>2. CASE r.open /\ IsDigitItem(x)
  <2>1. /\ Len(v) = Len(u) /\ \A i \in 1 .. Len(u) - 1 : v[i] = u[i]
        /\ Last(v) = Append(Last(u), x)
    BY <1>2, ReadOn
  <2> HIDE DEF q, u, v
  <2>2. ASSUME NEW i \in 1 .. Len(u)
        PROVE  Extends(u[i], v[i]) /\ (i < Len(u) \/ ~ r.open => v[i] = u[i])
    <3>1. CASE i < Len(u)
      <4>1. v[i] = u[i]
        BY <1>1, <2>1, <3>1
      <4> QED
        BY <1>1, <4>1, ExtendsIs
    <3>2. CASE i = Len(u)
      <4>1. v[i] = Append(u[i], x) /\ u[i] \in RunType
        BY <1>1, <2>1, <3>2 DEF Last
      <4>2. Extends(u[i], Append(u[i], x))
        <5> DEFINE l == u[i]
        <5>1. l \in Seq(Items) /\ Len(l) \in Nat
          BY <4>1, RunIs
        <5> HIDE DEF l
        <5>2. Len(Append(l, x)) = Len(l) + 1 /\ \A j \in 1 .. Len(l) : Append(l, x)[j] = l[j]
          BY <5>1
        <5> QED
          BY <5>1, <5>2 DEF Extends, l
      <4> QED
        BY <1>2, <3>2, <4>1, <4>2
    <3> QED
      BY <1>1, <3>1, <3>2
  <2> QED
    BY <1>1, <1>2, <2>1, <2>2 DEF Kept, q, u, v
<1>3. CASE ~ (r.open /\ IsDigitItem(x)) /\ Skip(x)
  <2>1. v = u /\ ~ q.open
    BY <1>3, ReadSkipped
  <2> HIDE DEF q
  <2> QED
    BY <1>1, <2>1, ExtendsIs DEF Kept, q
<1>4. CASE ~ (r.open /\ IsDigitItem(x)) /\ ~ Skip(x)
  <2>1. Len(v) = Len(u) + 1 /\ \A i \in 1 .. Len(u) : v[i] = u[i]
    BY <1>4, ReadNext
  <2> HIDE DEF q, v
  <2>2. ASSUME NEW i \in 1 .. Len(u) PROVE Extends(u[i], v[i]) /\ v[i] = u[i]
    BY <1>1, <2>1, ExtendsIs
  <2> HIDE DEF u
  <2> QED
    BY <1>1, <2>1, <2>2 DEF Kept, q, v, u
<1> QED
  BY <1>2, <1>3, <1>4

\* Reading on keeps what has been read.
LEMMA Later ==
  ASSUME NEW s \in Seq(Items), NEW k \in Nat, NEW n \in Nat, k <= n, n <= Len(s)
  PROVE  Kept(Reading(s)[k], Reading(s)[n])
<1> DEFINE S == {i \in Nat : k + i <= Len(s) => Kept(Reading(s)[k], Reading(s)[k + i])}
<1>1. Len(s) \in Nat
  OBVIOUS
<1>2. 0 \in S
  <2> DEFINE r == Reading(s)[k]
  <2>1. r \in ReadType /\ k + 0 = k
    BY <1>1, ReadingIs
  <2> HIDE DEF r
  <2>2. \A i \in 1 .. Len(r.tokens) : r.tokens[i] \in RunType
    BY <2>1, ReadTypeIs
  <2>3. Kept(r, r)
    BY <2>1, <2>2, ReadTypeIs, ExtendsIs DEF Kept
  <2> QED
    BY <2>1, <2>3 DEF r
<1>3. ASSUME NEW i \in Nat, i \in S PROVE i + 1 \in S
  <2>1. SUFFICES ASSUME k + (i + 1) <= Len(s)
                 PROVE  Kept(Reading(s)[k], Reading(s)[k + (i + 1)])
    OBVIOUS
  <2>2. Kept(Reading(s)[k], Reading(s)[k + i])
    BY <1>1, <1>3, <2>1
  <2> DEFINE m == k + (i + 1)
  <2>3. m \in Nat \ {0} /\ m <= Len(s) /\ m - 1 = k + i
    BY <1>1, <2>1
  <2> HIDE DEF m
  <2>4. Kept(Reading(s)[m - 1], Reading(s)[m])
    BY <2>3, ReadAt, ReadItemKeeps
  <2> QED
    BY <2>2, <2>3, <2>4, KeptTransitive DEF m
<1>4. n - k \in Nat /\ k + (n - k) = n /\ n - k \in S
  <2> HIDE DEF S
  <2> QED
    BY <1>2, <1>3, Induction
<1> QED
  BY <1>4

-------------------------------------------------------------------------------
(***************************************************************************)
(* Comparing tokens.  The digits are decimal ones.                          *)
(***************************************************************************)
Decimal == \A x \in Items : IsDigitItem(x) => ToDigit(x) \in 0 .. 9

DigitRuns == {t \in RunType : IsDigitItem(t[1])}

LEMMA DigitRunIs ==
  ASSUME Decimal, NEW u \in DigitRuns
  PROVE  /\ u \in RunType /\ Len(u) \in Nat \ {0} /\ IsDigitItem(u[1])
         /\ \A i \in 1 .. Len(u) : ToDigit(u[i]) \in 0 .. 9
<1>1. u \in RunType /\ IsDigitItem(u[1])
  BY DEF DigitRuns
<1>2. /\ u \in Seq(Items) /\ Len(u) \in Nat \ {0}
      /\ \A i \in 1 .. Len(u) : IsDigitItem(u[i])
  BY <1>1, RunIs
<1>3. \A i \in 1 .. Len(u) : u[i] \in Items
  BY <1>2
<1> QED
  BY <1>1, <1>2, <1>3 DEF Decimal

LEMMA ValuesAre ==
  ASSUME Decimal, NEW u \in DigitRuns
  PROVE  /\ Values(u)[0] = 0
         /\ \A n \in 0 .. Len(u) : Values(u)[n] \in Nat
         /\ \A n \in 1 .. Len(u) : Values(u)[n] = 10 * Values(u)[n - 1] + ToDigit(u[n])
<1> DEFINE Body(value) == [n \in 0 .. Len(u) |->
                             IF n = 0 THEN 0 ELSE 10 * value[n - 1] + ToDigit(u[n])]
           m == Len(u)
           step == [z \in Nat \X (1 .. m) |-> 10 * z[1] + ToDigit(u[z[2]])]
<1>1. m \in Nat \ {0} /\ \A n \in 1 .. m : ToDigit(u[n]) \in 0 .. 9
  BY DigitRunIs
<1>2. Stepping(Nat, 0, m, step)
  <2>1. ASSUME NEW z \in Nat \X (1 .. m) PROVE 10 * z[1] + ToDigit(u[z[2]]) \in Nat
    <3>1. z[1] \in Nat /\ ToDigit(u[z[2]]) \in 0 .. 9
      BY <1>1
    <3> QED
      BY <3>1
  <2>2. step \in [Nat \X (1 .. m) -> Nat]
    BY <2>1
  <2> HIDE DEF step
  <2> QED
    BY <1>1, <2>2 DEF Stepping
<1>3. PICK g : Steps(g, Nat, 0, m, step)
  <2> HIDE DEF step, m
  <2> QED
    BY <1>2, Recursion
<1>4. /\ g \in [0 .. m -> Nat] /\ g[0] = 0
      /\ \A n \in 1 .. m : g[n] = 10 * g[n - 1] + ToDigit(u[n])
  <2>1. ASSUME NEW n \in 1 .. m PROVE g[n] = 10 * g[n - 1] + ToDigit(u[n])
    <3>1. n - 1 \in 0 .. m
      BY <1>1
    <3>2. g[n - 1] \in Nat /\ g[n] = step[<<g[n - 1], n>>]
      BY <1>3, <3>1 DEF Steps
    <3>3. <<g[n - 1], n>> \in Nat \X (1 .. m)
      BY <3>2
    <3> QED
      BY <3>2, <3>3
  <2> QED
    BY <1>3, <2>1 DEF Steps
<1>5. g = Body(g)
  <2>1. ASSUME NEW n \in 0 .. m PROVE g[n] = Body(g)[n]
    <3>1. CASE n = 0
      BY <1>1, <1>4, <3>1
    <3>2. CASE n \in 1 .. m
      BY <1>1, <1>4, <3>2
    <3> QED
      BY <1>1, <3>1, <3>2
  <2> QED
    BY <1>4, <2>1
<1>6. Values(u) = CHOOSE value : value = Body(value)
  BY DEF Values
<1>7. Values(u) = Body(Values(u))
  <2> HIDE DEF Body
  <2> QED
    BY <1>5, <1>6
<1> DEFINE f == Values(u)
<1> HIDE DEF f
<1>8. f[0] = 0 /\ \A n \in 1 .. m : f[n] = 10 * f[n - 1] + ToDigit(u[n])
  BY <1>1, <1>7 DEF f
<1> DEFINE S == {k \in Nat : k <= m => f[k] \in Nat}
<1>9. \A n \in Nat : n \in S
  <2>1. 0 \in S
    BY <1>8
  <2>2. ASSUME NEW n \in Nat, n \in S PROVE n + 1 \in S
    <3>1. SUFFICES ASSUME n + 1 <= m PROVE f[n + 1] \in Nat
      OBVIOUS
    <3>2. n + 1 \in 1 .. m /\ (n + 1) - 1 = n /\ f[n] \in Nat
      BY <1>1, <2>2, <3>1
    <3>3. ToDigit(u[n + 1]) \in 0 .. 9 /\ f[n + 1] = 10 * f[n] + ToDigit(u[n + 1])
      BY <1>1, <1>8, <3>2
    <3> QED
      BY <3>2, <3>3
  <2> HIDE DEF S
  <2> QED
    BY <2>1, <2>2, Induction
<1>10. \A n \in 0 .. m : f[n] \in Nat
  BY <1>1, <1>9
<1> QED
  BY <1>8, <1>10 DEF f

LEMMA ValuesGrow ==
  ASSUME Decimal, NEW u \in DigitRuns
  PROVE  Grows(Values(u), Len(u))
<1> DEFINE f == Values(u)
           m == Len(u)
<1>1. /\ \A n \in 0 .. m : f[n] \in Nat
      /\ \A n \in 1 .. m : f[n] = 10 * f[n - 1] + ToDigit(u[n])
      /\ \A n \in 1 .. m : ToDigit(u[n]) \in 0 .. 9
      /\ m \in Nat
  BY ValuesAre, DigitRunIs
<1> HIDE DEF f, m
<1>2. ASSUME NEW i \in 0 .. m - 1
      PROVE  10 * f[i] <= f[i + 1] /\ f[i + 1] <= 10 * f[i] + 9
  <2>1. i + 1 \in 1 .. m /\ (i + 1) - 1 = i /\ i \in 0 .. m
    BY <1>1
  <2>2. f[i] \in Nat /\ f[i + 1] = 10 * f[i] + ToDigit(u[i + 1]) /\ ToDigit(u[i + 1]) \in 0 .. 9
    BY <1>1, <2>1
  <2> QED
    BY <2>2
<1> QED
  BY <1>1, <1>2 DEF Grows, f, m

\* The first n digits of both are the same.
SameDigits(u, v, n) == \A i \in 1 .. n : ToDigit(u[i]) = ToDigit(v[i])

LEMMA SmallerIs ==
  ASSUME NEW m \in Nat, NEW n \in Nat
  PROVE  /\ Smaller(m, n) \in Nat /\ Smaller(m, n) <= m /\ Smaller(m, n) <= n
         /\ \A k \in Nat : k <= m /\ k <= n => k <= Smaller(m, n)
BY DEF Smaller

LEMMA FractionsDiffer ==
  ASSUME NEW u \in RunType, NEW v \in RunType, NEW k \in Nat \ {0},
         k <= Len(u), k <= Len(v), SameDigits(u, v, k - 1), ToDigit(u[k]) # ToDigit(v[k])
  PROVE  CmpFractions(u, v) = Cmp(ToDigit(u[k]), ToDigit(v[k]))
<1> DEFINE n == Smaller(Len(u), Len(v))
           stops == {i \in 0 .. n - 1 : ToDigit(At(u, i)) # ToDigit(At(v, i))}
           j == k - 1
<1>1. Len(u) \in Nat /\ Len(v) \in Nat /\ n \in Nat /\ k <= n /\ j \in Nat /\ j + 1 = k
  BY RunIs, SmallerIs
<1> HIDE DEF n
<1>2. At(u, j) = u[k] /\ At(v, j) = v[k]
  BY <1>1 DEF At
<1>3. j \in 0 .. n - 1 /\ j \in 0 .. n /\ j # n
  BY <1>1
<1>4. j \in stops
  BY <1>2, <1>3
<1>5. ASSUME NEW p \in 0 .. n, p < j PROVE p \notin stops
  <2>1. p + 1 \in 1 .. k - 1
    BY <1>1, <1>5
  <2> QED
    BY <2>1 DEF SameDigits, At
<1>6. j = FirstStop(0, n, stops)
  <2> HIDE DEF stops, j
  <2> QED
    BY <1>1, <1>3, <1>4, <1>5, FirstStopUnique
<1>7. CmpFractions(u, v) = IF FirstStop(0, n, stops) = n THEN Cmp(Len(u), Len(v))
                           ELSE Cmp(ToDigit(At(u, FirstStop(0, n, stops))),
                                    ToDigit(At(v, FirstStop(0, n, stops))))
  BY DEF CmpFractions, n
<1> HIDE DEF stops, j
<1> QED
  BY <1>2, <1>3, <1>6, <1>7

LEMMA FractionsSame ==
  ASSUME NEW u \in RunType, NEW v \in RunType,
         SameDigits(u, v, Smaller(Len(u), Len(v)))
  PROVE  CmpFractions(u, v) = Cmp(Len(u), Len(v))
<1> DEFINE n == Smaller(Len(u), Len(v))
           stops == {i \in 0 .. n - 1 : ToDigit(At(u, i)) # ToDigit(At(v, i))}
<1>1. Len(u) \in Nat /\ Len(v) \in Nat /\ n \in Nat /\ SameDigits(u, v, n)
  BY RunIs, SmallerIs
<1> HIDE DEF n
<1>2. ASSUME NEW p \in 0 .. n, p < n PROVE p \notin stops
  <2>1. p + 1 \in 1 .. n
    BY <1>1, <1>2
  <2> QED
    BY <1>1, <2>1 DEF SameDigits, At
<1>3. n = FirstStop(0, n, stops)
  <2>1. n \in 0 .. n
    BY <1>1
  <2> HIDE DEF stops
  <2> QED
    BY <1>1, <1>2, <2>1, FirstStopUnique
<1>4. CmpFractions(u, v) = IF FirstStop(0, n, stops) = n THEN Cmp(Len(u), Len(v))
                           ELSE Cmp(ToDigit(At(u, FirstStop(0, n, stops))),
                                    ToDigit(At(v, FirstStop(0, n, stops))))
  BY DEF CmpFractions, n
<1> HIDE DEF stops
<1> QED
  BY <1>3, <1>4

\* Two runs have the same digits up to the shorter one's end, or a first difference.
LEMMA RunsAre ==
  ASSUME NEW u \in RunType, NEW v \in RunType
  PROVE  \/ SameDigits(u, v, Smaller(Len(u), Len(v)))
         \/ \E k \in Nat \ {0} : /\ k <= Len(u) /\ k <= Len(v) /\ SameDigits(u, v, k - 1)
                                 /\ ToDigit(u[k]) # ToDigit(v[k])
<1> DEFINE n == Smaller(Len(u), Len(v))
           D == {i \in 1 .. n : ToDigit(u[i]) # ToDigit(v[i])}
<1>1. Len(u) \in Nat /\ Len(v) \in Nat /\ n \in Nat /\ n <= Len(u) /\ n <= Len(v)
  BY RunIs, SmallerIs
<1>2. CASE D = {}
  BY <1>2 DEF SameDigits
<1>3. CASE D # {}
  <2> DEFINE k == Least(D)
  <2>1. D \in SUBSET Nat
    BY <1>1
  <2>2. k \in D /\ \A i \in D : k <= i
    <3> HIDE DEF D
    <3> QED
      BY <1>3, <2>1, LeastOf
  <2> HIDE DEF k
  <2>3. k \in 1 .. n /\ ToDigit(u[k]) # ToDigit(v[k])
    BY <2>2
  <2>4. k \in Nat \ {0} /\ k <= Len(u) /\ k <= Len(v)
    BY <1>1, <2>3
  <2>5. ASSUME NEW i \in 1 .. k - 1 PROVE ToDigit(u[i]) = ToDigit(v[i])
    <3>1. i \in 1 .. n /\ ~ (k <= i)
      BY <1>1, <2>3
    <3> QED
      BY <2>2, <3>1
  <2> QED
    BY <2>3, <2>4, <2>5 DEF SameDigits
<1> QED
  BY <1>2, <1>3

\* The value of the first n digits is the same if the digits are.
LEMMA SameValues ==
  ASSUME Decimal, NEW u \in DigitRuns, NEW v \in DigitRuns,
         NEW n \in Nat, n <= Len(u), n <= Len(v), SameDigits(u, v, n)
  PROVE  Values(u)[n] = Values(v)[n]
<1> DEFINE S == {i \in Nat : i <= n => Values(u)[i] = Values(v)[i]}
<1>1. Len(u) \in Nat /\ Len(v) \in Nat
  BY DigitRunIs
<1>2. 0 \in S
  BY ValuesAre
<1>3. ASSUME NEW i \in Nat, i \in S PROVE i + 1 \in S
  <2>1. SUFFICES ASSUME i + 1 <= n PROVE Values(u)[i + 1] = Values(v)[i + 1]
    OBVIOUS
  <2>2. /\ i + 1 \in 1 .. Len(u) /\ i + 1 \in 1 .. Len(v) /\ i + 1 \in 1 .. n
        /\ (i + 1) - 1 = i /\ Values(u)[i] = Values(v)[i]
    BY <1>1, <1>3, <2>1
  <2>3. /\ Values(u)[i + 1] = 10 * Values(u)[(i + 1) - 1] + ToDigit(u[i + 1])
        /\ Values(v)[i + 1] = 10 * Values(v)[(i + 1) - 1] + ToDigit(v[i + 1])
    BY <2>2, ValuesAre
  <2> QED
    BY <2>2, <2>3 DEF SameDigits
<1>4. n \in S
  <2> HIDE DEF S
  <2> QED
    BY <1>2, <1>3, Induction
<1> QED
  BY <1>4

\* Numbers without leading zeros: the longer one is greater, and two of one length
\* compare as their first different digits do.
LEMMA ShorterIsLess ==
  ASSUME Decimal, NEW u \in DigitRuns, NEW v \in DigitRuns, Len(u) < Len(v),
         ToDigit(v[1]) # 0
  PROVE  Value(u) < Value(v) /\ Value(u) \in Nat /\ Value(v) \in Nat
<1> DEFINE f == Values(u)
           g == Values(v)
<1>1. /\ Len(u) \in Nat \ {0} /\ Len(v) \in Nat \ {0} /\ ToDigit(v[1]) \in 0 .. 9
      /\ Grows(f, Len(u)) /\ Grows(g, Len(v)) /\ f[0] = 0
  BY DigitRunIs, ValuesAre, ValuesGrow
<1>2. g[1] = ToDigit(v[1])
  <2>1. 1 \in 1 .. Len(v) /\ 1 - 1 = 0
    BY <1>1
  <2>2. g[1] = 10 * g[1 - 1] + ToDigit(v[1]) /\ g[0] = 0
    BY <2>1, ValuesAre
  <2> QED
    BY <1>1, <2>1, <2>2
<1>3. f[Len(u)] \in Nat /\ g[Len(v)] \in Nat
  BY <1>1 DEF Grows
<1> HIDE DEF f, g
<1>4. f[0] < g[1]
  BY <1>1, <1>2
<1>5. f[Len(u)] < g[Len(v)]
  BY <1>1, <1>4, LongerIsGreater
<1> QED
  BY <1>3, <1>5 DEF Value, f, g

LEMMA DigitAdds ==
  ASSUME NEW x \in Nat, NEW d \in 0 .. 9, NEW e \in 0 .. 9, d < e
  PROVE  10 * x + d < 10 * x + e
OBVIOUS

LEMMA DigitDecides ==
  ASSUME Decimal, NEW u \in DigitRuns, NEW v \in DigitRuns, Len(u) = Len(v),
         NEW k \in Nat \ {0}, k <= Len(u), SameDigits(u, v, k - 1),
         ToDigit(u[k]) < ToDigit(v[k])
  PROVE  Value(u) < Value(v) /\ Value(u) \in Nat /\ Value(v) \in Nat
<1> DEFINE f == Values(u)
           g == Values(v)
           m == Len(u)
<1>1. /\ m \in Nat \ {0} /\ Len(v) = m /\ Grows(f, m) /\ Grows(g, m)
      /\ ToDigit(u[k]) \in 0 .. 9 /\ ToDigit(v[k]) \in 0 .. 9
      /\ k \in 1 .. m /\ k - 1 \in 0 .. m /\ k \in 0 .. m
  BY DigitRunIs, ValuesGrow
<1>2. f[k - 1] = g[k - 1]
  <2>1. k - 1 \in Nat /\ k - 1 <= Len(u) /\ k - 1 <= Len(v)
    BY <1>1
  <2> QED
    BY <2>1, SameValues
<1>3. f[k] = 10 * f[k - 1] + ToDigit(u[k]) /\ g[k] = 10 * g[k - 1] + ToDigit(v[k])
  BY <1>1, ValuesAre
<1>4. \A i \in 0 .. m : f[i] \in Nat /\ g[i] \in Nat
  BY <1>1 DEF Grows
<1> HIDE DEF f, g, m
<1>5. f[k] < g[k]
  <2>1. f[k - 1] \in Nat
    BY <1>1, <1>4
  <2>2. 10 * f[k - 1] + ToDigit(u[k]) < 10 * f[k - 1] + ToDigit(v[k])
    BY <1>1, <2>1, DigitAdds
  <2> QED
    BY <1>2, <1>3, <2>2
<1>6. f[m] < g[m] /\ f[m] \in Nat /\ g[m] \in Nat
  <2> DEFINE j == m - k
  <2>1. j \in Nat /\ k + j = m /\ m \in Nat /\ m \in 0 .. m /\ k + j <= m
    BY <1>1
  <2> HIDE DEF j
  <2>2. f[k + j] < g[k + j]
    BY <1>1, <1>5, <2>1, LessStays
  <2> QED
    BY <1>4, <2>1, <2>2
<1> QED
  BY <1>1, <1>6 DEF Value, f, g, m

\* So runs of one length compare alike as numbers and as fractions.
LEMMA EqualLengths ==
  ASSUME Decimal, NEW u \in DigitRuns, NEW v \in DigitRuns, Len(u) = Len(v)
  PROVE  /\ Cmp(Value(u), Value(v)) = CmpFractions(u, v)
         /\ CmpFractions(u, v) = "Equal" => SameDigits(u, v, Len(u))
<1>1. u \in RunType /\ v \in RunType /\ Len(u) \in Nat \ {0}
  BY DigitRunIs
<1>2. Smaller(Len(u), Len(v)) = Len(u)
  BY <1>1 DEF Smaller
<1>3. CASE SameDigits(u, v, Len(u))
  <2>1. Values(u)[Len(u)] = Values(v)[Len(u)] /\ Values(u)[Len(u)] \in Nat
    BY <1>1, <1>3, SameValues, ValuesAre
  <2>2. CmpFractions(u, v) = Cmp(Len(u), Len(u))
    BY <1>1, <1>2, <1>3, FractionsSame
  <2> QED
    BY <1>1, <1>3, <2>1, <2>2, CmpIs DEF Value
<1>4. ASSUME NEW k \in Nat \ {0}, k <= Len(u), k <= Len(v), SameDigits(u, v, k - 1),
             ToDigit(u[k]) # ToDigit(v[k])
      PROVE  Cmp(Value(u), Value(v)) = CmpFractions(u, v) /\ CmpFractions(u, v) # "Equal"
  <2>1. CmpFractions(u, v) = Cmp(ToDigit(u[k]), ToDigit(v[k]))
    BY <1>1, <1>4, FractionsDiffer
  <2>2. ToDigit(u[k]) \in Int /\ ToDigit(v[k]) \in Int
    <3>1. k \in 1 .. Len(u) /\ k \in 1 .. Len(v)
      BY <1>1, <1>4
    <3>2. ToDigit(u[k]) \in 0 .. 9 /\ ToDigit(v[k]) \in 0 .. 9
      BY <3>1, DigitRunIs
    <3> QED
      BY <3>2
  <2>3. CASE ToDigit(u[k]) < ToDigit(v[k])
    <3>1. Value(u) < Value(v) /\ Value(u) \in Nat /\ Value(v) \in Nat
      BY <1>4, <2>3, DigitDecides
    <3> QED
      BY <2>1, <2>2, <2>3, <3>1 DEF Cmp
  <2>4. CASE ToDigit(v[k]) < ToDigit(u[k])
    <3>1. SameDigits(v, u, k - 1)
      BY <1>4 DEF SameDigits
    <3>2. Value(v) < Value(u) /\ Value(u) \in Nat /\ Value(v) \in Nat
      BY <1>4, <2>4, <3>1, DigitDecides
    <3> QED
      BY <2>1, <2>2, <2>4, <3>2 DEF Cmp
  <2> QED
    BY <1>4, <2>2, <2>3, <2>4
<1> QED
  BY <1>1, <1>2, <1>3, <1>4, RunsAre

-------------------------------------------------------------------------------
(***************************************************************************)
(* Comparing lists of tokens.                                               *)
(***************************************************************************)
\* The first n tokens of both compare equal.
AllEqual(u, v, n) == \A i \in 1 .. n : CmpTokens(u[i], v[i]) = "Equal"

LEMMA TokenDecides ==
  ASSUME NEW u \in Seq(RunType), NEW v \in Seq(RunType), NEW k \in Nat \ {0},
         k <= Len(u), k <= Len(v), AllEqual(u, v, k - 1), CmpTokens(u[k], v[k]) # "Equal"
  PROVE  TokenCmp(u, v) = CmpTokens(u[k], v[k])
<1> DEFINE n == Smaller(Len(u), Len(v))
           stops == {i \in 0 .. n - 1 : CmpTokens(At(u, i), At(v, i)) # "Equal"}
           j == k - 1
<1>1. Len(u) \in Nat /\ Len(v) \in Nat /\ n \in Nat /\ k <= n /\ j \in Nat /\ j + 1 = k
  <2>1. Len(u) \in Nat /\ Len(v) \in Nat /\ j \in Nat /\ j + 1 = k
    OBVIOUS
  <2>2. n \in Nat /\ k <= n
    BY <2>1, SmallerIs
  <2> QED
    BY <2>1, <2>2
<1> HIDE DEF n
<1>2. At(u, j) = u[k] /\ At(v, j) = v[k]
  BY <1>1 DEF At
<1>3. j \in 0 .. n - 1 /\ j \in 0 .. n /\ j # n
  BY <1>1
<1>4. j \in stops
  BY <1>2, <1>3
<1>5. ASSUME NEW p \in 0 .. n, p < j PROVE p \notin stops
  <2>1. p + 1 \in 1 .. k - 1
    BY <1>1, <1>5
  <2> QED
    BY <2>1 DEF AllEqual, At
<1>6. j = FirstStop(0, n, stops)
  <2> HIDE DEF stops, j
  <2> QED
    BY <1>1, <1>3, <1>4, <1>5, FirstStopUnique
<1>7. TokenCmp(u, v) = IF FirstStop(0, n, stops) = n THEN Cmp(Len(u), Len(v))
                       ELSE CmpTokens(At(u, FirstStop(0, n, stops)),
                                      At(v, FirstStop(0, n, stops)))
  BY DEF TokenCmp, n
<1> HIDE DEF stops, j
<1> QED
  BY <1>2, <1>3, <1>6, <1>7

LEMMA LengthDecides ==
  ASSUME NEW u \in Seq(RunType), NEW v \in Seq(RunType),
         AllEqual(u, v, Smaller(Len(u), Len(v)))
  PROVE  TokenCmp(u, v) = Cmp(Len(u), Len(v))
<1> DEFINE n == Smaller(Len(u), Len(v))
           stops == {i \in 0 .. n - 1 : CmpTokens(At(u, i), At(v, i)) # "Equal"}
<1>1. Len(u) \in Nat /\ Len(v) \in Nat /\ n \in Nat /\ AllEqual(u, v, n)
  <2>1. Len(u) \in Nat /\ Len(v) \in Nat
    OBVIOUS
  <2> QED
    BY <2>1, SmallerIs
<1> HIDE DEF n
<1>2. ASSUME NEW p \in 0 .. n, p < n PROVE p \notin stops
  <2>1. p + 1 \in 1 .. n
    BY <1>1, <1>2
  <2> QED
    BY <1>1, <2>1 DEF AllEqual, At
<1>3. n = FirstStop(0, n, stops)
  <2> HIDE DEF stops
  <2>1. n \in 0 .. n /\ 0 \in Nat /\ 0 <= n
    BY <1>1
  <2>2. \A p \in 0 .. n : p < n => p \notin stops
    BY <1>2
  <2> QED
    BY <1>1, <2>1, <2>2, FirstStopUnique
<1>4. TokenCmp(u, v) = IF FirstStop(0, n, stops) = n THEN Cmp(Len(u), Len(v))
                       ELSE CmpTokens(At(u, FirstStop(0, n, stops)),
                                      At(v, FirstStop(0, n, stops)))
  BY DEF TokenCmp, n
<1> HIDE DEF stops
<1> QED
  BY <1>3, <1>4

-------------------------------------------------------------------------------
(***************************************************************************)
(* What has been read when an item is held, and what will be at the end.    *)
(***************************************************************************)
\* No run goes on with the item held.
RunOver(s, n) == Reading(s)[n - 1].open => Digit(s, n) = NotDigit

Held(s, n) == s \in Seq(Items) /\ n \in Nat \ {0} /\ n <= Len(s) + 1

LEMMA HeldIs ==
  ASSUME NEW s, NEW n, Held(s, n)
  PROVE  /\ Len(s) \in Nat /\ n - 1 \in Nat /\ n - 1 <= Len(s)
         /\ Reading(s)[n - 1] \in ReadType /\ Reading(s)[Len(s)] \in ReadType
         /\ Tokens(s) \in Seq(RunType) /\ Len(Tokens(s)) \in Nat
         /\ Kept(Reading(s)[n - 1], Reading(s)[Len(s)])
<1>1. s \in Seq(Items) /\ Len(s) \in Nat /\ n - 1 \in Nat /\ n - 1 <= Len(s)
  BY DEF Held
<1>2. n - 1 \in 0 .. Len(s) /\ Len(s) \in 0 .. Len(s)
  BY <1>1
<1>3. Reading(s)[n - 1] \in ReadType /\ Reading(s)[Len(s)] \in ReadType
  BY <1>1, <1>2, ReadingIs
<1>4. Kept(Reading(s)[n - 1], Reading(s)[Len(s)])
  BY <1>1, Later
<1> QED
  BY <1>1, <1>3, <1>4, ReadTypeIs DEF Tokens

\* Without an item there is nothing more to read.
LEMMA AllRead ==
  ASSUME NEW s, NEW n, Held(s, n), ~ (n <= Len(s))
  PROVE  Tokens(s) = Reading(s)[n - 1].tokens
<1>1. n - 1 = Len(s)
  <2>1. Len(s) \in Nat /\ n \in Nat /\ n <= Len(s) + 1
    BY HeldIs DEF Held
  <2> QED
    BY <2>1
<1> QED
  BY <1>1 DEF Tokens

\* The item held begins a token if it is not skipped and no run goes on with it.
LEMMA TokenBegins ==
  ASSUME NEW s, NEW n, Held(s, n), n <= Len(s), RunOver(s, n), ~ Skip(s[n])
  PROVE  LET r == Reading(s)[n - 1]
             q == Reading(s)[n]
         IN  /\ q \in ReadType /\ s[n] \in Items /\ q.open = IsDigitItem(s[n])
             /\ Len(q.tokens) = Len(r.tokens) + 1
             /\ Extends(r.tokens, q.tokens) /\ Extends(r.tokens, Tokens(s))
             /\ Last(q.tokens) = <<s[n]>>
             /\ Len(r.tokens) + 1 <= Len(Tokens(s))
             /\ Tokens(s)[Len(r.tokens) + 1] \in RunType
             /\ Tokens(s)[Len(r.tokens) + 1][1] = s[n]
<1> DEFINE r == Reading(s)[n - 1]
           q == Reading(s)[n]
           u == r.tokens
           v == q.tokens
           w == Tokens(s)
<1>1. /\ r \in ReadType /\ q \in ReadType /\ q = ReadItem(r, s[n]) /\ s[n] \in Items
      /\ Held(s, n + 1) /\ (n + 1) - 1 = n
  BY ReadAt DEF Held
<1>2. ~ (r.open /\ IsDigitItem(s[n]))
  BY DEF RunOver, Digit, Some, IsDigitItem
<1>3. /\ q.open = IsDigitItem(s[n]) /\ Len(v) = Len(u) + 1
      /\ \A i \in 1 .. Len(u) : v[i] = u[i]
      /\ Last(v) = <<s[n]>>
  <2> HIDE DEF r
  <2> QED
    BY <1>1, <1>2, ReadNext
<1>4. /\ Kept(q, Reading(s)[Len(s)]) /\ w \in Seq(RunType) /\ Len(w) \in Nat
      /\ Len(u) \in Nat /\ v \in Seq(RunType) /\ Len(v) \in Nat
      /\ w = Reading(s)[Len(s)].tokens
  BY <1>1, HeldIs, ReadTypeIs DEF Tokens
<1>5. /\ Len(v) <= Len(w)
      /\ \A i \in 1 .. Len(v) : /\ Extends(v[i], w[i])
                                /\ i < Len(v) => w[i] = v[i]
  BY <1>4 DEF Kept
<1> HIDE DEF u, v, w, q, r
<1>6. Extends(u, v) /\ Extends(u, w)
  <2>1. ASSUME NEW i \in 1 .. Len(u) PROVE w[i] = u[i]
    <3>1. i \in 1 .. Len(v) /\ i < Len(v)
      BY <1>3, <1>4
    <3> QED
      BY <1>3, <1>5, <3>1
  <2> QED
    BY <1>3, <1>4, <1>5, <2>1 DEF Extends
<1>7. Len(u) + 1 \in 1 .. Len(w) /\ Len(u) + 1 \in 1 .. Len(v)
  BY <1>3, <1>4, <1>5
<1>8. w[Len(u) + 1] \in RunType /\ v[Len(u) + 1] = <<s[n]>>
  BY <1>3, <1>4, <1>7 DEF Last
<1>9. w[Len(u) + 1][1] = s[n]
  <2>1. Extends(<<s[n]>>, w[Len(u) + 1])
    BY <1>5, <1>7, <1>8
  <2>2. Len(<<s[n]>>) = 1 /\ <<s[n]>>[1] = s[n] /\ 1 \in 1 .. 1
    OBVIOUS
  <2> QED
    BY <2>1, <2>2 DEF Extends
<1> QED
  BY <1>1, <1>3, <1>6, <1>7, <1>8, <1>9 DEF u, v, w, q, r

\* Where no run goes on, what has been read will stay.
LEMMA RunsKept ==
  ASSUME NEW s, NEW n, Held(s, n), RunOver(s, n)
  PROVE  Extends(Reading(s)[n - 1].tokens, Tokens(s))
<1> DEFINE r == Reading(s)[n - 1]
<1>1. r \in ReadType /\ Len(r.tokens) \in Nat /\ Len(s) \in Nat
  BY HeldIs, ReadTypeIs
<1>2. CASE ~ (n <= Len(s))
  BY <1>1, <1>2, AllRead DEF Extends
<1>3. CASE n <= Len(s) /\ ~ Skip(s[n])
  BY <1>3, TokenBegins
<1>4. CASE n <= Len(s) /\ Skip(s[n])
  <2> DEFINE q == Reading(s)[n]
  <2>1. /\ q \in ReadType /\ q = ReadItem(r, s[n]) /\ s[n] \in Items
        /\ Held(s, n + 1) /\ (n + 1) - 1 = n
    BY <1>4, ReadAt DEF Held
  <2>2. ~ (r.open /\ IsDigitItem(s[n]))
    BY <1>4 DEF RunOver, Digit, Some, IsDigitItem
  <2>3. q.tokens = r.tokens /\ ~ q.open
    <3> HIDE DEF r
    <3> QED
      BY <1>1, <1>4, <2>1, <2>2, ReadSkipped
  <2>4. Kept(q, Reading(s)[Len(s)])
    BY <2>1, HeldIs
  <2> QED
    BY <2>3, <2>4 DEF Kept, Extends, Tokens
<1> QED
  BY <1>2, <1>3, <1>4

\* A run that goes on with the item held.
LEMMA RunGoesOn ==
  ASSUME NEW s, NEW n, Held(s, n), n <= Len(s), Reading(s)[n - 1].open, IsDigitItem(s[n])
  PROVE  LET r == Reading(s)[n - 1]
             q == Reading(s)[n]
             k == Len(r.tokens)
         IN  /\ q \in ReadType /\ q.open /\ s[n] \in Items
             /\ k \in Nat \ {0} /\ Len(q.tokens) = k
             /\ \A i \in 1 .. k - 1 : q.tokens[i] = r.tokens[i]
             /\ Last(q.tokens) = Append(Last(r.tokens), s[n])
             /\ k <= Len(Tokens(s)) /\ Tokens(s)[k] \in RunType
             /\ \A i \in 1 .. k - 1 : Tokens(s)[i] = r.tokens[i]
             /\ Extends(Append(Last(r.tokens), s[n]), Tokens(s)[k])
<1> DEFINE r == Reading(s)[n - 1]
           q == Reading(s)[n]
           u == r.tokens
           v == q.tokens
           w == Tokens(s)
<1>1. /\ r \in ReadType /\ q \in ReadType /\ q = ReadItem(r, s[n]) /\ s[n] \in Items
      /\ Held(s, n + 1) /\ (n + 1) - 1 = n
  BY ReadAt DEF Held
<1>2. /\ q.open /\ Len(v) = Len(u)
      /\ \A i \in 1 .. Len(u) - 1 : v[i] = u[i]
      /\ Last(v) = Append(Last(u), s[n])
  <2>1. r.open
    OBVIOUS
  <2> HIDE DEF r
  <2> QED
    BY <1>1, <2>1, ReadOn
<1>3. /\ Kept(q, Reading(s)[Len(s)]) /\ w \in Seq(RunType) /\ Len(w) \in Nat
      /\ Len(u) \in Nat /\ Len(u) \in 1 .. Len(u)
      /\ w = Reading(s)[Len(s)].tokens
  BY <1>1, HeldIs, ReadTypeIs DEF Tokens
<1>4. /\ Len(v) <= Len(w)
      /\ \A i \in 1 .. Len(v) : /\ Extends(v[i], w[i])
                                /\ i < Len(v) => w[i] = v[i]
  BY <1>3 DEF Kept
<1> HIDE DEF u, v, w, q, r
<1>5. ASSUME NEW i \in 1 .. Len(u) - 1 PROVE w[i] = u[i]
  <2>1. i \in 1 .. Len(v) /\ i < Len(v)
    BY <1>2, <1>3
  <2> QED
    BY <1>2, <1>4, <2>1
<1>6. Len(u) \in 1 .. Len(v) /\ Len(u) \in 1 .. Len(w) /\ Len(u) \in Nat \ {0}
  BY <1>2, <1>3, <1>4
<1>7. Extends(Append(Last(u), s[n]), w[Len(u)]) /\ w[Len(u)] \in RunType
  <2>1. Last(v) = v[Len(u)]
    BY <1>2 DEF Last
  <2>2. Extends(v[Len(u)], w[Len(u)])
    BY <1>4, <1>6
  <2> QED
    BY <1>2, <1>3, <1>6, <2>1, <2>2
<1> QED
  BY <1>1, <1>2, <1>5, <1>6, <1>7 DEF u, v, w, q, r

-------------------------------------------------------------------------------
(***************************************************************************)
(* What settles the comparison, on the streams s and t with the m-th and    *)
(* the n-th item held.                                                      *)
(***************************************************************************)
LEMMA SameLength ==
  ASSUME Decimal, NEW u \in DigitRuns, NEW v \in DigitRuns, Len(u) = Len(v)
  PROVE  CmpTokens(u, v) = CmpFractions(u, v)
BY EqualLengths, DigitRunIs DEF CmpTokens

LEMMA AllEqualExtends ==
  ASSUME NEW u, NEW v, NEW x, NEW y, NEW n \in Nat, AllEqual(u, v, n),
         \A i \in 1 .. n : x[i] = u[i] /\ y[i] = v[i]
  PROVE  AllEqual(x, y, n)
BY DEF AllEqual

LEMMA AllEqualMore ==
  ASSUME NEW u, NEW v, NEW n \in Nat \ {0}, AllEqual(u, v, n - 1),
         CmpTokens(u[n], v[n]) = "Equal"
  PROVE  AllEqual(u, v, n)
<1>1. ASSUME NEW i \in 1 .. n PROVE i \in 1 .. n - 1 \/ i = n
  OBVIOUS
<1> QED
  BY <1>1 DEF AllEqual

\* Tokens have been read that compare equal, and no run goes on.
Between(s, m, t, n) ==
  /\ Held(s, m) /\ Held(t, n) /\ RunOver(s, m) /\ RunOver(t, n)
  /\ Len(Reading(s)[m - 1].tokens) = Len(Reading(t)[n - 1].tokens)
  /\ AllEqual(Reading(s)[m - 1].tokens, Reading(t)[n - 1].tokens,
              Len(Reading(s)[m - 1].tokens))

LEMMA BetweenIs ==
  ASSUME NEW s, NEW m, NEW t, NEW n, Between(s, m, t, n)
  PROVE  LET k == Len(Reading(s)[m - 1].tokens)
         IN  /\ Held(s, m) /\ Held(t, n) /\ k \in Nat
             /\ k = Len(Reading(t)[n - 1].tokens)
             /\ Tokens(s) \in Seq(RunType) /\ Tokens(t) \in Seq(RunType)
             /\ Len(Tokens(s)) \in Nat /\ Len(Tokens(t)) \in Nat
             /\ k <= Len(Tokens(s)) /\ k <= Len(Tokens(t))
             /\ AllEqual(Tokens(s), Tokens(t), k)
<1> DEFINE u == Reading(s)[m - 1].tokens
           v == Reading(t)[n - 1].tokens
           k == Len(u)
<1>1. /\ Held(s, m) /\ Held(t, n) /\ Len(v) = k /\ AllEqual(u, v, k)
      /\ Extends(u, Tokens(s)) /\ Extends(v, Tokens(t))
  BY RunsKept DEF Between
<1>2. /\ Tokens(s) \in Seq(RunType) /\ Tokens(t) \in Seq(RunType) /\ k \in Nat
      /\ Len(Tokens(s)) \in Nat /\ Len(Tokens(t)) \in Nat
  BY <1>1, HeldIs, ReadTypeIs
<1> HIDE DEF u, v
<1>3. AllEqual(Tokens(s), Tokens(t), k)
  BY <1>1, <1>2, AllEqualExtends DEF Extends
<1> QED
  BY <1>1, <1>2, <1>3 DEF Extends, u, v

LEMMA EndDecides ==
  ASSUME NEW s, NEW m, NEW t, NEW n, Between(s, m, t, n), ~ (m <= Len(s) /\ n <= Len(t)),
         ~ Skippable(s, m), ~ Skippable(t, n)
  PROVE  TokenCmp(Tokens(s), Tokens(t))
           = IF m <= Len(s) THEN "Greater" ELSE IF n <= Len(t) THEN "Less" ELSE "Equal"
<1> DEFINE k == Len(Reading(s)[m - 1].tokens)
           u == Tokens(s)
           v == Tokens(t)
<1>1. /\ Held(s, m) /\ Held(t, n) /\ k \in Nat /\ u \in Seq(RunType) /\ v \in Seq(RunType)
      /\ Len(u) \in Nat /\ Len(v) \in Nat /\ k <= Len(u) /\ k <= Len(v)
      /\ AllEqual(u, v, k) /\ k = Len(Reading(t)[n - 1].tokens)
  BY BetweenIs
<1>2. ~ (m <= Len(s)) => Len(u) = k
  BY <1>1, AllRead
<1>3. ~ (n <= Len(t)) => Len(v) = k
  BY <1>1, AllRead
<1>4. m <= Len(s) => Len(u) >= k + 1
  BY <1>1, TokenBegins DEF Between, Skippable, Some
<1>5. n <= Len(t) => Len(v) >= k + 1
  BY <1>1, TokenBegins DEF Between, Skippable, Some
<1> HIDE DEF k, u, v
<1>6. Smaller(Len(u), Len(v)) = k
  BY <1>1, <1>2, <1>3, <1>4, <1>5 DEF Smaller
<1>7. TokenCmp(u, v) = Cmp(Len(u), Len(v))
  BY <1>1, <1>6, LengthDecides
<1>8. CASE m <= Len(s)
  <2>1. Len(u) > Len(v)
    BY <1>1, <1>3, <1>4, <1>8
  <2>2. Cmp(Len(u), Len(v)) = "Greater"
    BY <1>1, <2>1 DEF Cmp
  <2> QED
    BY <1>7, <1>8, <2>2 DEF u, v
<1>9. CASE ~ (m <= Len(s)) /\ n <= Len(t)
  <2>1. Len(u) < Len(v)
    BY <1>1, <1>2, <1>5, <1>9
  <2>2. Cmp(Len(u), Len(v)) = "Less"
    BY <1>1, <2>1 DEF Cmp
  <2> QED
    BY <1>7, <1>9, <2>2 DEF u, v
<1>10. CASE ~ (m <= Len(s)) /\ ~ (n <= Len(t))
  <2>1. Len(u) = Len(v)
    BY <1>2, <1>3, <1>10
  <2>2. Cmp(Len(u), Len(v)) = "Equal"
    BY <1>1, <2>1, CmpIs
  <2> QED
    BY <1>7, <1>10, <2>2 DEF u, v
<1> QED
  BY <1>8, <1>9, <1>10

\* The next tokens, which the items held begin.
LEMMA NextDecides ==
  ASSUME NEW s, NEW m, NEW t, NEW n, Between(s, m, t, n), m <= Len(s), n <= Len(t),
         ~ Skippable(s, m), ~ Skippable(t, n)
  PROVE  \E u, v \in RunType :
           /\ u[1] = s[m] /\ v[1] = t[n]
           /\ CmpTokens(u, v) # "Equal" => TokenCmp(Tokens(s), Tokens(t)) = CmpTokens(u, v)
<1> DEFINE k == Len(Reading(s)[m - 1].tokens) + 1
           x == Tokens(s)
           y == Tokens(t)
<1>1. /\ Held(s, m) /\ Held(t, n) /\ k - 1 \in Nat /\ k \in Nat \ {0}
      /\ x \in Seq(RunType) /\ y \in Seq(RunType)
      /\ AllEqual(x, y, k - 1) /\ k = Len(Reading(t)[n - 1].tokens) + 1
  <2> DEFINE j == Len(Reading(s)[m - 1].tokens)
  <2>1. /\ Held(s, m) /\ Held(t, n) /\ j \in Nat /\ x \in Seq(RunType) /\ y \in Seq(RunType)
        /\ AllEqual(x, y, j) /\ j = Len(Reading(t)[n - 1].tokens)
    BY BetweenIs
  <2> HIDE DEF j
  <2>2. (j + 1) - 1 = j /\ j + 1 \in Nat \ {0}
    BY <2>1
  <2> QED
    BY <2>1, <2>2 DEF j
<1>2. k <= Len(x) /\ x[k] \in RunType /\ x[k][1] = s[m]
  BY <1>1, TokenBegins DEF Between, Skippable, Some
<1>3. k <= Len(y) /\ y[k] \in RunType /\ y[k][1] = t[n]
  BY <1>1, TokenBegins DEF Between, Skippable, Some
<1> HIDE DEF k, x, y
<1>4. CmpTokens(x[k], y[k]) # "Equal" => TokenCmp(x, y) = CmpTokens(x[k], y[k])
  BY <1>1, <1>2, <1>3, TokenDecides
<1> QED
  BY <1>2, <1>3, <1>4 DEF x, y

LEMMA ItemsDecide ==
  ASSUME NEW s, NEW m, NEW t, NEW n, Between(s, m, t, n), m <= Len(s), n <= Len(t),
         ~ Skippable(s, m), ~ Skippable(t, n),
         ~ (IsDigitItem(s[m]) /\ IsDigitItem(t[n])), CmpItems(s[m], t[n]) # "Equal"
  PROVE  TokenCmp(Tokens(s), Tokens(t)) = CmpItems(s[m], t[n])
BY NextDecides DEF CmpTokens

LEMMA ZerosDecide ==
  ASSUME Decimal,
         NEW s, NEW m, NEW t, NEW n, Between(s, m, t, n), m <= Len(s), n <= Len(t),
         ~ Skippable(s, m), ~ Skippable(t, n), IsDigitItem(s[m]), IsDigitItem(t[n]),
         ToDigit(s[m]) = 0 \/ ToDigit(t[n]) = 0, ToDigit(s[m]) # ToDigit(t[n])
  PROVE  TokenCmp(Tokens(s), Tokens(t)) = Cmp(ToDigit(s[m]), ToDigit(t[n]))
<1>1. PICK u \in RunType, v \in RunType :
        /\ u[1] = s[m] /\ v[1] = t[n]
        /\ CmpTokens(u, v) # "Equal" => TokenCmp(Tokens(s), Tokens(t)) = CmpTokens(u, v)
  BY NextDecides
<1>2. u \in DigitRuns /\ v \in DigitRuns
  BY <1>1 DEF DigitRuns
<1>3. /\ Len(u) \in Nat \ {0} /\ Len(v) \in Nat \ {0}
      /\ ToDigit(u[1]) \in 0 .. 9 /\ ToDigit(v[1]) \in 0 .. 9
  BY <1>2, DigitRunIs
<1>4. SameDigits(u, v, 1 - 1)
  BY DEF SameDigits
<1>5. CmpFractions(u, v) = Cmp(ToDigit(u[1]), ToDigit(v[1]))
  BY <1>1, <1>3, <1>4, FractionsDiffer
<1>6. CmpTokens(u, v) = CmpFractions(u, v)
  BY <1>1 DEF CmpTokens
<1>7. Cmp(ToDigit(u[1]), ToDigit(v[1])) # "Equal"
  BY <1>1, <1>3, CmpIs
<1> QED
  BY <1>1, <1>5, <1>6, <1>7

\* Both runs have a leading zero and the same digits, or neither has one.
Aligned(u, v) ==
  \/ SameDigits(u, v, Len(u)) /\ ToDigit(u[1]) = 0
  \/ ToDigit(u[1]) # 0 /\ ToDigit(v[1]) # 0

\* The two last tokens read are runs of one length that go on.
Running(s, m, t, n) ==
  LET u == Reading(s)[m - 1].tokens
      v == Reading(t)[n - 1].tokens
  IN  /\ Held(s, m) /\ Held(t, n)
      /\ Reading(s)[m - 1].open /\ Reading(t)[n - 1].open
      /\ Len(u) = Len(v) /\ AllEqual(u, v, Len(u) - 1)
      /\ Len(Last(u)) = Len(Last(v))

\* The run read last of s has grown to w by the end of s.
Grown(s, m, w) ==
  LET u == Last(Reading(s)[m - 1].tokens)
  IN  /\ w \in DigitRuns /\ Extends(u, w)
      /\ RunOver(s, m) => w = u
      /\ Digit(s, m) # NotDigit => Len(w) >= Len(u) + 1 /\ w[Len(u) + 1] = s[m]

LEMMA RunGrows ==
  ASSUME NEW s, NEW m, Held(s, m), Reading(s)[m - 1].open
  PROVE  LET u == Reading(s)[m - 1].tokens
             k == Len(u)
         IN  /\ u \in Seq(RunType) /\ k \in Nat \ {0} /\ Last(u) \in DigitRuns
             /\ k <= Len(Tokens(s))
             /\ \A i \in 1 .. k - 1 : Tokens(s)[i] = u[i]
             /\ Grown(s, m, Tokens(s)[k])
<1> DEFINE r == Reading(s)[m - 1]
           u == r.tokens
           k == Len(u)
           w == Tokens(s)
<1>1. /\ r \in ReadType /\ Kept(r, Reading(s)[Len(s)])
      /\ w \in Seq(RunType) /\ Len(w) \in Nat /\ w = Reading(s)[Len(s)].tokens
  BY HeldIs DEF Tokens
<1>2. /\ u \in Seq(RunType) /\ k \in Nat /\ k \in 1 .. k
      /\ Last(u) \in RunType /\ IsDigitItem(Last(u)[1])
  BY <1>1, ReadTypeIs
<1>3. /\ k <= Len(w)
      /\ \A i \in 1 .. k : Extends(u[i], w[i]) /\ (i < k => w[i] = u[i])
  BY <1>1 DEF Kept
<1>4. RunOver(s, m) => Extends(u, w)
  BY RunsKept
<1>5. Digit(s, m) # NotDigit => Extends(Append(Last(u), s[m]), w[k])
  <2>1. ASSUME Digit(s, m) # NotDigit PROVE m <= Len(s) /\ IsDigitItem(s[m])
    BY <2>1 DEF Digit, Some, IsDigitItem
  <2> QED
    BY <2>1, RunGoesOn
<1> HIDE DEF r, u, k, w
<1>6. /\ k \in 1 .. Len(w) /\ w[k] \in RunType /\ k \in Nat \ {0}
      /\ \A i \in 1 .. k - 1 : w[i] = u[i]
  BY <1>1, <1>2, <1>3
<1>7. Last(u) = u[k]
  BY DEF Last, k
<1>8. Extends(Last(u), w[k])
  BY <1>2, <1>3, <1>7
<1>9. Len(Last(u)) \in Nat \ {0} /\ Last(u) \in Seq(Items)
  BY <1>2, RunIs
<1>10. w[k][1] = Last(u)[1]
  <2>1. 1 \in 1 .. Len(Last(u))
    BY <1>9
  <2> QED
    BY <1>8, <2>1 DEF Extends
<1>11. w[k] \in DigitRuns /\ Last(u) \in DigitRuns
  BY <1>2, <1>6, <1>10 DEF DigitRuns
<1>12. RunOver(s, m) => w[k] = Last(u)
  BY <1>2, <1>4, <1>7 DEF Extends, k
<1>13. ASSUME Digit(s, m) # NotDigit
       PROVE  Len(w[k]) >= Len(Last(u)) + 1 /\ w[k][Len(Last(u)) + 1] = s[m]
  <2> DEFINE l == Last(u)
             x == s[m]
  <2>1. Extends(Append(l, x), w[k]) /\ l \in Seq(Items) /\ Len(l) \in Nat
    BY <1>5, <1>9, <1>13
  <2> HIDE DEF l, x
  <2>2. Len(Append(l, x)) = Len(l) + 1 /\ Append(l, x)[Len(l) + 1] = x
    BY <2>1
  <2>3. Len(l) + 1 \in 1 .. Len(l) + 1 /\ Len(w[k]) \in Nat
    BY <1>6, <2>1, RunIs
  <2>4. Len(l) + 1 <= Len(w[k]) /\ w[k][Len(l) + 1] = x
    BY <2>1, <2>2, <2>3 DEF Extends
  <2> QED
    BY <2>1, <2>3, <2>4 DEF l, x
<1> QED
  BY <1>2, <1>3, <1>6, <1>8, <1>11, <1>12, <1>13 DEF Grown, r, u, k, w

\* The runs, grown to their ends, decide.
LEMMA RunDecides ==
  ASSUME NEW s, NEW m, NEW t, NEW n, Running(s, m, t, n)
  PROVE  \E w, z \in DigitRuns :
           /\ Grown(s, m, w) /\ Grown(t, n, z)
           /\ CmpTokens(w, z) # "Equal" => TokenCmp(Tokens(s), Tokens(t)) = CmpTokens(w, z)
<1> DEFINE u == Reading(s)[m - 1].tokens
           v == Reading(t)[n - 1].tokens
           k == Len(u)
           x == Tokens(s)
           y == Tokens(t)
<1>1. /\ Held(s, m) /\ Held(t, n) /\ Len(v) = k /\ AllEqual(u, v, k - 1)
      /\ Reading(s)[m - 1].open /\ Reading(t)[n - 1].open
  BY DEF Running
<1>2. /\ k \in Nat \ {0} /\ k <= Len(x) /\ \A i \in 1 .. k - 1 : x[i] = u[i]
      /\ Grown(s, m, x[k])
  BY <1>1, RunGrows
<1>3. /\ k <= Len(y) /\ \A i \in 1 .. k - 1 : y[i] = v[i]
      /\ Grown(t, n, y[k])
  BY <1>1, RunGrows
<1>4. x \in Seq(RunType) /\ y \in Seq(RunType)
  BY <1>1, HeldIs
<1> HIDE DEF u, v, k, x, y
<1>5. AllEqual(x, y, k - 1)
  <2>1. k - 1 \in Nat
    BY <1>2
  <2> QED
    BY <1>1, <1>2, <1>3, <2>1, AllEqualExtends
<1>6. CmpTokens(x[k], y[k]) # "Equal" => TokenCmp(x, y) = CmpTokens(x[k], y[k])
  BY <1>2, <1>3, <1>4, <1>5, TokenDecides
<1>7. x[k] \in DigitRuns /\ y[k] \in DigitRuns
  BY <1>2, <1>3 DEF Grown
<1> QED
  BY <1>2, <1>3, <1>6, <1>7 DEF x, y

LEMMA LongerRun ==
  ASSUME Decimal, NEW u \in DigitRuns, NEW v \in DigitRuns, NEW w \in DigitRuns,
         Len(u) = Len(v), Aligned(u, v) \/ Aligned(v, u), Extends(u, w), Len(w) >= Len(u) + 1
  PROVE  CmpTokens(w, v) = "Greater" /\ CmpTokens(v, w) = "Less"
<1>1. /\ Len(u) \in Nat \ {0} /\ Len(w) \in Nat \ {0} /\ Len(v) < Len(w)
      /\ 1 \in 1 .. Len(u) /\ u \in RunType /\ v \in RunType /\ w \in RunType
      /\ IsDigitItem(v[1]) /\ IsDigitItem(w[1])
      /\ \A i \in 1 .. Len(u) : w[i] = u[i]
  <2>1. /\ Len(u) \in Nat \ {0} /\ Len(w) \in Nat \ {0} /\ Len(v) \in Nat \ {0}
        /\ u \in RunType /\ v \in RunType /\ w \in RunType
        /\ IsDigitItem(v[1]) /\ IsDigitItem(w[1])
    BY DigitRunIs
  <2> QED
    BY <2>1 DEF Extends
<1>2. CASE ToDigit(u[1]) # 0 /\ ToDigit(v[1]) # 0
  <2>1. Value(v) < Value(w) /\ Value(v) \in Nat /\ Value(w) \in Nat
    BY <1>1, <1>2, ShorterIsLess
  <2>2. Cmp(Value(w), Value(v)) = "Greater" /\ Cmp(Value(v), Value(w)) = "Less"
    BY <2>1 DEF Cmp
  <2> QED
    BY <1>1, <1>2, <2>2 DEF CmpTokens
<1>3. CASE SameDigits(u, v, Len(u)) /\ (ToDigit(u[1]) = 0 \/ ToDigit(v[1]) = 0)
  <2>1. SameDigits(w, v, Len(v)) /\ SameDigits(v, w, Len(v)) /\ ToDigit(v[1]) = 0
    BY <1>1, <1>3 DEF SameDigits
  <2>2. Smaller(Len(w), Len(v)) = Len(v) /\ Smaller(Len(v), Len(w)) = Len(v)
    BY <1>1 DEF Smaller
  <2>3. CmpFractions(w, v) = Cmp(Len(w), Len(v)) /\ CmpFractions(v, w) = Cmp(Len(v), Len(w))
    BY <1>1, <2>1, <2>2, FractionsSame
  <2>4. Cmp(Len(w), Len(v)) = "Greater" /\ Cmp(Len(v), Len(w)) = "Less"
    BY <1>1 DEF Cmp
  <2> QED
    BY <1>1, <2>1, <2>3, <2>4 DEF CmpTokens
<1> QED
  BY <1>2, <1>3 DEF Aligned, SameDigits

\* The items held are digits, and they differ: the first difference of two fractions.
LEMMA DigitsDecide ==
  ASSUME Decimal, NEW s, NEW m, NEW t, NEW n, Running(s, m, t, n),
         Digit(s, m) # NotDigit, Digit(t, n) # NotDigit, Digit(s, m) # Digit(t, n),
         LET u == Last(Reading(s)[m - 1].tokens)
             v == Last(Reading(t)[n - 1].tokens)
         IN  SameDigits(u, v, Len(u)) /\ ToDigit(u[1]) = 0
  PROVE  TokenCmp(Tokens(s), Tokens(t)) = Cmp(Digit(s, m), Digit(t, n))
<1> DEFINE u == Last(Reading(s)[m - 1].tokens)
           v == Last(Reading(t)[n - 1].tokens)
           x == s[m]
           y == t[n]
<1>1. /\ u \in DigitRuns /\ v \in DigitRuns /\ Len(u) = Len(v)
      /\ SameDigits(u, v, Len(u)) /\ ToDigit(u[1]) = 0
  BY RunGrows DEF Running
<1>2. PICK w \in DigitRuns, z \in DigitRuns :
        /\ Grown(s, m, w) /\ Grown(t, n, z)
        /\ CmpTokens(w, z) # "Equal" => TokenCmp(Tokens(s), Tokens(t)) = CmpTokens(w, z)
  BY RunDecides
<1>3. /\ Extends(u, w) /\ Extends(v, z) /\ Len(w) >= Len(u) + 1 /\ w[Len(u) + 1] = x
      /\ Len(z) >= Len(v) + 1 /\ z[Len(v) + 1] = y
  BY <1>2 DEF Grown
<1>4. Digit(s, m) = ToDigit(x) /\ Digit(t, n) = ToDigit(y)
  BY DEF Digit
<1> HIDE DEF u, v, x, y
<1>5. /\ Len(u) \in Nat \ {0} /\ Len(w) \in Nat \ {0} /\ Len(z) \in Nat \ {0}
      /\ w \in RunType /\ z \in RunType /\ 1 \in 1 .. Len(u)
      /\ \A i \in 1 .. Len(w) : ToDigit(w[i]) \in 0 .. 9
      /\ \A i \in 1 .. Len(z) : ToDigit(z[i]) \in 0 .. 9
      /\ IsDigitItem(w[1]) /\ IsDigitItem(z[1])
  <2>1. Len(u) \in Nat \ {0} /\ Len(w) \in Nat \ {0} /\ Len(z) \in Nat \ {0}
    BY <1>1, <1>2, DigitRunIs
  <2> QED
    BY <1>2, <2>1, DigitRunIs
<1>6. SameDigits(w, z, Len(u)) /\ ToDigit(w[1]) = 0
  BY <1>1, <1>3, <1>5 DEF SameDigits, Extends
<1> DEFINE k == Len(u) + 1
<1>7. /\ k \in Nat \ {0} /\ k <= Len(w) /\ k <= Len(z) /\ k - 1 = Len(u)
      /\ w[k] = x /\ z[k] = y /\ k \in 1 .. Len(w) /\ k \in 1 .. Len(z)
  BY <1>1, <1>3, <1>5
<1> HIDE DEF k
<1>8. ToDigit(w[k]) # ToDigit(z[k]) /\ SameDigits(w, z, k - 1)
  BY <1>4, <1>6, <1>7
<1>9. CmpFractions(w, z) = Cmp(ToDigit(x), ToDigit(y))
  BY <1>5, <1>7, <1>8, FractionsDiffer
<1>10. CmpTokens(w, z) = CmpFractions(w, z)
  BY <1>5, <1>6 DEF CmpTokens
<1>11. ToDigit(x) \in Int /\ ToDigit(y) \in Int
  <2>1. ToDigit(w[k]) \in 0 .. 9 /\ ToDigit(z[k]) \in 0 .. 9
    BY <1>5, <1>7
  <2> QED
    BY <1>7, <2>1
<1>12. Cmp(ToDigit(x), ToDigit(y)) # "Equal"
  BY <1>4, <1>11, CmpIs
<1> QED
  BY <1>2, <1>4, <1>9, <1>10, <1>12

\* One run goes on where the other has ended.
LEMMA LongerDecides ==
  ASSUME Decimal, NEW s, NEW m, NEW t, NEW n, Running(s, m, t, n),
         (Digit(s, m) = NotDigit) # (Digit(t, n) = NotDigit),
         Aligned(Last(Reading(s)[m - 1].tokens), Last(Reading(t)[n - 1].tokens))
  PROVE  TokenCmp(Tokens(s), Tokens(t)) = IF Digit(t, n) = NotDigit THEN "Greater" ELSE "Less"
<1> DEFINE u == Last(Reading(s)[m - 1].tokens)
           v == Last(Reading(t)[n - 1].tokens)
<1>1. u \in DigitRuns /\ v \in DigitRuns /\ Len(u) = Len(v) /\ Aligned(u, v)
  BY RunGrows DEF Running
<1>2. PICK w \in DigitRuns, z \in DigitRuns :
        /\ Grown(s, m, w) /\ Grown(t, n, z)
        /\ CmpTokens(w, z) # "Equal" => TokenCmp(Tokens(s), Tokens(t)) = CmpTokens(w, z)
  BY RunDecides
<1>3. CASE Digit(t, n) = NotDigit
  <2>1. Extends(u, w) /\ Len(w) >= Len(u) + 1 /\ z = v
    BY <1>2, <1>3 DEF Grown, RunOver
  <2> HIDE DEF u, v
  <2>2. CmpTokens(w, z) = "Greater"
    BY <1>1, <1>2, <2>1, LongerRun
  <2> QED
    BY <1>2, <1>3, <2>2
<1>4. CASE Digit(t, n) # NotDigit
  <2>1. Extends(v, z) /\ Len(z) >= Len(v) + 1 /\ w = u
    BY <1>2, <1>4 DEF Grown, RunOver
  <2> HIDE DEF u, v
  <2>2. CmpTokens(w, z) = "Less"
    BY <1>1, <1>2, <2>1, LongerRun
  <2> QED
    BY <1>2, <1>4, <2>2
<1> QED
  BY <1>3, <1>4

\* Both runs have ended, and they differ.
LEMMA RunsDecide ==
  ASSUME Decimal, NEW s, NEW m, NEW t, NEW n, Running(s, m, t, n),
         Digit(s, m) = NotDigit, Digit(t, n) = NotDigit, NEW order, order # "Equal",
         order = CmpFractions(Last(Reading(s)[m - 1].tokens), Last(Reading(t)[n - 1].tokens))
  PROVE  TokenCmp(Tokens(s), Tokens(t)) = order
<1> DEFINE u == Last(Reading(s)[m - 1].tokens)
           v == Last(Reading(t)[n - 1].tokens)
<1>1. u \in DigitRuns /\ v \in DigitRuns /\ Len(u) = Len(v)
  BY RunGrows DEF Running
<1>2. CmpTokens(u, v) # "Equal" => TokenCmp(Tokens(s), Tokens(t)) = CmpTokens(u, v)
  BY RunDecides DEF Grown, RunOver
<1> HIDE DEF u, v
<1>3. CmpTokens(u, v) = CmpFractions(u, v)
  BY <1>1, SameLength
<1> QED
  BY <1>2, <1>3 DEF u, v

-------------------------------------------------------------------------------
(***************************************************************************)
(* Reading on: Between and Running are kept by the steps that read.         *)
(***************************************************************************)
\* Runs of one length, without a difference or with a first one.
LEMMA EqualFractions ==
  ASSUME NEW u \in RunType, NEW v \in RunType, Len(u) = Len(v), SameDigits(u, v, Len(u))
  PROVE  CmpFractions(u, v) = "Equal"
<1>1. Len(u) \in Nat
  BY RunIs
<1>2. Smaller(Len(u), Len(v)) = Len(u) /\ Cmp(Len(u), Len(v)) = "Equal"
  BY <1>1, CmpIs DEF Smaller
<1> QED
  BY <1>2, FractionsSame

\* The first difference stays the first when both runs grow by a digit.
LEMMA FractionsAppend ==
  ASSUME Decimal, NEW u \in DigitRuns, NEW v \in DigitRuns, Len(u) = Len(v),
         NEW x \in Items, NEW y \in Items,
         Append(u, x) \in DigitRuns, Append(v, y) \in DigitRuns
  PROVE  CmpFractions(Append(u, x), Append(v, y))
           = IF CmpFractions(u, v) = "Equal"
             THEN Cmp(ToDigit(x), ToDigit(y)) ELSE CmpFractions(u, v)
<1> DEFINE k == Len(u) + 1
           w == Append(u, x)
           z == Append(v, y)
<1>0. w \in DigitRuns /\ z \in DigitRuns /\ w = Append(u, x) /\ z = Append(v, y)
  OBVIOUS
<1> HIDE DEF w, z
<1>1. /\ u \in RunType /\ v \in RunType /\ w \in RunType /\ z \in RunType
      /\ Len(u) \in Nat \ {0} /\ u \in Seq(Items) /\ v \in Seq(Items)
      /\ \A i \in 1 .. Len(u) : ToDigit(u[i]) \in 0 .. 9
      /\ \A i \in 1 .. Len(v) : ToDigit(v[i]) \in 0 .. 9
      /\ \A i \in 1 .. Len(w) : ToDigit(w[i]) \in 0 .. 9
      /\ \A i \in 1 .. Len(z) : ToDigit(z[i]) \in 0 .. 9
  <2>1. u \in RunType /\ v \in RunType /\ w \in RunType /\ z \in RunType
        /\ Len(u) \in Nat \ {0}
    BY <1>0, DigitRunIs
  <2>2. u \in Seq(Items) /\ v \in Seq(Items)
    BY <2>1, RunIs
  <2> QED
    BY <1>0, <2>1, <2>2, DigitRunIs
<1>2. /\ Len(w) = k /\ Len(z) = k /\ k \in Nat \ {0} /\ k - 1 = Len(u) /\ k \in 1 .. k
      /\ w[k] = x /\ z[k] = y
      /\ \A i \in 1 .. Len(u) : w[i] = u[i] /\ z[i] = v[i]
  BY <1>0, <1>1
<1> HIDE DEF k
<1>3. ToDigit(x) \in Int /\ ToDigit(y) \in Int
  <2>1. ToDigit(w[k]) \in 0 .. 9 /\ ToDigit(z[k]) \in 0 .. 9
    BY <1>1, <1>2
  <2> QED
    BY <1>2, <2>1
<1>4. CASE SameDigits(u, v, Len(u))
  <2>1. CmpFractions(u, v) = "Equal"
    BY <1>1, <1>4, EqualFractions
  <2>2. SameDigits(w, z, k - 1)
    BY <1>2, <1>4 DEF SameDigits
  <2>3. CASE ToDigit(x) # ToDigit(y)
    <3>1. CmpFractions(w, z) = Cmp(ToDigit(x), ToDigit(y))
      <4>1. k <= Len(w) /\ k <= Len(z) /\ ToDigit(w[k]) # ToDigit(z[k])
        BY <1>2, <2>3
      <4>2. CmpFractions(w, z) = Cmp(ToDigit(w[k]), ToDigit(z[k]))
        BY <1>1, <1>2, <2>2, <4>1, FractionsDiffer
      <4> QED
        BY <1>2, <4>2
    <3> QED
      BY <2>1, <3>1 DEF w, z
  <2>4. CASE ToDigit(x) = ToDigit(y)
    <3>1. SameDigits(w, z, Len(w))
      <4> SUFFICES ASSUME NEW i \in 1 .. k PROVE ToDigit(w[i]) = ToDigit(z[i])
        BY <1>2 DEF SameDigits
      <4>1. i = k \/ i \in 1 .. k - 1
        BY <1>2
      <4> QED
        BY <1>2, <2>2, <2>4, <4>1 DEF SameDigits
    <3>2. CmpFractions(w, z) = "Equal"
      BY <1>1, <1>2, <3>1, EqualFractions
    <3> QED
      BY <1>3, <2>1, <2>4, <3>2, CmpIs DEF w, z
  <2> QED
    BY <2>3, <2>4
<1>5. ASSUME NEW j \in Nat \ {0}, j <= Len(u), j <= Len(v), SameDigits(u, v, j - 1),
             ToDigit(u[j]) # ToDigit(v[j])
      PROVE  CmpFractions(w, z) = CmpFractions(u, v) /\ CmpFractions(u, v) # "Equal"
  <2>1. CmpFractions(u, v) = Cmp(ToDigit(u[j]), ToDigit(v[j]))
    BY <1>1, <1>5, FractionsDiffer
  <2>2. j \in 1 .. Len(u) /\ j \in 1 .. Len(v) /\ j <= Len(w) /\ j <= Len(z)
    BY <1>1, <1>2, <1>5
  <2>3. w[j] = u[j] /\ z[j] = v[j]
    BY <1>2, <2>2
  <2>4. SameDigits(w, z, j - 1)
    <3> SUFFICES ASSUME NEW i \in 1 .. j - 1 PROVE ToDigit(w[i]) = ToDigit(z[i])
      BY DEF SameDigits
    <3>1. i \in 1 .. Len(u)
      BY <1>1, <2>2
    <3> QED
      BY <1>2, <1>5, <3>1 DEF SameDigits
  <2>5. ToDigit(w[j]) # ToDigit(z[j])
    BY <1>5, <2>3
  <2>6. CmpFractions(w, z) = Cmp(ToDigit(w[j]), ToDigit(z[j]))
    BY <1>1, <1>5, <2>2, <2>4, <2>5, FractionsDiffer
  <2>7. ToDigit(u[j]) \in 0 .. 9 /\ ToDigit(v[j]) \in 0 .. 9
    BY <1>1, <2>2
  <2>8. Cmp(ToDigit(u[j]), ToDigit(v[j])) # "Equal"
    BY <1>5, <2>7, CmpIs
  <2> QED
    BY <2>1, <2>3, <2>6, <2>8
<1>6. Smaller(Len(u), Len(v)) = Len(u)
  BY <1>1 DEF Smaller
<1> QED
  BY <1>1, <1>4, <1>5, <1>6, RunsAre, EqualFractions DEF w, z

\* Tokens begun by two items.
LEMMA OneItem ==
  ASSUME NEW x \in Items, NEW y \in Items
  PROVE  LET u == <<x>>
             v == <<y>>
         IN  /\ u \in RunType /\ v \in RunType /\ Len(u) = 1 /\ Len(v) = 1
             /\ u[1] = x /\ v[1] = y
<1>1. \A z \in Items : /\ <<z>> \in Seq(Items) /\ Len(<<z>>) = 1 /\ <<z>>[1] = z
                       /\ <<z>> # <<>> /\ \A i \in 1 .. 1 : i = 1
  OBVIOUS
<1>2. \A z \in Items : <<z>> \in RunType
  <2> SUFFICES ASSUME NEW z \in Items PROVE <<z>> \in RunType
    OBVIOUS
  <2> DEFINE t == <<z>>
  <2>1. t \in Seq(Items) /\ t # <<>> /\ Len(t) = 1 /\ \A i \in 1 .. 1 : i = 1
    BY <1>1
  <2> HIDE DEF t
  <2>2. t \in RunType
    BY <2>1 DEF RunType
  <2> QED
    BY <2>2 DEF t
<1> QED
  BY <1>1, <1>2

\* The item held has been read as a new token, or as another digit of the last one.
NewToken(s, n) ==
  /\ Reading(s)[n].open <=> IsDigitItem(s[n])
  /\ Len(Reading(s)[n].tokens) = Len(Reading(s)[n - 1].tokens) + 1
  /\ Extends(Reading(s)[n - 1].tokens, Reading(s)[n].tokens)
  /\ Last(Reading(s)[n].tokens) = <<s[n]>>

AnotherDigit(s, n) ==
  LET u == Reading(s)[n - 1].tokens
      v == Reading(s)[n].tokens
  IN  /\ Reading(s)[n].open /\ Len(v) = Len(u) /\ Len(u) \in Nat \ {0}
      /\ \A i \in 1 .. Len(u) - 1 : v[i] = u[i]
      /\ Last(v) = Append(Last(u), s[n]) /\ s[n] \in Items

LEMMA NewTokenIs ==
  ASSUME NEW s, NEW n, Held(s, n), n <= Len(s), RunOver(s, n), ~ Skip(s[n])
  PROVE  NewToken(s, n)
BY TokenBegins DEF NewToken, Extends

LEMMA AnotherDigitIs ==
  ASSUME NEW s, NEW n, Held(s, n), n <= Len(s), Reading(s)[n - 1].open, IsDigitItem(s[n])
  PROVE  AnotherDigit(s, n)
BY RunGoesOn DEF AnotherDigit

\* Both items held are digits and begin runs.
LEMMA RunsBegin ==
  ASSUME NEW s, NEW m, NEW t, NEW n, Between(s, m, t, n), m <= Len(s), n <= Len(t),
         ~ Skippable(s, m), ~ Skippable(t, n), IsDigitItem(s[m]), IsDigitItem(t[n])
  PROVE  /\ Running(s, m + 1, t, n + 1)
         /\ Last(Reading(s)[m].tokens) = <<s[m]>> /\ Last(Reading(t)[n].tokens) = <<t[n]>>
<1> DEFINE p == Reading(s)[m - 1].tokens
           q == Reading(t)[n - 1].tokens
           u == Reading(s)[m].tokens
           v == Reading(t)[n].tokens
<1>1. /\ Held(s, m) /\ Held(t, n) /\ Len(q) = Len(p) /\ AllEqual(p, q, Len(p))
      /\ Len(p) \in Nat
  BY BetweenIs DEF Between
<1>2. /\ Reading(s)[m].open /\ Len(u) = Len(p) + 1 /\ Extends(p, u) /\ Last(u) = <<s[m]>>
  BY <1>1, NewTokenIs DEF Between, Skippable, Some, NewToken
<1>3. /\ Reading(t)[n].open /\ Len(v) = Len(q) + 1 /\ Extends(q, v) /\ Last(v) = <<t[n]>>
  BY <1>1, NewTokenIs DEF Between, Skippable, Some, NewToken
<1>4. Held(s, m + 1) /\ Held(t, n + 1) /\ (m + 1) - 1 = m /\ (n + 1) - 1 = n
  BY <1>1 DEF Held
<1>5. s[m] \in Items /\ t[n] \in Items
  BY <1>1 DEF Held
<1> HIDE DEF p, q, u, v
<1>6. AllEqual(u, v, Len(u) - 1)
  <2>1. Len(u) - 1 = Len(p) /\ \A i \in 1 .. Len(p) : u[i] = p[i] /\ v[i] = q[i]
    BY <1>1, <1>2, <1>3 DEF Extends
  <2> QED
    BY <1>1, <2>1, AllEqualExtends
<1>7. Len(Last(u)) = Len(Last(v)) /\ Len(u) = Len(v)
  BY <1>1, <1>2, <1>3, <1>5, OneItem
<1>8. Running(s, m + 1, t, n + 1)
  BY <1>2, <1>3, <1>4, <1>6, <1>7 DEF Running, u, v
<1> QED
  BY <1>2, <1>3, <1>8 DEF u, v

\* Both items held are digits and go on with their runs.
DigitsRead(s, m, t, n) ==
  /\ Running(s, m + 1, t, n + 1)
  /\ Last(Reading(s)[m].tokens) = Append(Last(Reading(s)[m - 1].tokens), s[m])
  /\ Last(Reading(t)[n].tokens) = Append(Last(Reading(t)[n - 1].tokens), t[n])

LEMMA RunsGoOn ==
  ASSUME NEW s, NEW m, NEW t, NEW n, Running(s, m, t, n),
         Digit(s, m) # NotDigit, Digit(t, n) # NotDigit
  PROVE  DigitsRead(s, m, t, n)
<1> DEFINE p == Reading(s)[m - 1].tokens
           q == Reading(t)[n - 1].tokens
           u == Reading(s)[m].tokens
           v == Reading(t)[n].tokens
<1>1. /\ Held(s, m) /\ Held(t, n) /\ Len(q) = Len(p) /\ AllEqual(p, q, Len(p) - 1)
      /\ Len(Last(p)) = Len(Last(q))
      /\ Reading(s)[m - 1].open /\ Reading(t)[n - 1].open
  BY DEF Running
<1>2. m <= Len(s) /\ n <= Len(t) /\ IsDigitItem(s[m]) /\ IsDigitItem(t[n])
  BY DEF Digit, Some, IsDigitItem
<1>3. /\ Reading(s)[m].open /\ Len(u) = Len(p) /\ Len(p) \in Nat \ {0}
      /\ \A i \in 1 .. Len(p) - 1 : u[i] = p[i]
      /\ Last(u) = Append(Last(p), s[m]) /\ s[m] \in Items
  BY <1>1, <1>2, AnotherDigitIs DEF AnotherDigit
<1>4. /\ Reading(t)[n].open /\ Len(v) = Len(q)
      /\ \A i \in 1 .. Len(q) - 1 : v[i] = q[i]
      /\ Last(v) = Append(Last(q), t[n]) /\ t[n] \in Items
  BY <1>1, <1>2, AnotherDigitIs DEF AnotherDigit
<1>5. Held(s, m + 1) /\ Held(t, n + 1) /\ (m + 1) - 1 = m /\ (n + 1) - 1 = n
  BY <1>1, <1>2 DEF Held
<1>6. Last(p) \in Seq(Items) /\ Last(q) \in Seq(Items)
  <2>1. Last(p) \in DigitRuns /\ Last(q) \in DigitRuns
    BY <1>1, RunGrows
  <2> QED
    BY <2>1, RunIs DEF DigitRuns
<1> HIDE DEF p, q, u, v
<1>7. AllEqual(u, v, Len(u) - 1)
  <2>1. Len(p) - 1 \in Nat
    BY <1>3
  <2> QED
    BY <1>1, <1>3, <1>4, <2>1, AllEqualExtends
<1>8. Len(Last(u)) = Len(Last(v))
  <2>1. \A a, b \in Seq(Items) : \A x, y \in Items :
          Len(a) = Len(b) => Len(Append(a, x)) = Len(Append(b, y))
    OBVIOUS
  <2> QED
    BY <1>1, <1>3, <1>4, <1>6, <2>1
<1>9. Running(s, m + 1, t, n + 1)
  BY <1>1, <1>3, <1>4, <1>5, <1>7, <1>8 DEF Running, u, v
<1> QED
  BY <1>3, <1>4, <1>9 DEF DigitsRead, p, q, u, v

\* Both runs have ended and are the same.
LEMMA RunsEndEqual ==
  ASSUME Decimal, NEW s, NEW m, NEW t, NEW n, Running(s, m, t, n),
         Digit(s, m) = NotDigit, Digit(t, n) = NotDigit,
         CmpFractions(Last(Reading(s)[m - 1].tokens), Last(Reading(t)[n - 1].tokens)) = "Equal"
  PROVE  Between(s, m, t, n)
<1> DEFINE u == Reading(s)[m - 1].tokens
           v == Reading(t)[n - 1].tokens
<1>1. /\ Held(s, m) /\ Held(t, n) /\ Len(v) = Len(u) /\ AllEqual(u, v, Len(u) - 1)
      /\ Len(Last(u)) = Len(Last(v)) /\ RunOver(s, m) /\ RunOver(t, n)
  BY DEF Running, RunOver
<1>2. Last(u) \in DigitRuns /\ Last(v) \in DigitRuns /\ Len(u) \in Nat \ {0}
  BY RunGrows DEF Running
<1>3. CmpFractions(Last(u), Last(v)) = "Equal"
  OBVIOUS
<1> HIDE DEF u, v
<1>4. CmpTokens(u[Len(u)], v[Len(u)]) = "Equal"
  BY <1>1, <1>2, <1>3, SameLength DEF Last
<1>5. AllEqual(u, v, Len(u))
  BY <1>1, <1>2, <1>4, AllEqualMore
<1> QED
  BY <1>1, <1>5 DEF Between, u, v

\* Two equal items, neither of them a digit, have been passed.
LEMMA ItemsPassed ==
  ASSUME NEW s, NEW m, NEW t, NEW n, Between(s, m, t, n), m <= Len(s), n <= Len(t),
         ~ Skippable(s, m), ~ Skippable(t, n), ~ IsDigitItem(s[m]), ~ IsDigitItem(t[n]),
         CmpItems(s[m], t[n]) = "Equal"
  PROVE  Between(s, m + 1, t, n + 1)
<1> DEFINE p == Reading(s)[m - 1].tokens
           q == Reading(t)[n - 1].tokens
           u == Reading(s)[m].tokens
           v == Reading(t)[n].tokens
<1>1. /\ Held(s, m) /\ Held(t, n) /\ Len(q) = Len(p) /\ AllEqual(p, q, Len(p))
      /\ Len(p) \in Nat
  BY BetweenIs DEF Between
<1>2. /\ ~ Reading(s)[m].open /\ Len(u) = Len(p) + 1 /\ Extends(p, u) /\ Last(u) = <<s[m]>>
  BY <1>1, NewTokenIs DEF Between, Skippable, Some, NewToken
<1>3. /\ ~ Reading(t)[n].open /\ Len(v) = Len(q) + 1 /\ Extends(q, v) /\ Last(v) = <<t[n]>>
  BY <1>1, NewTokenIs DEF Between, Skippable, Some, NewToken
<1>4. Held(s, m + 1) /\ Held(t, n + 1) /\ (m + 1) - 1 = m /\ (n + 1) - 1 = n
  BY <1>1 DEF Held
<1>5. s[m] \in Items /\ t[n] \in Items
  BY <1>1 DEF Held
<1> HIDE DEF p, q, u, v
<1>6. /\ Len(u) \in Nat \ {0} /\ Len(u) - 1 = Len(p)
      /\ \A i \in 1 .. Len(p) : u[i] = p[i] /\ v[i] = q[i]
  BY <1>1, <1>2, <1>3 DEF Extends
<1>7. AllEqual(u, v, Len(u) - 1)
  BY <1>1, <1>6, AllEqualExtends
<1>8. CmpTokens(u[Len(u)], v[Len(u)]) = "Equal"
  <2>1. u[Len(u)] = <<s[m]>> /\ v[Len(u)] = <<t[n]>>
    BY <1>1, <1>2, <1>3 DEF Last
  <2> QED
    BY <1>5, <2>1, OneItem DEF CmpTokens
<1>9. AllEqual(u, v, Len(u))
  BY <1>6, <1>7, <1>8, AllEqualMore
<1>10. RunOver(s, m + 1) /\ RunOver(t, n + 1)
  BY <1>2, <1>3, <1>4 DEF RunOver
<1> QED
  BY <1>1, <1>2, <1>3, <1>4, <1>9, <1>10 DEF Between, u, v

\* Passing over items without a meaning reads no token.
LEMMA SkipsAre ==
  ASSUME NEW s, NEW m, Held(s, m), RunOver(s, m)
  PROVE  LET k == Skipped(s, m)
         IN  /\ Held(s, k) /\ RunOver(s, k)
             /\ Reading(s)[k - 1].tokens = Reading(s)[m - 1].tokens
<1> DEFINE stops == {i \in 1 .. Len(s) : ~ Skip(s[i])}
           k == Skipped(s, m)
           T == Reading(s)[m - 1].tokens
           P(p) == Reading(s)[p - 1].tokens = T /\ (Reading(s)[p - 1].open => p = m)
           S == {i \in Nat : m + i <= k => P(m + i)}
<1>1. s \in Seq(Items) /\ Len(s) \in Nat /\ m \in Nat \ {0} /\ m <= Len(s) + 1
  BY DEF Held
<1>2. /\ k \in m .. Len(s) + 1
      /\ \A p \in m .. Len(s) + 1 : p < k => p \notin stops
  <2>1. m \in Nat /\ Len(s) + 1 \in Nat
    BY <1>1
  <2> HIDE DEF stops
  <2>2. LET f == FirstStop(m, Len(s) + 1, stops)
        IN  f \in m .. Len(s) + 1 /\ \A p \in m .. Len(s) + 1 : p < f => p \notin stops
    BY <1>1, <2>1, FirstStopIs
  <2> QED
    BY <2>2 DEF Skipped, stops
<1> HIDE DEF k
<1>3. 0 \in S
  BY <1>1
<1>4. ASSUME NEW i \in Nat, i \in S PROVE i + 1 \in S
  <2>1. SUFFICES ASSUME m + (i + 1) <= k PROVE P(m + (i + 1))
    OBVIOUS
  <2> DEFINE n == m + i
  <2>2. /\ n \in Nat \ {0} /\ n < k /\ n <= Len(s) /\ (m + (i + 1)) - 1 = n
        /\ n \in m .. Len(s) + 1 /\ n \in 1 .. Len(s)
    BY <1>1, <1>2, <2>1
  <2>3. P(n)
    <3> HIDE DEF P
    <3>1. n <= k
      BY <1>1, <1>2, <2>2
    <3> QED
      BY <1>4, <3>1
  <2> HIDE DEF n, T
  <2>4. Skip(s[n])
    BY <1>2, <2>2
  <2>5. ~ (Reading(s)[n - 1].open /\ IsDigitItem(s[n]))
    BY <2>2, <2>3 DEF RunOver, Digit, Some, IsDigitItem
  <2>6. /\ Reading(s)[n - 1] \in ReadType /\ s[n] \in Items
        /\ Reading(s)[n] = ReadItem(Reading(s)[n - 1], s[n])
    BY <1>1, <2>2, ReadAt
  <2>7. Reading(s)[n].tokens = T /\ ~ Reading(s)[n].open
    BY <2>3, <2>4, <2>5, <2>6, ReadSkipped
  <2> QED
    BY <2>2, <2>7
<1> DEFINE j == k - m
<1>5. j \in Nat /\ m + j = k
  BY <1>1, <1>2
<1>6. j \in S
  <2> HIDE DEF S, j
  <2> QED
    BY <1>3, <1>4, <1>5, Induction
<1>7. P(k)
  <2> HIDE DEF P, j
  <2>1. m + j <= k
    BY <1>1, <1>2, <1>5
  <2> QED
    BY <1>5, <1>6, <2>1
<1>8. Held(s, k) /\ RunOver(s, k)
  BY <1>1, <1>2, <1>7 DEF Held, RunOver
<1> QED
  BY <1>7, <1>8 DEF k

LEMMA SkipsBetween ==
  ASSUME NEW s, NEW m, NEW t, NEW n, Between(s, m, t, n)
  PROVE  Between(s, Skipped(s, m), t, Skipped(t, n))
BY SkipsAre DEF Between

\* Nothing has been read of streams whose first items are held.
LEMMA FirstItems ==
  ASSUME NEW s \in Seq(Items), NEW t \in Seq(Items)
  PROVE  Between(s, 1, t, 1)
<1>1. Held(s, 1) /\ Held(t, 1) /\ 1 - 1 = 0
  <2>1. Len(s) \in Nat /\ Len(t) \in Nat
    OBVIOUS
  <2> QED
    BY <2>1 DEF Held
<1>2. Reading(s)[0] = Nothing /\ Reading(t)[0] = Nothing
  BY ReadingIs
<1>3. Nothing.tokens = <<>> /\ Nothing.open = FALSE /\ Len(<<>>) = 0
  BY DEF Nothing
<1> QED
  BY <1>1, <1>2, <1>3 DEF Between, RunOver, AllEqual

-------------------------------------------------------------------------------
(***************************************************************************)
(* The invariant: what has been read when an item is held, at every place   *)
(* of the code.                                                             *)
(***************************************************************************)
ReadSoFar(place, order, s, m, t, n) ==
  LET u == Last(Reading(s)[m - 1].tokens)
      v == Last(Reading(t)[n - 1].tokens)
  IN  /\ place = "items" => Between(s, m, t, n)
      /\ place = "digits_left" =>
           Running(s, m, t, n) /\ SameDigits(u, v, Len(u)) /\ ToDigit(u[1]) = 0
      /\ place = "digits_right" =>
           /\ Running(s, m, t, n) /\ ToDigit(u[1]) # 0 /\ ToDigit(v[1]) # 0
           /\ order = CmpFractions(u, v)

RInv ==
  /\ IInv
  /\ pc = "start" => nl = 0 /\ nr = 0
  /\ ReadSoFar(pc, lastcmp, left, nl, right, nr)
  /\ IterIsNatural

\* Two items between which cmp sees no difference are both digits or both none.
Alike == \A x, y \in Items : CmpItems(x, y) = "Equal" => (IsDigitItem(x) <=> IsDigitItem(y))

LEMMA BeginLeft ==
  ASSUME NEW s, NEW m, NEW t, NEW n, NEW order,
         Between(s, m, t, n), m <= Len(s), n <= Len(t),
         ~ Skippable(s, m), ~ Skippable(t, n), IsDigitItem(s[m]), IsDigitItem(t[n]),
         ToDigit(s[m]) = 0, ToDigit(t[n]) = 0
  PROVE  ReadSoFar("digits_left", order, s, m + 1, t, n + 1)
<1> DEFINE u == Last(Reading(s)[m].tokens)
           v == Last(Reading(t)[n].tokens)
<1>1. Running(s, m + 1, t, n + 1) /\ u = <<s[m]>> /\ v = <<t[n]>>
  BY RunsBegin
<1>2. s[m] \in Items /\ t[n] \in Items /\ (m + 1) - 1 = m /\ (n + 1) - 1 = n
  BY DEF Between, Held
<1> HIDE DEF u, v
<1>3. Len(u) = 1 /\ u[1] = s[m] /\ v[1] = t[n]
  BY <1>1, <1>2, OneItem
<1>4. SameDigits(u, v, Len(u)) /\ ToDigit(u[1]) = 0
  BY <1>3 DEF SameDigits
<1> QED
  BY <1>1, <1>2, <1>4 DEF ReadSoFar, u, v

LEMMA BeginRight ==
  ASSUME Decimal, NEW s, NEW m, NEW t, NEW n, Between(s, m, t, n), m <= Len(s), n <= Len(t),
         ~ Skippable(s, m), ~ Skippable(t, n), IsDigitItem(s[m]), IsDigitItem(t[n]),
         ToDigit(s[m]) # 0, ToDigit(t[n]) # 0
  PROVE  ReadSoFar("digits_right", Cmp(ToDigit(s[m]), ToDigit(t[n])), s, m + 1, t, n + 1)
<1> DEFINE u == Last(Reading(s)[m].tokens)
           v == Last(Reading(t)[n].tokens)
<1>1. Running(s, m + 1, t, n + 1) /\ u = <<s[m]>> /\ v = <<t[n]>>
  BY RunsBegin
<1>2. s[m] \in Items /\ t[n] \in Items /\ (m + 1) - 1 = m /\ (n + 1) - 1 = n
  BY DEF Between, Held
<1> HIDE DEF u, v
<1>3. /\ u \in RunType /\ v \in RunType /\ Len(u) = 1 /\ Len(v) = 1
      /\ u[1] = s[m] /\ v[1] = t[n]
  BY <1>1, <1>2, OneItem
<1>4. ToDigit(u[1]) \in Int /\ ToDigit(v[1]) \in Int
  BY <1>2, <1>3 DEF Decimal
<1>5. CmpFractions(u, v) = Cmp(ToDigit(u[1]), ToDigit(v[1]))
  <2>1. CASE ToDigit(u[1]) = ToDigit(v[1])
    <3>1. SameDigits(u, v, Len(u))
      BY <1>3, <2>1 DEF SameDigits
    <3> QED
      BY <1>3, <1>4, <2>1, <3>1, EqualFractions, CmpIs
  <2>2. CASE ToDigit(u[1]) # ToDigit(v[1])
    <3>1. SameDigits(u, v, 1 - 1)
      BY DEF SameDigits
    <3> QED
      BY <1>3, <2>2, <3>1, FractionsDiffer
  <2> QED
    BY <2>1, <2>2
<1> QED
  BY <1>1, <1>2, <1>3, <1>5 DEF ReadSoFar, u, v

LEMMA GoOnLeft ==
  ASSUME NEW s, NEW m, NEW t, NEW n, NEW order, ReadSoFar("digits_left", order, s, m, t, n),
         Digit(s, m) # NotDigit, Digit(t, n) # NotDigit, Digit(s, m) = Digit(t, n)
  PROVE  ReadSoFar("digits_left", order, s, m + 1, t, n + 1)
<1> DEFINE u == Last(Reading(s)[m - 1].tokens)
           v == Last(Reading(t)[n - 1].tokens)
           w == Last(Reading(s)[m].tokens)
           z == Last(Reading(t)[n].tokens)
           x == s[m]
           y == t[n]
<1>1. Running(s, m, t, n) /\ SameDigits(u, v, Len(u)) /\ ToDigit(u[1]) = 0
  BY DEF ReadSoFar
<1>2. Running(s, m + 1, t, n + 1) /\ w = Append(u, x) /\ z = Append(v, y)
  <2>1. DigitsRead(s, m, t, n)
    BY <1>1, RunsGoOn
  <2> QED
    BY <2>1 DEF DigitsRead
<1>3. u \in DigitRuns /\ v \in DigitRuns /\ Len(u) = Len(v)
  BY <1>1, RunGrows DEF Running
<1>4. /\ ToDigit(x) = ToDigit(y) /\ x \in Items /\ y \in Items
      /\ (m + 1) - 1 = m /\ (n + 1) - 1 = n
  BY <1>1 DEF Digit, Some, Running, Held
<1> HIDE DEF u, v, w, z, x, y
<1>5. u \in Seq(Items) /\ v \in Seq(Items) /\ Len(u) \in Nat \ {0}
  BY <1>3, RunIs DEF DigitRuns
<1>6. /\ Len(w) = Len(u) + 1 /\ w[Len(u) + 1] = x /\ z[Len(u) + 1] = y /\ w[1] = u[1]
      /\ \A i \in 1 .. Len(u) : w[i] = u[i] /\ z[i] = v[i]
  BY <1>2, <1>3, <1>4, <1>5
<1>7. SameDigits(w, z, Len(w))
  <2> SUFFICES ASSUME NEW i \in 1 .. Len(u) + 1 PROVE ToDigit(w[i]) = ToDigit(z[i])
    BY <1>6 DEF SameDigits
  <2>1. i = Len(u) + 1 \/ i \in 1 .. Len(u)
    BY <1>5
  <2> QED
    BY <1>1, <1>4, <1>6, <2>1 DEF SameDigits
<1> QED
  BY <1>1, <1>2, <1>4, <1>6, <1>7 DEF ReadSoFar, w, z

LEMMA GoOnRight ==
  ASSUME Decimal,
         NEW s, NEW m, NEW t, NEW n, NEW order, ReadSoFar("digits_right", order, s, m, t, n),
         Digit(s, m) # NotDigit, Digit(t, n) # NotDigit
  PROVE  ReadSoFar("digits_right",
                   IF order = "Equal" THEN Cmp(Digit(s, m), Digit(t, n)) ELSE order,
                   s, m + 1, t, n + 1)
<1> DEFINE u == Last(Reading(s)[m - 1].tokens)
           v == Last(Reading(t)[n - 1].tokens)
           w == Last(Reading(s)[m].tokens)
           z == Last(Reading(t)[n].tokens)
           x == s[m]
           y == t[n]
<1>1. /\ Running(s, m, t, n) /\ ToDigit(u[1]) # 0 /\ ToDigit(v[1]) # 0
      /\ order = CmpFractions(u, v)
  BY DEF ReadSoFar
<1>2. Running(s, m + 1, t, n + 1) /\ w = Append(u, x) /\ z = Append(v, y)
  <2>1. DigitsRead(s, m, t, n)
    BY <1>1, RunsGoOn
  <2> QED
    BY <2>1 DEF DigitsRead
<1>3. u \in DigitRuns /\ v \in DigitRuns /\ Len(u) = Len(v)
  BY <1>1, RunGrows DEF Running
<1>4. /\ Digit(s, m) = ToDigit(x) /\ Digit(t, n) = ToDigit(y) /\ x \in Items /\ y \in Items
      /\ (m + 1) - 1 = m /\ (n + 1) - 1 = n
  BY <1>1 DEF Digit, Some, Running, Held
<1>5. w \in DigitRuns /\ z \in DigitRuns
  BY <1>2, <1>4, RunGrows DEF Running
<1> HIDE DEF u, v, w, z, x, y
<1>6. u \in Seq(Items) /\ v \in Seq(Items) /\ Len(u) \in Nat \ {0}
  BY <1>3, RunIs DEF DigitRuns
<1>7. w[1] = u[1] /\ z[1] = v[1]
  BY <1>2, <1>3, <1>4, <1>6
<1>8. CmpFractions(w, z) = IF CmpFractions(u, v) = "Equal"
                           THEN Cmp(ToDigit(x), ToDigit(y)) ELSE CmpFractions(u, v)
  <2>1. Append(u, x) \in DigitRuns /\ Append(v, y) \in DigitRuns
    BY <1>2, <1>5
  <2> QED
    BY <1>2, <1>3, <1>4, <2>1, FractionsAppend
<1> QED
  BY <1>1, <1>2, <1>4, <1>7, <1>8 DEF ReadSoFar, w, z

\* The parts of the invariant, and the answer that is wanted.
Meant == TokenCmp(Tokens(left), Tokens(right))

LEMMA HeldItems ==
  ASSUME RInv
  PROVE  /\ left \in Seq(Items) /\ right \in Seq(Items) /\ nl \in Nat /\ nr \in Nat
         /\ BothItems => /\ pc = "items" /\ Between(left, nl, right, nr)
                         /\ nl <= Len(left) /\ nr <= Len(right)
                         /\ ~ Skippable(left, nl) /\ ~ Skippable(right, nr)
                         /\ dl = ToDigit(left[nl]) /\ dr = ToDigit(right[nr])
                         /\ left[nl] \in Items /\ right[nr] \in Items
         /\ pc # "start" /\ BothDigits => nl <= Len(left) /\ nr <= Len(right)
<1>1. IInv /\ TypeOK /\ ReadSoFar(pc, lastcmp, left, nl, right, nr)
  BY DEF RInv, IInv
<1>2. left \in Seq(Items) /\ right \in Seq(Items) /\ nl \in Nat /\ nr \in Nat
  BY <1>1, Positions
<1>3. ASSUME BothItems
      PROVE  /\ pc = "items" /\ Between(left, nl, right, nr)
             /\ nl <= Len(left) /\ nr <= Len(right)
             /\ ~ Skippable(left, nl) /\ ~ Skippable(right, nr)
             /\ dl = ToDigit(left[nl]) /\ dr = ToDigit(right[nr])
  BY <1>1, <1>3 DEF BothItems, AtItems, Some, ReadSoFar, dl, dr, Digit
<1>4. BothItems => left[nl] \in Items /\ right[nr] \in Items
  BY <1>2, <1>3 DEF Between, Held
<1>5. BothDigits => nl <= Len(left) /\ nr <= Len(right)
  BY DEF BothDigits, dl, dr, Digit, Some
<1> QED
  BY <1>2, <1>3, <1>4, <1>5

LEMMA ReadsBoth ==
  ASSUME RInv, NEW place, ReadBoth(place), nl <= Len(left), nr <= Len(right),
         place # "done",
         ReadSoFar(place, lastcmp', left, nl + 1, right, nr + 1),
         place # "start", IInv'
  PROVE  RInv'
<1>1. Len(left) \in Nat /\ Len(right) \in Nat /\ nl \in Nat /\ nr \in Nat
  BY Positions DEF RInv, IInv
<1>2. /\ nl' = nl + 1 /\ nr' = nr + 1 /\ pc' = place /\ left' = left /\ right' = right
      /\ res' = res
  BY <1>1 DEF ReadBoth, Read
<1>3. ReadSoFar(pc', lastcmp', left', nl', right', nr')
  BY <1>2
<1> QED
  BY <1>2, <1>3 DEF RInv, IterIsNatural

LEMMA Settles ==
  ASSUME RInv, NEW order, Settle(order), order = Meant, IInv'
  PROVE  RInv'
<1>1. pc' = "done" /\ res' = order /\ left' = left /\ right' = right
  BY DEF Settle
<1>2. ReadSoFar(pc', lastcmp', left', nl', right', nr')
  BY <1>1 DEF ReadSoFar
<1>3. IterIsNatural'
  BY <1>1 DEF IterIsNatural, Meant
<1> QED
  BY <1>1, <1>2, <1>3 DEF RInv

LEMMA ReadInit == Init => RInv
<1> SUFFICES ASSUME Init PROVE RInv
  OBVIOUS
<1>1. IInv
  BY InitInv
<1>2. pc = "start" /\ nl = 0 /\ nr = 0
  BY DEF Init
<1> QED
  BY <1>1, <1>2 DEF RInv, ReadSoFar, IterIsNatural

LEMMA ReadInductive ==
  ASSUME Decimal, Alike
  PROVE  RInv /\ [Next]_vars => RInv'
<1> SUFFICES ASSUME RInv, [Next]_vars PROVE RInv'
  OBVIOUS
<1>1. IInv /\ IInv'
  BY Inductive DEF RInv
<1>2. ReadSoFar(pc, lastcmp, left, nl, right, nr)
  BY DEF RInv
<1>3. CASE Start
  <2>1. /\ pc = "start" /\ nl = 0 /\ nr = 0 /\ ReadBoth("items")
        /\ left \in Seq(Items) /\ right \in Seq(Items)
    BY <1>3, HeldItems DEF Start, RInv
  <2>2. 0 <= Len(left) /\ 0 <= Len(right) /\ nl + 1 = 1 /\ nr + 1 = 1
    BY <2>1
  <2>3. ReadSoFar("items", lastcmp', left, 1, right, 1)
    BY <2>1, FirstItems DEF ReadSoFar
  <2> QED
    BY <1>1, <2>1, <2>2, <2>3, ReadsBoth
<1>4. CASE SkipItems
  <2>1. /\ pc = "items" /\ pc' = "items" /\ left' = left /\ right' = right
        /\ nl' = Skipped(left, nl) /\ nr' = Skipped(right, nr)
    BY <1>4 DEF SkipItems
  <2>2. Between(left', nl', right', nr')
    BY <1>2, <2>1, SkipsBetween DEF ReadSoFar
  <2>3. ReadSoFar(pc', lastcmp', left', nl', right', nr')
    BY <2>1, <2>2 DEF ReadSoFar
  <2> QED
    BY <1>1, <2>1, <2>3 DEF RInv, IterIsNatural
<1>5. CASE End
  <2> DEFINE order == IF nl <= Len(left) THEN "Greater"
                      ELSE IF nr <= Len(right) THEN "Less" ELSE "Equal"
  <2>1. /\ Between(left, nl, right, nr) /\ ~ (nl <= Len(left) /\ nr <= Len(right))
        /\ ~ Skippable(left, nl) /\ ~ Skippable(right, nr) /\ Settle(order)
    BY <1>2, <1>5 DEF End, AtItems, Some, ReadSoFar
  <2>2. order = Meant
    BY <2>1, EndDecides DEF Meant
  <2> HIDE DEF order
  <2> QED
    BY <1>1, <2>1, <2>2, Settles
<1>6. CASE ItemsDiffer
  <2> DEFINE order == CmpItems(left[nl], right[nr])
  <2>1. BothItems /\ ~ BothDigits /\ order # "Equal" /\ Settle(order)
    BY <1>6 DEF ItemsDiffer
  <2>2. /\ Between(left, nl, right, nr) /\ nl <= Len(left) /\ nr <= Len(right)
        /\ ~ Skippable(left, nl) /\ ~ Skippable(right, nr)
        /\ ~ (IsDigitItem(left[nl]) /\ IsDigitItem(right[nr]))
    BY <2>1, HeldItems DEF BothDigits, IsDigitItem
  <2>3. order = Meant
    BY <2>1, <2>2, ItemsDecide DEF Meant
  <2> HIDE DEF order
  <2> QED
    BY <1>1, <2>1, <2>3, Settles
<1>7. CASE ItemsEqual
  <2>1. /\ BothItems /\ ~ BothDigits /\ ReadBoth("items")
        /\ CmpItems(left[nl], right[nr]) = "Equal"
    BY <1>7 DEF ItemsEqual
  <2>2. /\ Between(left, nl, right, nr) /\ nl <= Len(left) /\ nr <= Len(right)
        /\ ~ Skippable(left, nl) /\ ~ Skippable(right, nr)
        /\ ~ (IsDigitItem(left[nl]) /\ IsDigitItem(right[nr]))
        /\ left[nl] \in Items /\ right[nr] \in Items
    BY <2>1, HeldItems DEF BothDigits, IsDigitItem
  <2>3. ~ IsDigitItem(left[nl]) /\ ~ IsDigitItem(right[nr])
    BY <2>1, <2>2 DEF Alike
  <2>4. ReadSoFar("items", lastcmp', left, nl + 1, right, nr + 1)
    BY <2>1, <2>2, <2>3, ItemsPassed DEF ReadSoFar
  <2> QED
    BY <1>1, <2>1, <2>2, <2>4, ReadsBoth
<1>8. ASSUME BothItems, BothDigits
      PROVE  /\ Between(left, nl, right, nr) /\ nl <= Len(left) /\ nr <= Len(right)
             /\ ~ Skippable(left, nl) /\ ~ Skippable(right, nr)
             /\ IsDigitItem(left[nl]) /\ IsDigitItem(right[nr])
             /\ dl = ToDigit(left[nl]) /\ dr = ToDigit(right[nr])
  BY <1>8, HeldItems DEF BothDigits, IsDigitItem
<1>9. CASE EnterLeft
  <2>1. BothItems /\ BothDigits /\ ReadBoth("digits_left") /\ dl = 0 /\ dr = 0
    BY <1>9 DEF EnterLeft, LeadingZero
  <2>2. ReadSoFar("digits_left", lastcmp', left, nl + 1, right, nr + 1)
    BY <1>8, <2>1, BeginLeft
  <2> QED
    BY <1>1, <1>8, <2>1, <2>2, ReadsBoth
<1>10. CASE ZeroSettles
  <2>1. /\ BothItems /\ BothDigits /\ dl # dr
        /\ dl = 0 \/ dr = 0
        /\ Settle(Cmp(dl, dr))
    BY <1>10 DEF ZeroSettles, LeadingZero
  <2>2. Cmp(dl, dr) = Meant
    BY <1>8, <2>1, ZerosDecide DEF Meant
  <2> QED
    BY <1>1, <2>1, <2>2, Settles
<1>11. CASE EnterRight
  <2>1. /\ BothItems /\ BothDigits /\ ReadBoth("digits_right") /\ dl # 0 /\ dr # 0
        /\ lastcmp' = Cmp(dl, dr)
    BY <1>11 DEF EnterRight, LeadingZero
  <2>2. ReadSoFar("digits_right", lastcmp', left, nl + 1, right, nr + 1)
    BY <1>8, <2>1, BeginRight
  <2> QED
    BY <1>1, <1>8, <2>1, <2>2, ReadsBoth
<1>12. dl = Digit(left, nl) /\ dr = Digit(right, nr)
  BY DEF dl, dr
<1>13. CASE RunLonger
  <2> DEFINE u == Last(Reading(left)[nl - 1].tokens)
             v == Last(Reading(right)[nr - 1].tokens)
  <2>1. /\ InRun /\ (dl = NotDigit) # (dr = NotDigit)
        /\ Settle(IF dr = NotDigit THEN "Greater" ELSE "Less")
    BY <1>13 DEF RunLonger
  <2>2. Running(left, nl, right, nr) /\ Aligned(u, v)
    BY <1>2, <2>1 DEF InRun, ReadSoFar, Aligned
  <2>3. (IF dr = NotDigit THEN "Greater" ELSE "Less") = Meant
    BY <1>12, <2>1, <2>2, LongerDecides DEF Meant
  <2> QED
    BY <1>1, <2>1, <2>3, Settles
<1>14. CASE DigitsEqual
  <2>1. pc = "digits_left" /\ BothDigits /\ dl = dr /\ ReadBoth("digits_left")
    BY <1>14 DEF DigitsEqual
  <2>2. ReadSoFar("digits_left", lastcmp, left, nl, right, nr)
    BY <1>2, <2>1
  <2>3. ReadSoFar("digits_left", lastcmp', left, nl + 1, right, nr + 1)
    <3>1. ReadSoFar("digits_left", lastcmp, left, nl + 1, right, nr + 1)
      BY <1>12, <2>1, <2>2, GoOnLeft DEF BothDigits
    <3> QED
      BY <3>1 DEF ReadSoFar
  <2> QED
    BY <1>1, <2>1, <2>3, HeldItems, ReadsBoth
<1>15. CASE DigitsDiffer
  <2>1. pc = "digits_left" /\ BothDigits /\ dl # dr /\ Settle(Cmp(dl, dr))
    BY <1>15 DEF DigitsDiffer
  <2>2. /\ Running(left, nl, right, nr)
        /\ LET u == Last(Reading(left)[nl - 1].tokens)
               v == Last(Reading(right)[nr - 1].tokens)
           IN  SameDigits(u, v, Len(u)) /\ ToDigit(u[1]) = 0
    BY <1>2, <2>1 DEF ReadSoFar
  <2>3. Cmp(dl, dr) = Meant
    BY <1>12, <2>1, <2>2, DigitsDecide DEF Meant, BothDigits
  <2> QED
    BY <1>1, <2>1, <2>3, Settles
<1>16. CASE DigitsRight
  <2>1. /\ pc = "digits_right" /\ BothDigits /\ ReadBoth("digits_right")
        /\ lastcmp' = IF lastcmp = "Equal" THEN Cmp(dl, dr) ELSE lastcmp
    BY <1>16 DEF DigitsRight, FirstCmp
  <2>2. ReadSoFar("digits_right", lastcmp, left, nl, right, nr)
    BY <1>2, <2>1
  <2>3. ReadSoFar("digits_right", lastcmp', left, nl + 1, right, nr + 1)
    BY <1>12, <2>1, <2>2, GoOnRight DEF BothDigits
  <2> QED
    BY <1>1, <2>1, <2>3, HeldItems, ReadsBoth
<1>17. CASE RunsEnd
  <2> DEFINE u == Last(Reading(left)[nl - 1].tokens)
             v == Last(Reading(right)[nr - 1].tokens)
  <2>1. /\ InRun /\ dl = NotDigit /\ dr = NotDigit
        /\ pc = "digits_left" \/ lastcmp = "Equal"
        /\ pc' = "items" /\ UNCHANGED <<left, right, nl, nr, lastcmp, res>>
    BY <1>17 DEF RunsEnd
  <2>2. Running(left, nl, right, nr) /\ CmpFractions(u, v) = "Equal"
    <3>1. CASE pc = "digits_left"
      <4>1. Running(left, nl, right, nr) /\ SameDigits(u, v, Len(u))
        BY <1>2, <3>1 DEF ReadSoFar
      <4>2. u \in RunType /\ v \in RunType /\ Len(u) = Len(v)
        BY <4>1, RunGrows DEF Running, DigitRuns
      <4> QED
        BY <4>1, <4>2, EqualFractions
    <3>2. CASE pc = "digits_right"
      BY <1>2, <2>1, <3>2 DEF ReadSoFar
    <3> QED
      BY <2>1, <3>1, <3>2 DEF InRun
  <2>3. Between(left, nl, right, nr)
    BY <1>12, <2>1, <2>2, RunsEndEqual
  <2>4. ReadSoFar(pc', lastcmp', left', nl', right', nr')
    BY <2>1, <2>3 DEF ReadSoFar
  <2> QED
    BY <1>1, <2>1, <2>4 DEF RInv, IterIsNatural
<1>18. CASE RunsSettle
  <2>1. /\ pc = "digits_right" /\ dl = NotDigit /\ dr = NotDigit
        /\ lastcmp # "Equal" /\ Settle(lastcmp)
    BY <1>18 DEF RunsSettle
  <2>2. /\ Running(left, nl, right, nr)
        /\ lastcmp = CmpFractions(Last(Reading(left)[nl - 1].tokens),
                                  Last(Reading(right)[nr - 1].tokens))
    BY <1>2, <2>1 DEF ReadSoFar
  <2>3. lastcmp = Meant
    <3> DEFINE u == Last(Reading(left)[nl - 1].tokens)
               v == Last(Reading(right)[nr - 1].tokens)
    <3>1. /\ Digit(left, nl) = NotDigit /\ Digit(right, nr) = NotDigit
          /\ lastcmp # "Equal" /\ lastcmp = CmpFractions(u, v)
      BY <1>12, <2>1, <2>2
    <3>2. TokenCmp(Tokens(left), Tokens(right)) = lastcmp
      BY <2>2, <3>1, RunsDecide
    <3> QED
      BY <3>2 DEF Meant
  <2> QED
    BY <1>1, <2>1, <2>3, Settles
<1>19. CASE UNCHANGED vars
  <2>1. /\ pc' = pc /\ lastcmp' = lastcmp /\ left' = left /\ nl' = nl /\ right' = right
        /\ nr' = nr /\ res' = res
    BY <1>19 DEF vars
  <2> QED
    BY <1>1, <1>2, <2>1 DEF RInv, IterIsNatural
<1> QED
  BY <1>3, <1>4, <1>5, <1>6, <1>7, <1>9, <1>10, <1>11, <1>13, <1>14, <1>15, <1>16,
     <1>17, <1>18, <1>19
  DEF Next, Step, Idle

\* A call of compare_iter goes its way while compare has its turn.
LEMMA OneOfTwo == PairNext => [Next]_vars
<1> SUFFICES ASSUME PairNext PROVE [Next]_vars
  OBVIOUS
<1>1. ASSUME NEW order, Direct!Settle(order) PROVE UNCHANGED <<left, right>>
  BY <1>1 DEF Direct!Settle
<1>2. ASSUME NEW x, NEW y, Direct!Consume(x, y) PROVE UNCHANGED <<left, right>>
  BY <1>2 DEF Direct!Consume
<1>3. CASE DirectStep
  <2>1. Direct!Step /\ UNCHANGED <<nl, nr, pc, lastcmp, res>>
    BY <1>3 DEF DirectStep
  <2>2. (\E order : Direct!Settle(order)) \/ (\E x, y : Direct!Consume(x, y))
    BY <2>1
    DEF Direct!Step, Direct!Iterate, Direct!SamePointer, Direct!New, Direct!End,
        Direct!DigitsSettle, Direct!DigitsContinue, Direct!SkipWs, Direct!Boundary,
        Direct!Mismatch, Direct!Advance
  <2> QED
    BY <1>1, <1>2, <2>1, <2>2 DEF vars
<1>4. CASE IterStep \/ PairIdle
  BY <1>4 DEF IterStep, PairIdle, Next
<1> QED
  BY <1>3, <1>4 DEF PairNext

\* Whatever the order of the items and the notion of digit, as long as digits are decimal
\* and no digit equals an item that is none: compare_iter reads numbers, without computing
\* one, and lets the first token that differs decide.
THEOREM ReadsNumbers ==
  ASSUME Decimal, Alike
  PROVE  PairSpec => []IterIsNatural
<1>1. PairInit => RInv
  BY ReadInit DEF PairInit
<1>2. RInv /\ [PairNext]_pairVars => RInv'
  <2>1. RInv /\ UNCHANGED pairVars => RInv'
    BY ReadInductive DEF pairVars
  <2> QED
    BY <2>1, ReadInductive, OneOfTwo
<1>3. RInv => IterIsNatural
  BY DEF RInv
<1> QED
  BY <1>1, <1>2, <1>3, PTL DEF PairSpec

-------------------------------------------------------------------------------
(***************************************************************************)
(* The callbacks that read text, and the natural order of compare.          *)
(***************************************************************************)
Text == INSTANCE NaturalOrderProofs
  WITH Strings <- Streams, a <- left, b <- right,
       pa <- da, pb <- db, pc <- dpc, res <- dres

\* The items are bytes: what compare takes for white space is skipped, digits are the
\* decimal ones, and all else is ordered by code.  The tests pass char::is_whitespace,
\* which takes the vertical tab for white space too.
TextCallbacks ==
  /\ Items \subseteq Direct!Byte
  /\ \A x \in Items : Skip(x) <=> Direct!IsWs(x)
  /\ \A x \in Items : ToDigit(x) = IF Direct!IsDigit(x) THEN x - Direct!Zero ELSE NotDigit
  /\ \A x, y \in Items : CmpItems(x, y) = Cmp(x, y)

LEMMA TextItems ==
  ASSUME TextCallbacks, NEW x \in Items
  PROVE  /\ x \in Text!Byte /\ x \in 0 .. 255 /\ (Skip(x) <=> Text!IsWs(x))
         /\ IsDigitItem(x) <=> Text!IsDigit(x)
         /\ IsDigitItem(x) => /\ ToDigit(x) = x - 48 /\ ToDigit(x) \in 0 .. 9
                              /\ ~ Skip(x)
<1>1. x \in 0 .. 255
  BY DEF TextCallbacks, Direct!Byte
<1>2. Skip(x) <=> x \in {9, 10, 12, 13, 32}
  BY DEF TextCallbacks, Direct!IsWs
<1>3. ToDigit(x) = IF x \in 48 .. 57 THEN x - 48 ELSE NotDigit
  BY DEF TextCallbacks, Direct!IsDigit, Direct!Zero
<1>4. IsDigitItem(x) <=> x \in 48 .. 57
  BY <1>1, <1>3, CallbackAssumption DEF IsDigitItem
<1>5. x \in 48 .. 57 => x \notin {9, 10, 12, 13, 32} /\ x - 48 \in 0 .. 9
  OBVIOUS
<1>6. IsDigitItem(x) => /\ ToDigit(x) = x - 48 /\ ToDigit(x) \in 0 .. 9
                        /\ ~ Skip(x)
  <2> SUFFICES ASSUME IsDigitItem(x)
               PROVE  ToDigit(x) = x - 48 /\ ToDigit(x) \in 0 .. 9 /\ ~ Skip(x)
    OBVIOUS
  <2>1. x \in 48 .. 57
    BY <1>4
  <2>2. ToDigit(x) = x - 48
    BY <1>3, <2>1
  <2> QED
    BY <1>2, <1>5, <2>1, <2>2
<1>7. Text!Byte = 0 .. 255
  BY DEF Text!Byte
<1>8. Text!IsWs(x) <=> x \in {9, 10, 12, 13, 32}
  BY DEF Text!IsWs
<1>9. Text!IsDigit(x) <=> x \in 48 .. 57
  BY DEF Text!IsDigit
<1> QED
  BY <1>1, <1>2, <1>4, <1>6, <1>7, <1>8, <1>9

LEMMA TextBytes ==
  ASSUME TextCallbacks
  PROVE  /\ \A s \in Seq(Items) : s \in Seq(Text!Byte)
         /\ Streams \subseteq Seq(Text!Byte) /\ ShortRun \in Nat
<1>1. ASSUME NEW s \in Seq(Items) PROVE s \in Seq(Text!Byte)
  <2>1. \A x \in Items : x \in Text!Byte
    BY TextItems
  <2>2. Len(s) \in Nat /\ \A i \in 1 .. Len(s) : s[i] \in Items
    OBVIOUS
  <2> QED
    BY <2>1, <2>2
<1> QED
  BY <1>1, StreamsAssumption, ShortRunAssumption

LEMMA TextIsDecimal == TextCallbacks => Decimal /\ Alike
<1> SUFFICES ASSUME TextCallbacks PROVE Decimal /\ Alike
  OBVIOUS
<1>1. Decimal
  BY TextItems DEF Decimal
<1>2. ASSUME NEW x \in Items, NEW y \in Items, CmpItems(x, y) = "Equal" PROVE x = y
  <2>1. x \in Int /\ y \in Int
    BY TextItems
  <2> QED
    BY <1>2, <2>1, CmpIs DEF TextCallbacks
<1> QED
  BY <1>1, <1>2 DEF Alike

\* A run without superfluous zeros.
ZerosAlone(t) == IsDigitItem(t[1]) /\ ToDigit(t[1]) = 0 => Len(t) = 1

\* Such runs are the numbers they are the numerals of.
LEMMA NumeralsAlike ==
  ASSUME Decimal, NEW t \in DigitRuns, NEW z \in DigitRuns, ZerosAlone(t), ZerosAlone(z)
  PROVE  /\ CmpTokens(t, z) = Cmp(Value(t), Value(z))
         /\ CmpTokens(t, z) = "Equal" => ToDigit(t[1]) = ToDigit(z[1])
<1>1. /\ t \in RunType /\ z \in RunType /\ Len(t) \in Nat \ {0} /\ Len(z) \in Nat \ {0}
      /\ IsDigitItem(t[1]) /\ IsDigitItem(z[1])
      /\ ToDigit(t[1]) \in 0 .. 9 /\ ToDigit(z[1]) \in 0 .. 9
  BY DigitRunIs
<1>2. \A m, n \in Nat \ {0} : m < n => n # 1
  OBVIOUS
<1>3. (Len(t) < Len(z) => Len(z) # 1) /\ (Len(z) < Len(t) => Len(t) # 1)
  BY <1>1, <1>2
<1>4. CASE Len(t) = Len(z)
  <2>1. CmpTokens(t, z) = CmpFractions(t, z)
    BY <1>4, SameLength
  <2>2. /\ Cmp(Value(t), Value(z)) = CmpFractions(t, z)
        /\ CmpFractions(t, z) = "Equal" => SameDigits(t, z, Len(t))
    BY <1>4, EqualLengths
  <2> QED
    BY <1>1, <2>1, <2>2 DEF SameDigits
<1>5. CASE Len(t) < Len(z)
  <2>1. ToDigit(z[1]) # 0
    BY <1>1, <1>3, <1>5 DEF ZerosAlone
  <2>2. Value(t) < Value(z) /\ Value(t) \in Nat /\ Value(z) \in Nat
    BY <1>5, <2>1, ShorterIsLess
  <2>3. Cmp(Value(t), Value(z)) = "Less"
    BY <2>2 DEF Cmp
  <2>4. CASE ToDigit(t[1]) = 0
    <3>1. SameDigits(t, z, 1 - 1) /\ ToDigit(t[1]) # ToDigit(z[1])
      BY <2>1, <2>4 DEF SameDigits
    <3>2. CmpFractions(t, z) = Cmp(ToDigit(t[1]), ToDigit(z[1]))
      BY <1>1, <3>1, FractionsDiffer
    <3>3. Cmp(ToDigit(t[1]), ToDigit(z[1])) = "Less"
      BY <1>1, <2>1, <2>4 DEF Cmp
    <3> QED
      BY <1>1, <2>3, <2>4, <3>2, <3>3 DEF CmpTokens
  <2>5. CASE ToDigit(t[1]) # 0
    BY <1>1, <2>1, <2>3, <2>5 DEF CmpTokens
  <2> QED
    BY <2>4, <2>5
<1>6. CASE Len(z) < Len(t)
  <2>1. ToDigit(t[1]) # 0
    BY <1>1, <1>3, <1>6 DEF ZerosAlone
  <2>2. Value(z) < Value(t) /\ Value(z) \in Nat /\ Value(t) \in Nat
    BY <1>6, <2>1, ShorterIsLess
  <2>3. Cmp(Value(t), Value(z)) = "Greater"
    BY <2>2 DEF Cmp
  <2>4. CASE ToDigit(z[1]) = 0
    <3>1. SameDigits(t, z, 1 - 1) /\ ToDigit(t[1]) # ToDigit(z[1])
      BY <2>1, <2>4 DEF SameDigits
    <3>2. CmpFractions(t, z) = Cmp(ToDigit(t[1]), ToDigit(z[1]))
      BY <1>1, <3>1, FractionsDiffer
    <3>3. Cmp(ToDigit(t[1]), ToDigit(z[1])) = "Greater"
      BY <1>1, <2>1, <2>4 DEF Cmp
    <3> QED
      BY <1>1, <2>3, <2>4, <3>2, <3>3 DEF CmpTokens
  <2>5. CASE ToDigit(z[1]) # 0
    BY <1>1, <2>1, <2>3, <2>5 DEF CmpTokens
  <2> QED
    BY <2>4, <2>5
<1> QED
  BY <1>1, <1>4, <1>5, <1>6

\* The token t of compare_iter and the token p of the reference are the same.
Renders(p, t) ==
  /\ p \in Text!TokenType /\ t \in RunType
  /\ p.first = t[1] /\ ZerosAlone(t)
  /\ p.value = IF IsDigitItem(t[1]) THEN Value(t) ELSE 0

LEMMA RendersAlike ==
  ASSUME TextCallbacks, NEW p, NEW t, NEW q, NEW z, Renders(p, t), Renders(q, z)
  PROVE  /\ Text!CmpTokens(p, q) = CmpTokens(t, z)
         /\ p = q <=> CmpTokens(t, z) = "Equal"
<1>1. /\ p = [first |-> p.first, value |-> p.value]
      /\ q = [first |-> q.first, value |-> q.value]
      /\ p.value \in Nat /\ q.value \in Nat
  BY DEF Renders, Text!TokenType
<1>2. /\ t \in RunType /\ z \in RunType /\ ZerosAlone(t) /\ ZerosAlone(z)
      /\ p.first = t[1] /\ q.first = z[1]
      /\ p.value = (IF IsDigitItem(t[1]) THEN Value(t) ELSE 0)
      /\ q.value = (IF IsDigitItem(z[1]) THEN Value(z) ELSE 0)
  BY DEF Renders
<1>3. t[1] \in Items /\ z[1] \in Items
  BY <1>2, RunIs
<1>4. /\ t[1] \in Int /\ z[1] \in Int
      /\ IsDigitItem(t[1]) <=> Text!IsDigit(t[1])
      /\ IsDigitItem(z[1]) <=> Text!IsDigit(z[1])
      /\ IsDigitItem(t[1]) => ToDigit(t[1]) = t[1] - 48
      /\ IsDigitItem(z[1]) => ToDigit(z[1]) = z[1] - 48
  BY <1>3, TextItems
<1>5. Text!CmpTokens(p, q) = IF IsDigitItem(t[1]) /\ IsDigitItem(z[1])
                             THEN Cmp(p.value, q.value) ELSE Cmp(t[1], z[1])
  <2>1. /\ Text!Cmp(p.value, q.value) = Cmp(p.value, q.value)
        /\ Text!Cmp(p.first, q.first) = Cmp(p.first, q.first)
    BY DEF Text!Cmp, Cmp
  <2>2. Text!CmpTokens(p, q) = IF Text!IsDigit(p.first) /\ Text!IsDigit(q.first)
                               THEN Cmp(p.value, q.value) ELSE Cmp(p.first, q.first)
    BY <2>1 DEF Text!CmpTokens
  <2> QED
    BY <1>2, <1>4, <2>2
<1>6. p = q <=> p.first = q.first /\ p.value = q.value
  BY <1>1
<1>7. CASE IsDigitItem(t[1]) /\ IsDigitItem(z[1])
  <2>1. t \in DigitRuns /\ z \in DigitRuns /\ Decimal
    BY <1>2, <1>7, TextIsDecimal DEF DigitRuns
  <2>2. /\ CmpTokens(t, z) = Cmp(p.value, q.value)
        /\ CmpTokens(t, z) = "Equal" => ToDigit(t[1]) = ToDigit(z[1])
    BY <1>2, <1>7, <2>1, NumeralsAlike
  <2>3. CmpTokens(t, z) = "Equal" <=> p.value = q.value
    BY <1>1, <2>2, CmpIs
  <2>4. CmpTokens(t, z) = "Equal" => t[1] = z[1]
    BY <1>4, <1>7, <2>2
  <2> QED
    BY <1>2, <1>5, <1>6, <1>7, <2>2, <2>3, <2>4
<1>8. CASE ~ (IsDigitItem(t[1]) /\ IsDigitItem(z[1]))
  <2>1. CmpTokens(t, z) = Cmp(t[1], z[1])
    BY <1>3, <1>8 DEF CmpTokens, TextCallbacks
  <2>2. CmpTokens(t, z) = "Equal" <=> t[1] = z[1]
    BY <1>4, <2>1, CmpIs
  <2>3. t[1] = z[1] => p.value = q.value
    BY <1>2, <1>8
  <2> QED
    BY <1>2, <1>5, <1>6, <1>8, <2>1, <2>2, <2>3
<1> QED
  BY <1>7, <1>8

\* The value of a run with one digit, and with one more.
LEMMA ValueOne ==
  ASSUME Decimal, NEW x \in Items, IsDigitItem(x)
  PROVE  Value(<<x>>) = ToDigit(x)
<1> DEFINE t == <<x>>
<1>1. t \in RunType /\ Len(t) = 1 /\ t[1] = x
  BY OneItem
<1> HIDE DEF t
<1>2. t \in DigitRuns /\ 1 \in 1 .. Len(t) /\ ToDigit(x) \in 0 .. 9 /\ 1 - 1 = 0
  BY <1>1 DEF DigitRuns, Decimal
<1>3. Values(t)[1] = 10 * Values(t)[0] + ToDigit(x) /\ Values(t)[0] = 0
  BY <1>1, <1>2, ValuesAre
<1>4. Value(t) = ToDigit(x)
  BY <1>1, <1>2, <1>3 DEF Value
<1> QED
  BY <1>4 DEF t

LEMMA ValueAppend ==
  ASSUME Decimal, NEW u \in DigitRuns, NEW x \in Items, Append(u, x) \in DigitRuns
  PROVE  Value(Append(u, x)) = 10 * Value(u) + ToDigit(x)
<1> DEFINE w == Append(u, x)
           m == Len(u)
<1>1. u \in Seq(Items) /\ m \in Nat \ {0} /\ w \in DigitRuns
  BY DigitRunIs, RunIs
<1>2. Len(w) = m + 1 /\ w[m + 1] = x /\ \A i \in 1 .. m : w[i] = u[i]
  BY <1>1
<1> HIDE DEF w, m
<1>3. m = Len(u)
  BY DEF m
<1>4. SameDigits(w, u, m) /\ m <= Len(w) /\ m + 1 \in 1 .. Len(w) /\ (m + 1) - 1 = m
  BY <1>1, <1>2 DEF SameDigits
<1>5. Values(w)[m] = Values(u)[m]
  BY <1>1, <1>3, <1>4, SameValues
<1>6. Values(w)[m + 1] = 10 * Values(w)[(m + 1) - 1] + ToDigit(w[m + 1])
  BY <1>1, <1>4, ValuesAre
<1> QED
  BY <1>2, <1>3, <1>4, <1>5, <1>6 DEF Value, w

\* What compare_iter and the reference have read of a plain text is the same.
SameTokens(tokens, u) ==
  /\ u \in Seq(Text!TokenType) /\ Len(u) = Len(tokens)
  /\ \A i \in 1 .. Len(tokens) : Renders(u[i], tokens[i])

SameSoFar(s, n) ==
  LET r == Reading(s)[n]
      u == Text!Reading(s)[n]
  IN  /\ SameTokens(r.tokens, u)
      /\ r.open <=> Text!InNumber(u)
      /\ r.open <=> n > 0 /\ IsDigitItem(s[n])
      /\ r.open /\ Len(Last(r.tokens)) = 1 =>
           Last(r.tokens)[1] = s[n] /\ (n > 1 => ~ IsDigitItem(s[n - 1]))

\* Nothing of it depends on how the reference reads one byte, but for these.
LEMMA TextRead ==
  ASSUME TextCallbacks, NEW s \in Seq(Items), NEW n \in Nat \ {0}, n <= Len(s)
  PROVE  /\ Text!Reading(s)[n - 1] \in Seq(Text!TokenType)
         /\ Text!Reading(s)[n] = Text!ReadByte(Text!Reading(s)[n - 1], s[n])
         /\ s[n] \in Text!Byte /\ s[n] \in Items
<1>1. s \in Seq(Text!Byte) /\ Streams \subseteq Seq(Text!Byte) /\ ShortRun \in Nat
  BY TextBytes
<1>2. n \in 1 .. Len(s) /\ n - 1 \in 0 .. Len(s) /\ s[n] \in Items
  OBVIOUS
<1>3. /\ Text!Reading(s) \in [0 .. Len(s) -> Seq(Text!TokenType)]
      /\ \A k \in 1 .. Len(s) : Text!Reading(s)[k] = Text!ReadByte(Text!Reading(s)[k - 1], s[k])
  BY <1>1, Text!ReadingIs
<1>4. s[n] \in Text!Byte
  BY <1>2, TextItems
<1> QED
  BY <1>2, <1>3, <1>4

\* The reference reads a digit while a number is under way, or another byte.
LEMMA TextDigitOn ==
  ASSUME TextCallbacks, NEW u \in Seq(Text!TokenType), NEW x \in Items,
         IsDigitItem(x), Text!InNumber(u)
  PROVE  LET v == Text!ReadByte(u, x)
         IN  /\ v \in Seq(Text!TokenType) /\ Len(v) = Len(u) /\ Len(u) \in Nat \ {0}
             /\ \A i \in 1 .. Len(u) - 1 : v[i] = u[i]
             /\ v[Len(u)] = [first |-> u[Len(u)].first,
                             value |-> 10 * u[Len(u)].value + ToDigit(x)]
             /\ Text!InNumber(v)
<1> DEFINE v == Text!ReadByte(u, x)
<1>1. /\ x \in Text!Byte /\ Text!IsDigit(x) /\ ToDigit(x) = x - 48
      /\ Streams \subseteq Seq(Text!Byte) /\ ShortRun \in Nat
  BY TextItems, TextBytes
<1>2. /\ v \in Seq(Text!TokenType) /\ Len(v) = Len(u) /\ Len(u) \in Nat \ {0}
      /\ \A i \in 1 .. Len(u) - 1 : v[i] = u[i]
      /\ Text!Last(v) = [first |-> Text!Last(u).first,
                         value |-> 10 * Text!Last(u).value + (x - Text!Zero)]
  BY <1>1, Text!ReadDigitOn
<1> HIDE DEF v
<1>3. v[Len(u)] = [first |-> u[Len(u)].first, value |-> 10 * u[Len(u)].value + ToDigit(x)]
  BY <1>1, <1>2 DEF Text!Last, Text!Zero
<1>4. Text!InNumber(v)
  <2>1. v # <<>> /\ v[Len(v)].first = u[Len(u)].first
    BY <1>2, <1>3
  <2> QED
    BY <2>1 DEF Text!InNumber
<1> QED
  BY <1>2, <1>3, <1>4 DEF v

LEMMA TextNext ==
  ASSUME TextCallbacks, NEW u \in Seq(Text!TokenType), NEW x \in Items, ~ Skip(x),
         ~ (IsDigitItem(x) /\ Text!InNumber(u))
  PROVE  LET v == Text!ReadByte(u, x)
         IN  /\ v \in Seq(Text!TokenType) /\ Len(v) = Len(u) + 1 /\ Len(u) \in Nat
             /\ \A i \in 1 .. Len(u) : v[i] = u[i]
             /\ v[Len(u) + 1] = [first |-> x, value |-> IF IsDigitItem(x) THEN ToDigit(x) ELSE 0]
             /\ Text!InNumber(v) <=> IsDigitItem(x)
<1> DEFINE v == Text!ReadByte(u, x)
<1>1. /\ x \in Text!Byte /\ (Text!IsDigit(x) <=> IsDigitItem(x))
      /\ IsDigitItem(x) => ToDigit(x) = x - 48
      /\ ~ Text!IsWs(x)
      /\ Streams \subseteq Seq(Text!Byte) /\ ShortRun \in Nat
  BY TextItems, TextBytes
<1>2. /\ v \in Seq(Text!TokenType) /\ Len(v) = Len(u) + 1 /\ Len(u) \in Nat
      /\ \A i \in 1 .. Len(u) : v[i] = u[i]
      /\ Text!Last(v) = [first |-> x, value |-> Text!Value(x)]
  BY <1>1, Text!ReadNext
<1> HIDE DEF v
<1>3. Text!Value(x) = IF IsDigitItem(x) THEN ToDigit(x) ELSE 0
  BY <1>1 DEF Text!Value, Text!Zero
<1>4. v[Len(u) + 1] = [first |-> x, value |-> IF IsDigitItem(x) THEN ToDigit(x) ELSE 0]
  BY <1>2, <1>3 DEF Text!Last
<1>5. Text!InNumber(v) <=> IsDigitItem(x)
  <2>1. v # <<>> /\ v[Len(v)].first = x
    BY <1>2, <1>4
  <2> QED
    BY <1>1, <2>1 DEF Text!InNumber
<1> QED
  BY <1>2, <1>4, <1>5 DEF v

\* What Plain says of a byte and the one before it.
LEMMA TextPlain ==
  ASSUME TextCallbacks, NEW s \in Seq(Items), Direct!Plain(s), NEW n \in Nat \ {0}, n < Len(s)
  PROVE  /\ Skip(s[n + 1]) => ~ IsDigitItem(s[n])
         /\ IsDigitItem(s[n]) /\ ToDigit(s[n]) = 0 /\ IsDigitItem(s[n + 1]) =>
              n > 1 /\ IsDigitItem(s[n - 1])
<1>1. /\ n \in 1 .. Len(s) - 1 /\ s[n] \in Items /\ s[n + 1] \in Items
      /\ n > 1 => s[n - 1] \in Items
  OBVIOUS
<1>2. /\ Direct!IsWs(s[n + 1]) => ~ Direct!IsDigit(s[n])
      /\ s[n] = 48 /\ Direct!IsDigit(s[n + 1]) => n > 1 /\ Direct!IsDigit(s[n - 1])
  BY <1>1 DEF Direct!Plain, Direct!Zero
<1>3. ASSUME NEW x \in Items
      PROVE  /\ Direct!IsWs(x) <=> Skip(x)
             /\ Direct!IsDigit(x) <=> IsDigitItem(x)
             /\ IsDigitItem(x) /\ ToDigit(x) = 0 => x = 48
  <2>1. Direct!IsWs(x) <=> Skip(x)
    BY DEF TextCallbacks
  <2>2. Direct!IsDigit(x) <=> IsDigitItem(x)
    BY TextItems DEF Direct!IsDigit, Text!IsDigit
  <2>3. ASSUME IsDigitItem(x), ToDigit(x) = 0 PROVE x = 48
    <3>1. x \in 0 .. 255 /\ x - 48 = 0
      BY <2>3, TextItems
    <3> QED
      BY <3>1
  <2> QED
    BY <2>1, <2>2, <2>3
<1> QED
  BY <1>1, <1>2, <1>3

\* One more item.
LEMMA SameRead ==
  ASSUME TextCallbacks, NEW s \in Seq(Items), Direct!Plain(s),
         NEW n \in Nat \ {0}, n <= Len(s), SameSoFar(s, n - 1)
  PROVE  SameSoFar(s, n)
<1> DEFINE r == Reading(s)[n - 1]
           q == Reading(s)[n]
           u == Text!Reading(s)[n - 1]
           v == Text!Reading(s)[n]
           x == s[n]
<1>1. /\ r \in ReadType /\ q \in ReadType /\ q = ReadItem(r, x) /\ x \in Items
      /\ u \in Seq(Text!TokenType) /\ v = Text!ReadByte(u, x)
      /\ Len(r.tokens) \in Nat
  BY ReadAt, TextRead, ReadTypeIs
<1>2. /\ SameTokens(r.tokens, u) /\ (r.open <=> Text!InNumber(u))
      /\ r.open <=> n - 1 > 0 /\ IsDigitItem(s[n - 1])
      /\ r.open /\ Len(Last(r.tokens)) = 1 =>
           Last(r.tokens)[1] = s[n - 1] /\ (n - 1 > 1 => ~ IsDigitItem(s[(n - 1) - 1]))
  BY DEF SameSoFar
<1>3. Decimal
  BY TextIsDecimal
<1>4. n - 1 > 0 => /\ n - 1 \in Nat \ {0} /\ n - 1 < Len(s) /\ (n - 1) + 1 = n
  OBVIOUS
<1>5. n > 1 <=> n - 1 > 0
  OBVIOUS
<1> HIDE DEF r, q, u, v, x
<1>6. CASE IsDigitItem(x) /\ r.open
  <2> DEFINE t == Last(r.tokens)
             w == Append(t, x)
             k == Len(u)
  <2>1. /\ q.open /\ Len(q.tokens) = Len(r.tokens) /\ Last(q.tokens) = w
        /\ \A i \in 1 .. Len(r.tokens) - 1 : q.tokens[i] = r.tokens[i]
    BY <1>1, <1>6, ReadOn
  <2>2. /\ v \in Seq(Text!TokenType) /\ Len(v) = k /\ k \in Nat \ {0}
        /\ \A i \in 1 .. k - 1 : v[i] = u[i]
        /\ v[k] = [first |-> u[k].first, value |-> 10 * u[k].value + ToDigit(x)]
        /\ Text!InNumber(v)
    BY <1>1, <1>2, <1>6, TextDigitOn
  <2>3. /\ Len(r.tokens) = k /\ \A i \in 1 .. k : Renders(u[i], r.tokens[i])
        /\ t = r.tokens[k] /\ k \in 1 .. k /\ Renders(u[k], t)
    BY <1>2, <2>2 DEF SameTokens, Last
  <2>4. t \in DigitRuns /\ w \in DigitRuns /\ t[1] = w[1] /\ Len(t) \in Nat \ {0}
        /\ Len(w) = Len(t) + 1
    <3>1. t \in RunType /\ IsDigitItem(t[1])
      BY <1>1, <1>6, ReadTypeIs
    <3>2. t \in Seq(Items) /\ Len(t) \in Nat \ {0}
      BY <3>1, RunIs
    <3>3. w[1] = t[1] /\ Len(w) = Len(t) + 1
      BY <1>1, <3>2
    <3>4. w \in RunType
      <4>1. q.open /\ Last(q.tokens) \in RunType
        BY <1>1, <2>1, ReadTypeIs
      <4> QED
        BY <2>1, <4>1
    <3> QED
      BY <3>1, <3>2, <3>3, <3>4 DEF DigitRuns
  <2> HIDE DEF t, w, k
  <2>5. ToDigit(w[1]) # 0
    <3> SUFFICES ASSUME ToDigit(w[1]) = 0 PROVE FALSE
      OBVIOUS
    <3>1. Len(t) = 1 /\ IsDigitItem(t[1]) /\ ToDigit(t[1]) = 0
      BY <2>3, <2>4 DEF Renders, ZerosAlone, DigitRuns
    <3>2. t[1] = s[n - 1] /\ (n - 1 > 1 => ~ IsDigitItem(s[(n - 1) - 1])) /\ n - 1 > 0
      BY <1>2, <1>6, <3>1 DEF t
    <3>3. n - 1 \in Nat \ {0} /\ n - 1 < Len(s) /\ s[(n - 1) + 1] = x
      BY <1>4, <3>2 DEF x
    <3>4. n - 1 > 1 /\ IsDigitItem(s[(n - 1) - 1])
      BY <1>6, <3>1, <3>2, <3>3, TextPlain
    <3> QED
      BY <3>2, <3>4
  <2>6. Value(w) = 10 * Value(t) + ToDigit(x)
    BY <1>1, <1>3, <2>4, ValueAppend DEF w
  <2>7. Renders(v[k], w)
    <3>1. v[k] \in Text!TokenType
      BY <2>2, <2>3
    <3>2. /\ u[k].first = t[1] /\ u[k].value = Value(t)
      BY <2>3, <2>4 DEF Renders, DigitRuns
    <3>3. v[k].first = w[1] /\ v[k].value = Value(w)
      BY <2>2, <2>4, <2>6, <3>2
    <3> QED
      BY <2>4, <2>5, <3>1, <3>3 DEF Renders, ZerosAlone, DigitRuns
  <2>8. SameTokens(q.tokens, v)
    <3>1. Len(q.tokens) = k /\ q.tokens[k] = w
      BY <2>1, <2>3 DEF Last
    <3>2. ASSUME NEW i \in 1 .. k PROVE Renders(v[i], q.tokens[i])
      <4>1. i = k \/ i \in 1 .. k - 1
        BY <2>2
      <4> QED
        BY <2>1, <2>2, <2>3, <2>7, <3>1, <4>1
    <3> QED
      BY <2>2, <3>1, <3>2 DEF SameTokens
  <2>9. Len(Last(q.tokens)) # 1
    <3>1. \A m \in Nat \ {0} : m + 1 # 1
      OBVIOUS
    <3> QED
      BY <2>1, <2>4, <3>1
  <2>10. n > 0
    OBVIOUS
  <2> QED
    BY <1>6, <2>1, <2>2, <2>8, <2>9, <2>10 DEF SameSoFar, q, v, x
<1>7. CASE Skip(x)
  <2>1. ~ IsDigitItem(x)
    BY <1>1, <1>7, TextItems
  <2>2. q.tokens = r.tokens /\ ~ q.open
    BY <1>1, <1>7, <2>1, ReadSkipped
  <2>3. v = u
    <3>1. Text!IsWs(x) /\ Streams \subseteq Seq(Text!Byte) /\ ShortRun \in Nat
      BY <1>1, <1>7, TextItems, TextBytes
    <3> QED
      BY <1>1, <3>1, Text!ReadSpace
  <2>4. ~ r.open
    <3> SUFFICES ASSUME r.open PROVE FALSE
      OBVIOUS
    <3>1. n - 1 > 0 /\ IsDigitItem(s[n - 1])
      BY <1>2
    <3>2. n - 1 \in Nat \ {0} /\ n - 1 < Len(s) /\ s[(n - 1) + 1] = x
      BY <1>4, <3>1 DEF x
    <3> QED
      BY <1>7, <3>1, <3>2, TextPlain
  <2> QED
    BY <1>2, <2>1, <2>2, <2>3, <2>4 DEF SameSoFar, q, v, x
<1>8. CASE ~ Skip(x) /\ ~ (IsDigitItem(x) /\ r.open)
  <2> DEFINE w == <<x>>
             k == Len(u) + 1
  <2>1. /\ q.open = IsDigitItem(x) /\ Len(q.tokens) = Len(r.tokens) + 1
        /\ \A i \in 1 .. Len(r.tokens) : q.tokens[i] = r.tokens[i]
        /\ Last(q.tokens) = w
    BY <1>1, <1>8, ReadNext
  <2>2. /\ v \in Seq(Text!TokenType) /\ Len(v) = k /\ Len(u) \in Nat
        /\ \A i \in 1 .. Len(u) : v[i] = u[i]
        /\ v[k] = [first |-> x, value |-> IF IsDigitItem(x) THEN ToDigit(x) ELSE 0]
        /\ Text!InNumber(v) <=> IsDigitItem(x)
    BY <1>1, <1>2, <1>8, TextNext
  <2>3. w \in RunType /\ Len(w) = 1 /\ w[1] = x
    BY <1>1, OneItem
  <2>4. IsDigitItem(x) => Value(w) = ToDigit(x)
    BY <1>1, <1>3, ValueOne
  <2>5. Len(r.tokens) = Len(u) /\ \A i \in 1 .. Len(u) : Renders(u[i], r.tokens[i])
    BY <1>2 DEF SameTokens
  <2> HIDE DEF w
  <2>6. k \in 1 .. k /\ \A i \in 1 .. k : i = k \/ i \in 1 .. Len(u)
    BY <2>2
  <2> HIDE DEF k
  <2>7. Renders(v[k], w)
    <3>1. v[k] \in Text!TokenType
      BY <2>2, <2>6
    <3>2. v[k].first = x /\ v[k].value = IF IsDigitItem(x) THEN ToDigit(x) ELSE 0
      BY <2>2
    <3> QED
      BY <2>3, <2>4, <3>1, <3>2 DEF Renders, ZerosAlone
  <2>8. SameTokens(q.tokens, v)
    <3>1. Len(q.tokens) = k /\ q.tokens[k] = w
      BY <2>1, <2>5 DEF Last, k
    <3>2. ASSUME NEW i \in 1 .. k PROVE Renders(v[i], q.tokens[i])
      BY <2>1, <2>2, <2>5, <2>6, <2>7, <3>1, <3>2
    <3> QED
      BY <2>2, <3>1, <3>2 DEF SameTokens
  <2>9. IsDigitItem(x) /\ n > 1 => ~ IsDigitItem(s[n - 1])
    BY <1>2, <1>5, <1>8
  <2>10. n > 0
    OBVIOUS
  <2> QED
    BY <2>1, <2>2, <2>3, <2>8, <2>9, <2>10 DEF SameSoFar, q, v, x
<1> QED
  BY <1>6, <1>7, <1>8

\* Both read the same tokens of a plain text.
LEMMA PlainRead ==
  ASSUME TextCallbacks, NEW s \in Seq(Items), Direct!Plain(s)
  PROVE  SameTokens(Tokens(s), Text!Tokens(s))
<1> DEFINE S == {n \in Nat : n <= Len(s) => SameSoFar(s, n)}
<1>1. Len(s) \in Nat
  OBVIOUS
<1>2. 0 \in S
  <2>1. /\ s \in Seq(Text!Byte) /\ Streams \subseteq Seq(Text!Byte) /\ ShortRun \in Nat
    BY TextBytes
  <2>2. Text!Reading(s)[0] = <<>>
    BY <2>1, Text!ReadingIs
  <2>3. Reading(s)[0].tokens = <<>> /\ Reading(s)[0].open = FALSE
    BY ReadingIs DEF Nothing
  <2>4. ~ Text!InNumber(<<>>)
    BY DEF Text!InNumber
  <2>5. SameTokens(<<>>, <<>>)
    <3>1. <<>> \in Seq(Text!TokenType) /\ Len(<<>>) = 0
      OBVIOUS
    <3> QED
      BY <3>1 DEF SameTokens
  <2>6. SameSoFar(s, 0)
    BY <2>2, <2>3, <2>4, <2>5 DEF SameSoFar
  <2> QED
    BY <2>6
<1>3. ASSUME NEW n \in Nat, n \in S PROVE n + 1 \in S
  <2> SUFFICES ASSUME n + 1 <= Len(s) PROVE SameSoFar(s, n + 1)
    OBVIOUS
  <2>1. n + 1 \in Nat \ {0} /\ (n + 1) - 1 = n /\ SameSoFar(s, n)
    BY <1>1, <1>3
  <2> QED
    BY <2>1, SameRead
<1>4. Len(s) \in S
  <2> HIDE DEF S
  <2> QED
    BY <1>1, <1>2, <1>3, Induction
<1>5. SameSoFar(s, Len(s))
  BY <1>1, <1>4
<1> QED
  BY <1>5 DEF SameSoFar, Tokens, Text!Tokens

\* Lists of the same tokens compare alike.
LEMMA TextTokenCmp ==
  ASSUME TextCallbacks, NEW t, NEW p, NEW z, NEW q, SameTokens(t, p), SameTokens(z, q)
  PROVE  TokenCmp(t, z) = Text!CmpTokenLists(p, q)
<1> DEFINE n == Smaller(Len(t), Len(z))
           stops == {i \in 0 .. n - 1 : CmpTokens(At(t, i), At(z, i)) # "Equal"}
           k == FirstStop(0, n, stops)
<1>1. /\ Len(p) = Len(t) /\ Len(q) = Len(z) /\ Len(t) \in Nat /\ Len(z) \in Nat
      /\ \A i \in 1 .. Len(t) : Renders(p[i], t[i])
      /\ \A i \in 1 .. Len(z) : Renders(q[i], z[i])
  <2>1. p \in Seq(Text!TokenType) /\ q \in Seq(Text!TokenType)
    BY DEF SameTokens
  <2>2. Len(p) \in Nat /\ Len(q) \in Nat
    BY <2>1
  <2> QED
    BY <2>2 DEF SameTokens
<1>2. n \in Nat /\ n <= Len(t) /\ n <= Len(z) /\ Text!Smaller(Len(p), Len(q)) = n
  BY <1>1 DEF Smaller, Text!Smaller
<1> HIDE DEF n
<1>3. /\ k \in 0 .. n /\ (k = n \/ k \in stops)
      /\ \A i \in 0 .. n : i < k => i \notin stops
  <2>1. 0 \in Nat /\ 0 <= n
    BY <1>2
  <2> HIDE DEF stops
  <2> QED
    BY <1>2, <2>1, FirstStopIs
<1>4. ASSUME NEW i \in 0 .. n - 1
      PROVE  /\ Text!CmpTokens(p[i + 1], q[i + 1]) = CmpTokens(At(t, i), At(z, i))
             /\ p[i + 1] = q[i + 1] <=> i \notin stops
  <2>1. i + 1 \in 1 .. Len(t) /\ i + 1 \in 1 .. Len(z)
    BY <1>1, <1>2
  <2>2. Renders(p[i + 1], t[i + 1]) /\ Renders(q[i + 1], z[i + 1])
    BY <1>1, <2>1
  <2>3. /\ Text!CmpTokens(p[i + 1], q[i + 1]) = CmpTokens(t[i + 1], z[i + 1])
        /\ p[i + 1] = q[i + 1] <=> CmpTokens(t[i + 1], z[i + 1]) = "Equal"
    BY <2>2, RendersAlike
  <2> QED
    BY <2>3 DEF At
<1> HIDE DEF stops, k
<1>5. Text!SameRun(p, 0, q, 0, k)
  <2> SUFFICES ASSUME NEW i \in 0 .. k - 1 PROVE p[i + 1] = q[i + 1]
    BY DEF Text!SameRun, Text!At
  <2>1. i \in 0 .. n - 1 /\ i \in 0 .. n /\ i < k
    BY <1>2, <1>3
  <2> QED
    BY <1>3, <1>4, <2>1
<1>6. k # n => p[k + 1] # q[k + 1] /\ Text!CmpTokens(p[k + 1], q[k + 1])
                                        = CmpTokens(At(t, k), At(z, k))
  <2>1. k # n => k \in 0 .. n - 1 /\ k \in stops
    BY <1>2, <1>3
  <2> QED
    BY <1>4, <2>1
<1>7. Text!EqualBytes(p, 0, q, 0, n) = k
  <2>1. 0 \in Nat /\ k \in 0 .. n /\ 0 + k = k
    BY <1>2, <1>3
  <2>2. k # n => Text!At(p, 0 + k) # Text!At(q, 0 + k)
    BY <1>6, <2>1 DEF Text!At
  <2>3. Streams \subseteq Seq(Text!Byte) /\ ShortRun \in Nat
    BY TextBytes
  <2> QED
    BY <1>2, <1>5, <2>1, <2>2, <2>3, Text!EqualBytesUnique
<1>8. Text!CmpTokenLists(p, q) = IF k = n THEN Cmp(Len(t), Len(z))
                                 ELSE CmpTokens(At(t, k), At(z, k))
  <2>1. Text!CmpTokenLists(p, q) = IF k = n THEN Text!Cmp(Len(p), Len(q))
                                   ELSE Text!CmpTokens(p[k + 1], q[k + 1])
    BY <1>2, <1>7 DEF Text!CmpTokenLists, Text!At
  <2>2. Text!Cmp(Len(p), Len(q)) = Cmp(Len(t), Len(z))
    BY <1>1 DEF Text!Cmp, Cmp
  <2> QED
    BY <1>6, <2>1, <2>2
<1>9. TokenCmp(t, z) = IF k = n THEN Cmp(Len(t), Len(z))
                       ELSE CmpTokens(At(t, k), At(z, k))
  BY DEF TokenCmp, n, k, stops
<1> QED
  BY <1>8, <1>9

\* The reference of the run and the one of the proofs are one.
LEMMA TextConstants ==
  /\ \A x, y : Text!Cmp(x, y) = Direct!Cmp(x, y)
  /\ \A s, t : Text!Start(s, t) = Direct!Start(s, t)
  /\ \A s, p : Text!WsEnd(s, p) = Direct!WsEnd(s, p)
  /\ \A s, p, t, q : Text!HandleDigits(s, p, t, q) = Direct!HandleDigits(s, p, t, q)
<1>1. ASSUME NEW x, NEW y PROVE Text!Cmp(x, y) = Direct!Cmp(x, y)
  BY DEF Direct!Cmp, Text!Cmp
<1>2. ASSUME NEW s, NEW t PROVE Text!Start(s, t) = Direct!Start(s, t)
  BY DEF Direct!Start, Text!Start, Direct!SkipEqual, Text!SkipEqual,
      Direct!EqualBytes, Text!EqualBytes, Direct!FirstStop, Text!FirstStop,
      Direct!Least, Text!Least, Direct!At, Text!At, Direct!Smaller, Text!Smaller,
      Direct!MidRun, Text!MidRun, Direct!IsDigit, Text!IsDigit
<1>3. ASSUME NEW s, NEW p PROVE Text!WsEnd(s, p) = Direct!WsEnd(s, p)
  BY DEF Direct!WsEnd, Text!WsEnd, Direct!IsWs, Text!IsWs, Direct!FirstStop, Text!FirstStop,
      Direct!Least, Text!Least, Direct!At, Text!At
<1>4. ASSUME NEW s, NEW p, NEW t, NEW q
      PROVE  Text!HandleDigits(s, p, t, q) = Direct!HandleDigits(s, p, t, q)
  <2>1. /\ \A from, to, stops : Text!FirstStop(from, to, stops) = Direct!FirstStop(from, to, stops)
        /\ \A z, k : Text!At(z, k) = Direct!At(z, k)
        /\ \A m, n : Text!Smaller(m, n) = Direct!Smaller(m, n)
        /\ \A c : Text!IsDigit(c) <=> Direct!IsDigit(c)
        /\ \A order, by : Text!Outcome(order, by) = Direct!Outcome(order, by)
    BY DEF Direct!FirstStop, Text!FirstStop, Direct!Least, Text!Least, Direct!At, Text!At,
        Direct!Smaller, Text!Smaller, Direct!IsDigit, Text!IsDigit,
        Direct!Outcome, Text!Outcome
  <2>2. \A z, k : Text!DigitAt(z, k) <=> Direct!DigitAt(z, k)
    BY <2>1 DEF Direct!DigitAt, Text!DigitAt
  <2>3. \A k : Text!BothDigitAt(s, p, t, q, k) <=> Direct!BothDigitAt(s, p, t, q, k)
    BY <2>2 DEF Direct!BothDigitAt, Text!BothDigitAt
  <2>4. \A z, k : Text!DigitEnd(z, k) = Direct!DigitEnd(z, k)
    BY <2>1 DEF Direct!DigitEnd, Text!DigitEnd
  <2>5. \A stops : Text!WalkEnd(s, p, t, q, stops) = Direct!WalkEnd(s, p, t, q, stops)
    BY <2>1 DEF Direct!WalkEnd, Text!WalkEnd
  <2>6. \A n : Text!EqualBytes(s, p, t, q, n) = Direct!EqualBytes(s, p, t, q, n)
    BY <2>1 DEF Direct!EqualBytes, Text!EqualBytes
  <2>7. \A n : Text!CompareWords(s, p, t, q, n) = Direct!CompareWords(s, p, t, q, n)
    BY <1>1, <2>1, <2>6 DEF Direct!CompareWords, Text!CompareWords
  <2>8. Text!LeftShort(s, p, t, q) = Direct!LeftShort(s, p, t, q)
    <3>1. {i \in 0 .. Len(s) : ~ Text!BothDigitAt(s, p, t, q, i)
                                 \/ Text!At(s, p + i) # Text!At(t, q + i)}
            = {i \in 0 .. Len(s) : ~ Direct!BothDigitAt(s, p, t, q, i)
                                     \/ Direct!At(s, p + i) # Direct!At(t, q + i)}
      BY <2>1, <2>3
    <3> QED
      BY <1>1, <2>1, <2>2, <2>5, <3>1 DEF Direct!LeftShort, Text!LeftShort
  <2>9. Text!RightShort(s, p, t, q) = Direct!RightShort(s, p, t, q)
    <3>1. {i \in 0 .. Len(s) : ~ Text!BothDigitAt(s, p, t, q, i)}
            = {i \in 0 .. Len(s) : ~ Direct!BothDigitAt(s, p, t, q, i)}
      BY <2>3
    <3> QED
      BY <2>1, <2>2, <2>5, <2>7, <3>1 DEF Direct!RightShort, Text!RightShort
  <2>10. Text!LeftLong(s, p, t, q) = Direct!LeftLong(s, p, t, q)
    BY <1>1, <2>1, <2>4, <2>7 DEF Direct!LeftLong, Text!LeftLong
  <2>11. Text!RightLong(s, p, t, q) = Direct!RightLong(s, p, t, q)
    BY <1>1, <2>1, <2>4, <2>7 DEF Direct!RightLong, Text!RightLong
  <2>12. Text!Short(s, p, t, q) <=> Direct!Short(s, p, t, q)
    BY DEF Direct!Short, Text!Short
  <2>13. \A z, k : Text!LeadingZero(z, k) <=> Direct!LeadingZero(z, k)
    BY <2>1 DEF Direct!LeadingZero, Text!LeadingZero, Direct!Zero, Text!Zero
  <2>14. /\ Text!LeftAligned(s, p, t, q) = Direct!LeftAligned(s, p, t, q)
         /\ Text!RightAligned(s, p, t, q) = Direct!RightAligned(s, p, t, q)
    BY <2>8, <2>9, <2>10, <2>11, <2>12
    DEF Direct!LeftAligned, Text!LeftAligned, Direct!RightAligned, Text!RightAligned
  <2> QED
    BY <2>13, <2>14 DEF Direct!HandleDigits, Text!HandleDigits
<1> QED
  BY <1>1, <1>2, <1>3, <1>4

LEMMA TextSteps ==
  ASSUME Direct!Next
  PROVE  Text!Next
<1>1. /\ \A order : Text!Settle(order) <=> Direct!Settle(order)
      /\ \A x, y : Text!Consume(x, y) <=> Direct!Consume(x, y)
  BY DEF Text!Settle, Direct!Settle, Text!Consume, Direct!Consume
<1>2. /\ Text!ca = Direct!ca /\ Text!cb = Direct!cb
      /\ Text!AtEnd <=> Direct!AtEnd
      /\ Text!InLoop <=> Direct!InLoop
      /\ Text!BothDigits <=> Direct!BothDigits
      /\ Text!Differ <=> Direct!Differ
      /\ Text!AtBoundary <=> Direct!AtBoundary
  BY DEF Direct!ca, Text!ca, Direct!cb, Text!cb, Direct!At, Text!At, Direct!AtEnd, Text!AtEnd,
      Direct!InLoop, Text!InLoop, Direct!BothDigits, Text!BothDigits,
      Direct!IsDigit, Text!IsDigit, Direct!Differ, Text!Differ, Direct!IsWs, Text!IsWs,
      Direct!AtBoundary, Text!AtBoundary
<1>3. \A x : (Text!IsDigit(x) <=> Direct!IsDigit(x)) /\ (Text!IsWs(x) <=> Direct!IsWs(x))
  BY DEF Text!IsDigit, Direct!IsDigit, Text!IsWs, Direct!IsWs
<1>4. Direct!SamePointer => Text!SamePointer
  BY <1>1, <1>2, <1>3, TextConstants DEF Direct!SamePointer, Text!SamePointer
<1>5. Direct!New => Text!New
  BY <1>1, <1>2, <1>3, TextConstants DEF Direct!New, Text!New
<1>6. Direct!End => Text!End
  BY <1>1, <1>2, <1>3, TextConstants DEF Direct!End, Text!End
<1>7. Direct!DigitsSettle => Text!DigitsSettle
  BY <1>1, <1>2, <1>3, TextConstants DEF Direct!DigitsSettle, Text!DigitsSettle
<1>8. Direct!DigitsContinue => Text!DigitsContinue
  BY <1>1, <1>2, <1>3, TextConstants DEF Direct!DigitsContinue, Text!DigitsContinue
<1>9. Direct!SkipWs => Text!SkipWs
  BY <1>1, <1>2, <1>3, TextConstants DEF Direct!SkipWs, Text!SkipWs
<1>10. Direct!Boundary => Text!Boundary
  BY <1>1, <1>2, <1>3, TextConstants DEF Direct!Boundary, Text!Boundary
<1>11. Direct!Mismatch => Text!Mismatch
  BY <1>1, <1>2, <1>3, TextConstants DEF Direct!Mismatch, Text!Mismatch
<1>12. Direct!Advance => Text!Advance
  BY <1>1, <1>2, <1>3, TextConstants DEF Direct!Advance, Text!Advance
<1>13. Direct!Idle => Text!Idle
  BY <1>1, <1>2, <1>3, TextConstants DEF Direct!Idle, Text!Idle, Text!vars, Direct!vars
<1> QED
  BY <1>4, <1>5, <1>6, <1>7, <1>8, <1>9, <1>10, <1>11, <1>12, <1>13
  DEF Direct!Next, Direct!Step, Direct!Iterate, Text!Next, Text!Step, Text!Iterate

\* What the reference keeps is what its proofs keep.
TextInv == Text!IInv /\ Text!InSync /\ Text!NaturalOnPlain

LEMMA TextInitial ==
  ASSUME TextCallbacks, Direct!Init
  PROVE  TextInv
<1>1. Streams \subseteq Seq(Text!Byte) /\ ShortRun \in Nat
  BY TextBytes
<1>2. Text!Init
  BY DEF Direct!Init, Text!Init
<1>3. Text!IInv
  BY <1>1, <1>2, Text!InitInv
<1>4. Text!InSync /\ Text!NaturalOnPlain
  BY <1>2 DEF Text!Init, Text!InSync, Text!NaturalOnPlain
<1> QED
  BY <1>3, <1>4 DEF TextInv

\* While compare_iter has its turn, compare's state stays as it is.
LEMMA TextTurn ==
  ASSUME [PairNext]_pairVars
  PROVE  [Text!Next]_(Text!vars)
<1>1. CASE DirectStep
  <2>1. Direct!Next
    BY <1>1 DEF DirectStep, Direct!Next
  <2> QED
    BY <2>1, TextSteps
<1>2. CASE Step /\ UNCHANGED directVars
  <2>1. ASSUME NEW place, ReadBoth(place) PROVE UNCHANGED <<left, right>>
    BY <2>1 DEF ReadBoth
  <2>2. ASSUME NEW order, Settle(order) PROVE UNCHANGED <<left, right>>
    BY <2>2 DEF Settle
  <2>3. UNCHANGED <<left, right>>
    BY <1>2, <2>1, <2>2
    DEF Step, Start, SkipItems, End, ItemsDiffer, ItemsEqual, EnterLeft, ZeroSettles, EnterRight,
        RunLonger, DigitsEqual, DigitsDiffer, DigitsRight, RunsEnd, RunsSettle
  <2> QED
    BY <1>2, <2>3 DEF Text!vars, directVars
<1>3. CASE UNCHANGED pairVars \/ PairIdle
  BY <1>3 DEF PairIdle, Idle, pairVars, vars, Text!vars, directVars
<1> QED
  BY <1>1, <1>2, <1>3 DEF PairNext, IterStep

LEMMA TextInductive ==
  ASSUME TextCallbacks, TextInv, [Text!Next]_(Text!vars)
  PROVE  TextInv'
<1>1. Streams \subseteq Seq(Text!Byte) /\ ShortRun \in Nat
  BY TextBytes
<1>2. Text!IInv /\ Text!InSync /\ Text!NaturalOnPlain
  BY DEF TextInv
<1>3. (Text!IInv)'
  BY <1>1, <1>2, Text!Inductive
<1>4. (Text!InSync)'
  BY <1>1, <1>2, Text!SyncInductive
<1>5. (Text!NaturalOnPlain)'
  BY <1>1, <1>2, Text!NaturalInductive
<1> QED
  BY <1>3, <1>4, <1>5 DEF TextInv

\* Both have read the numbers, and the numbers are the same.
LEMMA AgreeWhenDone ==
  ASSUME TextCallbacks, RInv, TextInv
  PROVE  AgreeOnPlain
<1> SUFFICES ASSUME BothReturned, Direct!Plain(left), Direct!Plain(right) PROVE res = dres
  BY DEF AgreeOnPlain
<1>1. left \in Seq(Items) /\ right \in Seq(Items)
  BY StreamsAssumption DEF RInv, IInv, TypeOK
<1>2. res = TokenCmp(Tokens(left), Tokens(right))
  BY DEF RInv, IterIsNatural, BothReturned
<1>3. SameTokens(Tokens(left), Text!Tokens(left)) /\ SameTokens(Tokens(right), Text!Tokens(right))
  BY <1>1, PlainRead
<1>4. TokenCmp(Tokens(left), Tokens(right))
        = Text!CmpTokenLists(Text!Tokens(left), Text!Tokens(right))
  BY <1>3, TextTokenCmp
<1>5. dres # "Undecided"
  <2>1. Text!Open
    BY DEF TextInv, Text!IInv
  <2> QED
    BY <2>1 DEF Text!Open, BothReturned
<1>6. \A s : Direct!Plain(s) => Text!Plain(s)
  BY DEF Direct!Plain, Text!Plain, Direct!IsWs, Text!IsWs, Direct!IsDigit, Text!IsDigit,
      Direct!Zero, Text!Zero
<1>7. dres = Text!NaturalCmp(left, right)
  BY <1>5, <1>6 DEF TextInv, Text!NaturalOnPlain
<1> QED
  BY <1>2, <1>4, <1>7 DEF Text!NaturalCmp

\* On plain text compare_iter and compare return the same, although the one reads its
\* items once, in step and to the end of both streams, and the other looks back, skips
\* the common prefix and scans runs of digits ahead.  prop_compare_iter_matches_compare
\* says so of alphanumeric texts; here the zeros it forgets are excluded, and white space
\* is admitted where it neither follows a digit nor ends the text.
THEOREM AgreesWithCompare ==
  ASSUME TextCallbacks
  PROVE  PairSpec => []AgreeOnPlain
<1>1. Decimal /\ Alike
  BY TextIsDecimal
<1>2. PairInit => RInv /\ TextInv
  BY ReadInit, TextInitial DEF PairInit
<1>3. RInv /\ TextInv /\ [PairNext]_pairVars => (RInv /\ TextInv)'
  <2>1. RInv /\ UNCHANGED pairVars => RInv'
    BY <1>1, ReadInductive DEF pairVars
  <2>2. TextInv /\ [PairNext]_pairVars => TextInv'
    BY TextTurn, TextInductive
  <2> QED
    BY <1>1, <2>1, <2>2, ReadInductive, OneOfTwo
<1>4. RInv /\ TextInv => AgreeOnPlain
  BY AgreeWhenDone
<1> QED
  BY <1>2, <1>3, <1>4, PTL DEF PairSpec
==============================================================================

--------------------------- MODULE OrderLawsProofs ---------------------------
(***************************************************************************)
(* On strings without white space `compare` is a total order, whatever      *)
(* their number and their lengths.  It is antisymmetric step by step: each  *)
(* step of a call is a step of the call with its arguments exchanged.  Then *)
(* the order Ordered of OrderLaws is shown to be a strict one, with no word *)
(* about the code, and the loop to settle in its first round as Ordered     *)
(* says; the laws over several calls are the two together.                  *)
(***************************************************************************)
EXTENDS OrderLaws, NatCompareProofs

-------------------------------------------------------------------------------
(***************************************************************************)
(* What does not speak of the state is the same in the mirror.              *)
(***************************************************************************)
LEMMA MirrorScans ==
  /\ \A x, y : Mirror!Cmp(x, y) = Cmp(x, y)
  /\ \A c : Mirror!IsDigit(c) <=> IsDigit(c)
  /\ \A c : Mirror!IsWs(c) <=> IsWs(c)
  /\ \A s, k : Mirror!DigitAt(s, k) <=> DigitAt(s, k)
  /\ \A s, p : Mirror!DigitEnd(s, p) = DigitEnd(s, p)
  /\ \A x, n, stops : Mirror!FirstStop(x, n, stops) = FirstStop(x, n, stops)
  /\ \A s, p, t, q, n : Mirror!EqualBytes(s, p, t, q, n) = EqualBytes(s, p, t, q, n)
<1>1. \A x, y : Mirror!Cmp(x, y) = Cmp(x, y)
  BY DEF Mirror!Cmp, Cmp
<1>2. \A c : (Mirror!IsDigit(c) <=> IsDigit(c)) /\ (Mirror!IsWs(c) <=> IsWs(c))
  BY DEF Mirror!IsDigit, IsDigit, Mirror!IsWs, IsWs
<1>3. \A s, k : Mirror!DigitAt(s, k) <=> DigitAt(s, k)
  BY DEF Mirror!DigitAt, DigitAt, Mirror!At, At, Mirror!IsDigit, IsDigit
<1>4. \A x, n, stops : Mirror!FirstStop(x, n, stops) = FirstStop(x, n, stops)
  BY DEF Mirror!FirstStop, FirstStop, Mirror!Least, Least
<1>5. \A s, p : Mirror!DigitEnd(s, p) = DigitEnd(s, p)
  BY <1>4 DEF Mirror!DigitEnd, DigitEnd, Mirror!At, At, Mirror!IsDigit, IsDigit
<1>6. \A s, p, t, q, n : Mirror!EqualBytes(s, p, t, q, n) = EqualBytes(s, p, t, q, n)
  BY <1>4 DEF Mirror!EqualBytes, EqualBytes, Mirror!At, At
<1> QED
  BY <1>1, <1>2, <1>3, <1>4, <1>5, <1>6

LEMMA MirrorWords ==
  /\ \A s, p, t, q, n : Mirror!CompareWords(s, p, t, q, n) = CompareWords(s, p, t, q, n)
  /\ \A s, p, t, q, stops : Mirror!WalkEnd(s, p, t, q, stops) = WalkEnd(s, p, t, q, stops)
  /\ \A s, p, t, q, k : Mirror!BothDigitAt(s, p, t, q, k) <=> BothDigitAt(s, p, t, q, k)
<1>1. \A s, p, t, q, n : Mirror!CompareWords(s, p, t, q, n) = CompareWords(s, p, t, q, n)
  BY MirrorScans DEF Mirror!CompareWords, CompareWords, Mirror!At, At
<1>2. \A s, p, t, q, stops : Mirror!WalkEnd(s, p, t, q, stops) = WalkEnd(s, p, t, q, stops)
  BY MirrorScans DEF Mirror!WalkEnd, WalkEnd, Mirror!Smaller, Smaller
<1>3. \A s, p, t, q, k : Mirror!BothDigitAt(s, p, t, q, k) <=> BothDigitAt(s, p, t, q, k)
  BY MirrorScans DEF Mirror!BothDigitAt, BothDigitAt
<1> QED
  BY <1>1, <1>2, <1>3

LEMMA MirrorPaths ==
  ASSUME NEW s, NEW p, NEW t, NEW q
  PROVE  /\ Mirror!LeftShort(s, p, t, q) = LeftShort(s, p, t, q)
         /\ Mirror!RightShort(s, p, t, q) = RightShort(s, p, t, q)
         /\ Mirror!LeftLong(s, p, t, q) = LeftLong(s, p, t, q)
         /\ Mirror!RightLong(s, p, t, q) = RightLong(s, p, t, q)
<1>1. Mirror!LeftShort(s, p, t, q) = LeftShort(s, p, t, q)
  BY MirrorScans, MirrorWords
  DEF Mirror!LeftShort, LeftShort, Mirror!Outcome, Outcome, Mirror!At, At
<1>2. Mirror!RightShort(s, p, t, q) = RightShort(s, p, t, q)
  BY MirrorScans, MirrorWords
  DEF Mirror!RightShort, RightShort, Mirror!Outcome, Outcome
<1>3. Mirror!LeftLong(s, p, t, q) = LeftLong(s, p, t, q)
  BY MirrorScans, MirrorWords
  DEF Mirror!LeftLong, LeftLong, Mirror!Outcome, Outcome, Mirror!Smaller, Smaller
<1>4. Mirror!RightLong(s, p, t, q) = RightLong(s, p, t, q)
  BY MirrorScans, MirrorWords
  DEF Mirror!RightLong, RightLong, Mirror!Outcome, Outcome
<1> QED
  BY <1>1, <1>2, <1>3, <1>4

LEMMA MirrorConstants ==
  /\ \A s, p, t, q : Mirror!HandleDigits(s, p, t, q) = HandleDigits(s, p, t, q)
  /\ \A s, t : Mirror!Start(s, t) = Start(s, t)
<1>1. ASSUME NEW s, NEW p, NEW t, NEW q
      PROVE  Mirror!HandleDigits(s, p, t, q) = HandleDigits(s, p, t, q)
  <2>1. Mirror!Short(s, p, t, q) <=> Short(s, p, t, q)
    BY DEF Mirror!Short, Short
  <2>2. /\ Mirror!LeadingZero(s, p) <=> LeadingZero(s, p)
        /\ Mirror!LeadingZero(t, q) <=> LeadingZero(t, q)
    BY MirrorScans DEF Mirror!LeadingZero, LeadingZero, Mirror!Zero, Zero, Mirror!At, At
  <2>3. Mirror!LeftAligned(s, p, t, q) = LeftAligned(s, p, t, q)
    BY <2>1, MirrorPaths DEF Mirror!LeftAligned, LeftAligned
  <2>4. Mirror!RightAligned(s, p, t, q) = RightAligned(s, p, t, q)
    BY <2>1, MirrorPaths DEF Mirror!RightAligned, RightAligned
  <2> QED
    BY <2>2, <2>3, <2>4 DEF Mirror!HandleDigits, HandleDigits
<1>2. ASSUME NEW s, NEW t
      PROVE  Mirror!Start(s, t) = Start(s, t)
  <2>1. Mirror!SkipEqual(s, t) = SkipEqual(s, t)
    BY MirrorScans DEF Mirror!SkipEqual, SkipEqual, Mirror!Smaller, Smaller
  <2>2. \A k : Mirror!MidRun(s, t, k) <=> MidRun(s, t, k)
    BY MirrorScans DEF Mirror!MidRun, MidRun, Mirror!Smaller, Smaller, Mirror!At, At
  <2> QED
    BY <2>1, <2>2 DEF Mirror!Start, Start
<1> QED
  BY <1>1, <1>2

-------------------------------------------------------------------------------
(***************************************************************************)
(* Without white space the two pointers are level over equal bytes, so that *)
(* what check_digit_boundary sees of a it would see of b.                   *)
(***************************************************************************)
LEMMA MirrorViews ==
  ASSUME IInv, WsFree(a), WsFree(b)
  PROVE  /\ Mirror!ca = cb /\ Mirror!cb = ca
         /\ Mirror!InLoop <=> InLoop
         /\ Mirror!AtEnd <=> AtEnd
         /\ Mirror!BothDigits <=> BothDigits
         /\ Mirror!Differ <=> Differ
         /\ InLoop => (Mirror!AtBoundary <=> AtBoundary)
<1>1. Mirror!ca = cb /\ Mirror!cb = ca
  BY DEF Mirror!ca, Mirror!cb, ca, cb, Mirror!At, At
<1>2. (Mirror!AtEnd <=> AtEnd) /\ (Mirror!InLoop <=> InLoop)
  BY DEF Mirror!InLoop, InLoop, Mirror!AtEnd, AtEnd
<1>3. Mirror!BothDigits <=> BothDigits
  BY <1>1, MirrorScans DEF Mirror!BothDigits, BothDigits
<1>4. Mirror!Differ <=> Differ
  BY <1>1, <1>2, <1>3, MirrorScans DEF Mirror!Differ, Differ
<1>5. ASSUME InLoop PROVE Mirror!AtBoundary <=> AtBoundary
  <2>1. pa = pb /\ \A i \in 0 .. pa - 1 : At(a, i) = At(b, i)
    BY <1>5 DEF IInv, Level, InLoop
  <2>2. pa \in Nat
    BY Lengths DEF IInv
  <2>3. pa > 0 => At(a, pa - 1) = At(b, pb - 1)
    BY <2>1, <2>2
  <2> QED
    BY <1>1, <2>1, <2>3
    DEF Mirror!AtBoundary, AtBoundary, Mirror!IsDigit, IsDigit, Mirror!At, At
<1> QED
  BY <1>1, <1>2, <1>3, <1>4, <1>5

LEMMA MirrorSettle ==
  ASSUME NEW order, Settle(order)
  PROVE  Mirror!Settle(Reversed(order))
BY DEF Settle, Mirror!Settle

LEMMA MirrorConsume ==
  ASSUME NEW x, NEW y, Consume(x, y)
  PROVE  Mirror!Consume(y, x)
BY DEF Consume, Mirror!Consume

LEMMA MirrorStep ==
  ASSUME IInv, WsFree(a), WsFree(b), Step
  PROVE  Mirror!Step
<1>1. TypeOK
  BY DEF IInv
<1>2. CASE SamePointer
  BY <1>2, MirrorSettle, ReversedIs DEF SamePointer, Mirror!SamePointer, Mirror!Step
<1>3. CASE New
  <2>1. pc = "new" /\ Consume(Start(a, b), Start(a, b))
    BY <1>3 DEF New
  <2>2. Start(b, a) = Start(a, b)
    BY <1>1, Lengths, StartExchanged
  <2> QED
    BY <2>1, <2>2, MirrorConsume, MirrorConstants DEF Mirror!New, Mirror!Step
<1>4. CASE End
  <2>1. pc = "loop" /\ AtEnd /\ Settle(Cmp(Len(a) - pa, Len(b) - pb))
    BY <1>4 DEF End
  <2>2. Len(a) - pa \in Int /\ Len(b) - pb \in Int
    BY <1>1, Lengths
  <2>3. Mirror!Settle(Cmp(Len(b) - pb, Len(a) - pa))
    BY <2>1, <2>2, MirrorSettle, CmpReversed
  <2> QED
    BY <2>1, <2>3, MirrorViews, MirrorScans DEF Mirror!End, Mirror!Iterate, Mirror!Step
<1>5. ASSUME InLoop, BothDigits
      PROVE  Exchanged(HandleDigits(a, pa, b, pb), HandleDigits(b, pb, a, pa))
  BY <1>1, <1>5, Looping, HandleDigitsExchanged
<1>6. CASE DigitsSettle
  <2> DEFINE o == HandleDigits(a, pa, b, pb)
             r == HandleDigits(b, pb, a, pa)
  <2>1. InLoop /\ BothDigits /\ o.order # "Undecided" /\ Settle(o.order)
    BY <1>6 DEF DigitsSettle
  <2>2. Fine(a, pa, b, pb, o) /\ Exchanged(o, r)
    BY <1>1, <1>5, <2>1, Looping, HandleDigitsFine
  <2>3. Mirror!HandleDigits(b, pb, a, pa) = r
    BY MirrorConstants
  <2> HIDE DEF o, r
  <2>4. r.order = Reversed(o.order) /\ r.order # "Undecided"
    BY <2>1, <2>2, ReversedIs DEF Exchanged, Fine, Unequal
  <2>5. Mirror!Settle(r.order)
    BY <2>1, <2>4, MirrorSettle
  <2> QED
    BY <2>1, <2>3, <2>4, <2>5, MirrorViews DEF Mirror!DigitsSettle, Mirror!Iterate, Mirror!Step
<1>7. CASE DigitsContinue
  <2> DEFINE o == HandleDigits(a, pa, b, pb)
             r == HandleDigits(b, pb, a, pa)
  <2>1. InLoop /\ BothDigits /\ o.order = "Undecided" /\ Consume(pa + o.by, pb + o.by)
    BY <1>7 DEF DigitsContinue
  <2>2. Exchanged(o, r)
    BY <1>5, <2>1
  <2>3. Mirror!HandleDigits(b, pb, a, pa) = r
    BY MirrorConstants
  <2> HIDE DEF o, r
  <2>4. r.order = "Undecided" /\ r.by = o.by
    BY <2>1, <2>2, ReversedIs DEF Exchanged
  <2>5. Mirror!Consume(pb + r.by, pa + r.by)
    BY <2>1, <2>4, MirrorConsume
  <2> QED
    BY <2>1, <2>3, <2>4, <2>5, MirrorViews DEF Mirror!DigitsContinue, Mirror!Iterate, Mirror!Step
<1>8. CASE SkipWs
  <2>1. InLoop /\ (IsWs(ca) \/ IsWs(cb))
    BY <1>8 DEF SkipWs
  <2>2. pa + 1 \in 1 .. Len(a) /\ pb + 1 \in 1 .. Len(b)
    BY <1>1, <2>1, Looping, Lengths
  <2> QED
    BY <2>1, <2>2 DEF WsFree, NotWs, ca, cb, At
<1>9. CASE Boundary
  <2> DEFINE order == IF IsDigit(ca) THEN "Greater" ELSE "Less"
  <2>1. Differ /\ InLoop /\ AtBoundary /\ Settle(order)
    BY <1>9 DEF Boundary, Differ
  <2>2. Reversed(order) = IF IsDigit(cb) THEN "Greater" ELSE "Less"
    BY <2>1, ReversedIs DEF AtBoundary, IsDigit
  <2> HIDE DEF order
  <2>3. Mirror!Settle(IF IsDigit(cb) THEN "Greater" ELSE "Less")
    BY <2>1, <2>2, MirrorSettle
  <2> QED
    BY <2>1, <2>3, MirrorViews, MirrorScans DEF Mirror!Boundary, Mirror!Iterate, Mirror!Step
<1>10. CASE Mismatch
  <2>1. Differ /\ InLoop /\ ~ AtBoundary /\ Settle(Cmp(ca, cb))
    BY <1>10 DEF Mismatch, Differ
  <2>2. Mirror!Settle(Cmp(cb, ca))
    BY <1>1, <2>1, Looping, MirrorSettle, CmpReversed
  <2> QED
    BY <2>1, <2>2, MirrorViews, MirrorScans DEF Mirror!Mismatch, Mirror!Iterate, Mirror!Step
<1>11. CASE Advance
  <2>1. InLoop /\ ~ BothDigits /\ ca = cb /\ ~ IsWs(cb) /\ Mirror!Consume(pb + 1, pa + 1)
    BY <1>11, MirrorConsume DEF Advance
  <2> QED
    BY <2>1, MirrorViews, MirrorScans DEF Mirror!Advance, Mirror!Iterate, Mirror!Step
<1> QED
  BY <1>2, <1>3, <1>4, <1>6, <1>7, <1>8, <1>9, <1>10, <1>11 DEF Step, Iterate

\* Which side is looked at first, or looked back in, makes no difference: without
\* white space every step of a call is a step of the call with arguments exchanged.
THEOREM Mirrored == Spec => MirrorImage
<1>1. IInv /\ [Next]_vars => [WsFree(a) /\ WsFree(b) /\ Step => Mirror!Step]_vars
  BY MirrorStep
<1> QED
  BY <1>1, Invariance, PTL DEF Spec, MirrorImage

-------------------------------------------------------------------------------
(***************************************************************************)
(* Bytes and runs.                                                          *)
(***************************************************************************)
LEMMA ByteAtIs ==
  ASSUME NEW s \in Seq(Byte), NEW k \in Nat
  PROVE  /\ ByteAt(s, k) \in Int
         /\ ByteAt(s, k) = -1 <=> k >= Len(s)
         /\ k < Len(s) => ByteAt(s, k) = At(s, k)
         /\ DigitAt(s, k) <=> ByteAt(s, k) \in 48 .. 57
<1>1. Len(s) \in Nat
  OBVIOUS
<1>2. CASE k < Len(s)
  <2>1. At(s, k) \in Byte
    BY <1>2, AtByte
  <2>2. \A c \in Byte : c \in Int /\ c # -1
    BY DEF Byte
  <2> QED
    BY <1>1, <1>2, <2>1, <2>2 DEF ByteAt, DigitAt, IsDigit
<1>3. CASE k >= Len(s)
  BY <1>1, <1>3 DEF ByteAt, DigitAt
<1> QED
  BY <1>1, <1>2, <1>3

\* The first position from p on without a digit.
LEMMA DigitEndAt ==
  ASSUME NEW s \in Seq(Byte), NEW p \in 0 .. Len(s)
  PROVE  /\ DigitEnd(s, p) \in Nat /\ p <= DigitEnd(s, p) /\ DigitEnd(s, p) <= Len(s)
         /\ ~ DigitAt(s, DigitEnd(s, p))
         /\ \A i \in Nat : p <= i /\ i < DigitEnd(s, p) => DigitAt(s, i)
<1> DEFINE stops == {k \in 0 .. Len(s) - 1 : ~ IsDigit(At(s, k))}
           f == FirstStop(p, Len(s), stops)
<1>1. Len(s) \in Nat
  OBVIOUS
<1>2. /\ f \in p .. Len(s) /\ (f = Len(s) \/ f \in stops)
      /\ \A i \in p .. Len(s) : i < f => i \notin stops
  <2> HIDE DEF stops
  <2> QED
    BY <1>1, FirstStopIs
<1>3. DigitEnd(s, p) = f
  BY DEF DigitEnd
<1> HIDE DEF f
<1>4. ASSUME NEW i \in Nat, p <= i, i < f PROVE DigitAt(s, i)
  <2>1. i \in p .. Len(s) /\ i \in 0 .. Len(s) - 1
    BY <1>1, <1>2, <1>4
  <2> QED
    BY <1>1, <1>2, <1>4, <2>1 DEF DigitAt
<1> QED
  BY <1>1, <1>2, <1>3, <1>4 DEF DigitAt

LEMMA DigitEndUnique ==
  ASSUME NEW s \in Seq(Byte), NEW p \in 0 .. Len(s), NEW e \in Nat, p <= e,
         ~ DigitAt(s, e), \A i \in Nat : p <= i /\ i < e => DigitAt(s, i)
  PROVE  DigitEnd(s, p) = e
<1> DEFINE f == DigitEnd(s, p)
<1>1. /\ f \in Nat /\ p <= f /\ ~ DigitAt(s, f)
      /\ \A i \in Nat : p <= i /\ i < f => DigitAt(s, i)
  BY DigitEndAt
<1> HIDE DEF f
<1>2. ~ (f < e) /\ ~ (e < f)
  BY <1>1
<1> QED
  BY <1>1, <1>2 DEF f

\* From every place within a run its end is the same.
LEMMA DigitEndWithin ==
  ASSUME NEW s \in Seq(Byte), NEW p \in Nat, NEW q \in Nat, p <= q, q <= Len(s),
         \A i \in Nat : p <= i /\ i < q => DigitAt(s, i)
  PROVE  DigitEnd(s, p) = DigitEnd(s, q)
<1> DEFINE e == DigitEnd(s, q)
<1>1. Len(s) \in Nat
  OBVIOUS
<1>2. q \in 0 .. Len(s) /\ p \in 0 .. Len(s)
  BY <1>1
<1>3. /\ e \in Nat /\ q <= e /\ ~ DigitAt(s, e)
      /\ \A i \in Nat : q <= i /\ i < e => DigitAt(s, i)
  BY <1>2, DigitEndAt
<1> HIDE DEF e
<1>4. p <= e /\ \A i \in Nat : p <= i /\ i < e => DigitAt(s, i)
  BY <1>3
<1> QED
  BY <1>2, <1>3, <1>4, DigitEndUnique DEF e

-------------------------------------------------------------------------------
(***************************************************************************)
(* Strings with a common prefix.                                            *)
(***************************************************************************)
Alike(s, t, k) ==
  /\ k <= Len(s) /\ k <= Len(t)
  /\ \A i \in 0 .. k - 1 : ByteAt(s, i) = ByteAt(t, i)

LEMMA AlikeIs ==
  ASSUME NEW s \in Seq(Byte), NEW t \in Seq(Byte), NEW k \in Nat, Alike(s, t, k)
  PROVE  /\ Alike(t, s, k)
         /\ \A j \in Nat : j <= k => Alike(s, t, j)
         /\ \A i \in Nat : i < k => /\ ByteAt(s, i) = ByteAt(t, i)
                                    /\ At(s, i) = At(t, i)
                                    /\ DigitAt(s, i) <=> DigitAt(t, i)
<1>1. Len(s) \in Nat /\ Len(t) \in Nat
  OBVIOUS
<1>2. Alike(t, s, k) /\ \A j \in Nat : j <= k => Alike(s, t, j)
  BY <1>1 DEF Alike
<1>3. ASSUME NEW i \in Nat, i < k
      PROVE  /\ ByteAt(s, i) = ByteAt(t, i) /\ At(s, i) = At(t, i)
             /\ DigitAt(s, i) <=> DigitAt(t, i)
  <2>1. i \in 0 .. k - 1 /\ i < Len(s) /\ i < Len(t)
    BY <1>1, <1>3 DEF Alike
  <2>2. ByteAt(s, i) = ByteAt(t, i)
    BY <2>1 DEF Alike
  <2> QED
    BY <2>1, <2>2, ByteAtIs
<1> QED
  BY <1>2, <1>3

LEMMA AlikeTransitive ==
  ASSUME NEW s \in Seq(Byte), NEW t \in Seq(Byte), NEW u \in Seq(Byte), NEW k \in Nat,
         Alike(s, t, k), Alike(t, u, k)
  PROVE  Alike(s, u, k)
BY DEF Alike

LEMMA FirstDifferenceIs ==
  ASSUME NEW s \in Seq(Byte), NEW t \in Seq(Byte), NEW k \in Nat
  PROVE  /\ FirstDifference(s, t, k) <=> Alike(s, t, k) /\ ByteAt(s, k) # ByteAt(t, k)
         /\ FirstDifference(s, t, k) <=> FirstDifference(t, s, k)
<1>1. Len(s) \in Nat /\ Len(t) \in Nat
  OBVIOUS
<1> QED
  BY <1>1 DEF FirstDifference, Alike

LEMMA FirstDifferenceUnique ==
  ASSUME NEW s \in Seq(Byte), NEW t \in Seq(Byte), NEW k \in Nat, NEW m \in Nat,
         FirstDifference(s, t, k), FirstDifference(s, t, m)
  PROVE  k = m
<1>1. ~ (k < m) /\ ~ (m < k)
  BY DEF FirstDifference
<1> QED
  BY <1>1

\* The prefix skip ends at the first difference.
LEMMA SkipEqualIs ==
  ASSUME NEW s \in Seq(Byte), NEW t \in Seq(Byte)
  PROVE  LET k == SkipEqual(s, t)
         IN  /\ k \in Nat /\ Alike(s, t, k)
             /\ s # t => FirstDifference(s, t, k)
<1> DEFINE n == Smaller(Len(s), Len(t))
           k == EqualBytes(s, 0, t, 0, n)
<1>1. Len(s) \in Nat /\ Len(t) \in Nat
  OBVIOUS
<1>2. n \in Nat /\ n <= Len(s) /\ n <= Len(t) /\ (n = Len(s) \/ n = Len(t))
  BY <1>1 DEF Smaller
<1>3. SkipEqual(s, t) = k
  BY DEF SkipEqual
<1> HIDE DEF n
<1>4. k \in 0 .. n /\ SameRun(s, 0, t, 0, k) /\ (k # n => At(s, 0 + k) # At(t, 0 + k))
  BY <1>2, EqualBytesIs
<1> HIDE DEF k
<1>5. k \in Nat /\ k <= Len(s) /\ k <= Len(t)
  BY <1>1, <1>2, <1>4
<1>6. ASSUME NEW i \in 0 .. k - 1 PROVE At(s, i) = At(t, i) /\ ByteAt(s, i) = ByteAt(t, i)
  <2>1. At(s, 0 + i) = At(t, 0 + i) /\ 0 + i = i
    BY <1>4 DEF SameRun
  <2>2. i < Len(s) /\ i < Len(t)
    BY <1>1, <1>5
  <2> QED
    BY <2>1, <2>2 DEF ByteAt
<1>7. Alike(s, t, k)
  BY <1>5, <1>6 DEF Alike
<1>8. ASSUME ByteAt(s, k) = ByteAt(t, k) PROVE s = t
  <2>1. /\ ByteAt(s, k) = -1 <=> k >= Len(s)
        /\ ByteAt(t, k) = -1 <=> k >= Len(t)
        /\ k < Len(s) => ByteAt(s, k) = At(s, k)
        /\ k < Len(t) => ByteAt(t, k) = At(t, k)
    BY <1>5, ByteAtIs
  <2>2. k = n
    BY <1>1, <1>2, <1>4, <1>5, <1>8, <2>1
  <2>3. k = Len(s) /\ k = Len(t)
    BY <1>1, <1>2, <1>5, <1>8, <2>1, <2>2
  <2>4. ASSUME NEW j \in 1 .. Len(s) PROVE s[j] = t[j]
    <3>1. j - 1 \in 0 .. k - 1 /\ (j - 1) + 1 = j
      BY <1>1, <2>3
    <3>2. s[(j - 1) + 1] = t[(j - 1) + 1]
      BY <1>6, <3>1 DEF At
    <3> QED
      BY <3>1, <3>2
  <2> QED
    BY <2>3, <2>4, SeqEqual
<1> QED
  BY <1>3, <1>5, <1>7, <1>8, FirstDifferenceIs

-------------------------------------------------------------------------------
(***************************************************************************)
(* Which of the three ways to compare applies at a first difference.        *)
(***************************************************************************)
Fraction(s, k) == Inside(s, k) /\ LeadingZero(s, k - 1)

\* The byte belongs to a number, whose length counts first.
OfNumber(s, k) ==
  \/ Inside(s, k) /\ ~ LeadingZero(s, k - 1)
  \/ ~ Inside(s, k) /\ DigitAt(s, k) /\ ByteAt(s, k) # Zero

LEMMA InsideAlike ==
  ASSUME NEW s \in Seq(Byte), NEW t \in Seq(Byte), NEW k \in Nat, Alike(s, t, k)
  PROVE  /\ Inside(s, k) <=> Inside(t, k)
         /\ Fraction(s, k) <=> Fraction(t, k)
<1>1. Inside(s, k) <=> Inside(t, k)
  <2>1. k > 0 => k - 1 \in Nat /\ k - 1 < k
    OBVIOUS
  <2>2. k > 0 => At(s, k - 1) = At(t, k - 1)
    BY <2>1, AlikeIs
  <2> QED
    BY <2>2 DEF Inside
<1>2. ASSUME k > 0 PROVE LeadingZero(s, k - 1) <=> LeadingZero(t, k - 1)
  <2>1. k - 1 \in Nat /\ k - 1 < k
    BY <1>2
  <2>2. At(s, k - 1) = At(t, k - 1)
    BY <2>1, AlikeIs
  <2>3. k - 1 # 0 => (k - 1) - 1 \in Nat /\ (k - 1) - 1 < k
    BY <2>1
  <2>4. k - 1 # 0 => At(s, (k - 1) - 1) = At(t, (k - 1) - 1)
    BY <2>3, AlikeIs
  <2> QED
    BY <2>2, <2>4 DEF LeadingZero
<1> QED
  BY <1>1, <1>2 DEF Fraction, Inside

\* What Below comes to in each of them.
LEMMA BelowIs ==
  ASSUME NEW s \in Seq(Byte), NEW t \in Seq(Byte), NEW k \in Nat, Alike(s, t, k)
  PROVE  /\ Fraction(s, k) => (Below(s, t, k) <=> BelowInFraction(s, t, k))
         /\ OfNumber(s, k) /\ OfNumber(t, k) => (Below(s, t, k) <=> BelowByLength(s, t, k))
         /\ ~ Fraction(s, k) /\ ~ (OfNumber(s, k) /\ OfNumber(t, k)) =>
              (Below(s, t, k) <=> ByteAt(s, k) < ByteAt(t, k))
<1>1. (Inside(s, k) <=> Inside(t, k)) /\ (Fraction(s, k) <=> Fraction(t, k))
  BY InsideAlike
<1>2. CASE Inside(s, k) /\ LeadingZero(s, k - 1)
  BY <1>2 DEF Below, Fraction, OfNumber
<1>3. CASE Inside(s, k) /\ ~ LeadingZero(s, k - 1)
  BY <1>1, <1>3 DEF Below, Fraction, OfNumber
<1>4. CASE ~ Inside(s, k) /\ TwoNumbers(s, t, k)
  <2>1. OfNumber(s, k) /\ OfNumber(t, k) /\ ~ Fraction(s, k)
    BY <1>1, <1>4 DEF TwoNumbers, OfNumber, Fraction
  <2> QED
    BY <1>4, <2>1 DEF Below
<1>5. CASE ~ Inside(s, k) /\ ~ TwoNumbers(s, t, k)
  <2>1. ~ (OfNumber(s, k) /\ OfNumber(t, k)) /\ ~ Fraction(s, k)
    BY <1>1, <1>5 DEF TwoNumbers, OfNumber, Fraction
  <2> QED
    BY <1>5, <2>1 DEF Below
<1> QED
  BY <1>2, <1>3, <1>4, <1>5

\* Whether a byte that two strings share belongs to a number is the same in both.
LEMMA OfNumberAlike ==
  ASSUME NEW s \in Seq(Byte), NEW t \in Seq(Byte), NEW k \in Nat, Alike(s, t, k),
         ByteAt(s, k) = ByteAt(t, k)
  PROVE  OfNumber(s, k) <=> OfNumber(t, k)
<1>1. (Inside(s, k) <=> Inside(t, k)) /\ (Fraction(s, k) <=> Fraction(t, k))
  BY InsideAlike
<1>2. DigitAt(s, k) <=> DigitAt(t, k)
  BY ByteAtIs
<1> QED
  BY <1>1, <1>2 DEF OfNumber, Fraction

\* Further on in the run of a number the bytes are those of a number.
LEMMA OfNumberWithin ==
  ASSUME NEW s \in Seq(Byte), NEW i \in Nat, NEW j \in Nat, i < j, OfNumber(s, i),
         \A m \in Nat : i <= m /\ m < j => DigitAt(s, m)
  PROVE  OfNumber(s, j)
<1>1. j - 1 \in Nat /\ i <= j - 1 /\ j - 1 < j
  OBVIOUS
<1>2. DigitAt(s, j - 1) /\ Inside(s, j)
  BY <1>1 DEF DigitAt, Inside
<1>3. CASE j - 1 = i
  <2>1. ~ LeadingZero(s, i)
    <3>1. CASE Inside(s, i)
      BY <3>1 DEF LeadingZero, Inside
    <3>2. CASE ~ Inside(s, i)
      <4>1. DigitAt(s, i) /\ ByteAt(s, i) # Zero
        BY <3>2 DEF OfNumber
      <4>2. i < Len(s) /\ At(s, i) # Zero
        BY <4>1 DEF DigitAt, ByteAt
      <4> QED
        BY <4>2 DEF LeadingZero
    <3> QED
      BY <3>1, <3>2
  <2> QED
    BY <1>2, <1>3, <2>1 DEF OfNumber
<1>4. CASE j - 1 # i
  <2>1. (j - 1) - 1 \in Nat /\ i <= (j - 1) - 1 /\ (j - 1) - 1 < j
    BY <1>1, <1>4
  <2>2. IsDigit(At(s, (j - 1) - 1)) /\ j - 1 # 0
    BY <1>1, <2>1 DEF DigitAt
  <2> QED
    BY <1>2, <2>2 DEF OfNumber, LeadingZero
<1> QED
  BY <1>3, <1>4

\* The runs at i of two strings that are alike up to j end alike, or reach j in both.
LEMMA RunKept ==
  ASSUME NEW s \in Seq(Byte), NEW t \in Seq(Byte), NEW i \in Nat, NEW j \in Nat,
         i <= j, Alike(s, t, j)
  PROVE  \/ DigitEnd(s, i) = DigitEnd(t, i)
         \/ /\ \A m \in Nat : i <= m /\ m < j => DigitAt(s, m) /\ DigitAt(t, m)
            /\ DigitEnd(s, i) = DigitEnd(s, j)
            /\ DigitEnd(t, i) = DigitEnd(t, j)
<1> DEFINE e == DigitEnd(s, i)
<1>1. Len(s) \in Nat /\ Len(t) \in Nat /\ j <= Len(s) /\ j <= Len(t)
  BY DEF Alike
<1>2. i \in 0 .. Len(s) /\ i \in 0 .. Len(t)
  BY <1>1
<1>3. /\ e \in Nat /\ i <= e /\ ~ DigitAt(s, e)
      /\ \A m \in Nat : i <= m /\ m < e => DigitAt(s, m)
  BY <1>2, DigitEndAt
<1>4. \A m \in Nat : m < j => (DigitAt(s, m) <=> DigitAt(t, m))
  BY AlikeIs
<1> HIDE DEF e
<1>5. CASE e < j
  <2>1. ~ DigitAt(t, e) /\ \A m \in Nat : i <= m /\ m < e => DigitAt(t, m)
    BY <1>3, <1>4, <1>5
  <2>2. DigitEnd(t, i) = e
    BY <1>2, <1>3, <2>1, DigitEndUnique
  <2> QED
    BY <2>2 DEF e
<1>6. CASE j <= e
  <2>1. \A m \in Nat : i <= m /\ m < j => DigitAt(s, m) /\ DigitAt(t, m)
    BY <1>3, <1>4, <1>6
  <2> QED
    BY <1>1, <2>1, DigitEndWithin
<1> QED
  BY <1>3, <1>5, <1>6

-------------------------------------------------------------------------------
(***************************************************************************)
(* Ordered is a strict order.                                               *)
(***************************************************************************)
LEMMA BelowAsymmetric ==
  ASSUME NEW s \in Seq(Byte), NEW t \in Seq(Byte), NEW k \in Nat,
         FirstDifference(s, t, k), Below(s, t, k)
  PROVE  ~ Below(t, s, k)
<1>1. Alike(s, t, k) /\ Alike(t, s, k)
  BY FirstDifferenceIs, AlikeIs
<1>2. (Fraction(s, k) <=> Fraction(t, k)) /\ k \in 0 .. Len(s) /\ k \in 0 .. Len(t)
  BY <1>1, InsideAlike DEF FirstDifference
<1>3. ByteAt(s, k) \in Int /\ ByteAt(t, k) \in Int
  BY ByteAtIs
<1>4. DigitEnd(s, k) \in Nat /\ DigitEnd(t, k) \in Nat
  BY <1>2, DigitEndAt
<1>5. CASE Fraction(s, k)
  BY <1>1, <1>2, <1>3, <1>5, BelowIs DEF BelowInFraction
<1>6. CASE OfNumber(s, k) /\ OfNumber(t, k)
  BY <1>1, <1>3, <1>4, <1>6, BelowIs DEF BelowByLength
<1>7. CASE ~ Fraction(s, k) /\ ~ (OfNumber(s, k) /\ OfNumber(t, k))
  BY <1>1, <1>2, <1>3, <1>7, BelowIs
<1> QED
  BY <1>5, <1>6, <1>7

LEMMA OrderedStrict ==
  ASSUME NEW s \in Seq(Byte), NEW t \in Seq(Byte), Ordered(s, t)
  PROVE  s # t /\ ~ Ordered(t, s)
<1>1. Len(s) \in Nat /\ Len(t) \in Nat
  OBVIOUS
<1>2. PICK k \in 0 .. Len(s) : FirstDifference(s, t, k) /\ Below(s, t, k)
  BY DEF Ordered
<1>3. k \in Nat
  BY <1>1
<1>4. s # t
  BY <1>2, <1>3, FirstDifferenceIs
<1>5. ASSUME Ordered(t, s) PROVE FALSE
  <2>1. PICK m \in 0 .. Len(t) : FirstDifference(t, s, m) /\ Below(t, s, m)
    BY <1>5 DEF Ordered
  <2>2. m \in Nat /\ FirstDifference(s, t, m)
    BY <1>1, <2>1, FirstDifferenceIs
  <2>3. m = k
    BY <1>2, <1>3, <2>2, FirstDifferenceUnique
  <2> QED
    BY <1>2, <1>3, <2>1, <2>3, BelowAsymmetric
<1> QED
  BY <1>4, <1>5

\* What decides at a first difference of s and t also orders the runs there.
LEMMA RunsOrdered ==
  ASSUME NEW s \in Seq(Byte), NEW t \in Seq(Byte), NEW i \in Nat, NEW j \in Nat, i < j,
         FirstDifference(s, t, j), Below(s, t, j), OfNumber(s, i)
  PROVE  DigitEnd(s, i) <= DigitEnd(t, i)
<1>1. Alike(s, t, j) /\ j \in 0 .. Len(s) /\ j \in 0 .. Len(t)
  BY FirstDifferenceIs DEF FirstDifference
<1>2. /\ DigitEnd(s, j) \in Nat /\ DigitEnd(t, j) \in Nat
  BY <1>1, DigitEndAt
<1>3. CASE DigitEnd(s, i) = DigitEnd(t, i)
  <2>1. i \in 0 .. Len(s)
    BY <1>1
  <2>2. DigitEnd(s, i) \in Nat
    BY <2>1, DigitEndAt
  <2> QED
    BY <1>3, <2>2
<1>4. CASE /\ \A m \in Nat : i <= m /\ m < j => DigitAt(s, m) /\ DigitAt(t, m)
           /\ DigitEnd(s, i) = DigitEnd(s, j)
           /\ DigitEnd(t, i) = DigitEnd(t, j)
  <2>1. OfNumber(s, j)
    BY <1>4, OfNumberWithin
  <2>2. OfNumber(t, i)
    <3>1. Alike(s, t, i) /\ ByteAt(s, i) = ByteAt(t, i)
      BY <1>1, AlikeIs
    <3> QED
      BY <3>1, OfNumberAlike
  <2>3. OfNumber(t, j)
    BY <1>4, <2>2, OfNumberWithin
  <2>4. BelowByLength(s, t, j)
    BY <1>1, <2>1, <2>3, BelowIs
  <2> QED
    BY <1>2, <1>4, <2>4 DEF BelowByLength
<1> QED
  BY <1>1, <1>3, <1>4, RunKept

\* The third string differs from s where the second does, and only later from it.
LEMMA LaterDifference ==
  ASSUME NEW s \in Seq(Byte), NEW t \in Seq(Byte), NEW u \in Seq(Byte),
         NEW i \in Nat, NEW j \in Nat, i < j,
         FirstDifference(s, t, i), Below(s, t, i), FirstDifference(t, u, j), Below(t, u, j)
  PROVE  FirstDifference(s, u, i) /\ Below(s, u, i)
<1>1. /\ Alike(s, t, i) /\ ByteAt(s, i) # ByteAt(t, i) /\ Alike(t, u, j)
      /\ i \in 0 .. Len(s) /\ i \in 0 .. Len(t) /\ j \in 0 .. Len(t) /\ j \in 0 .. Len(u)
  BY FirstDifferenceIs DEF FirstDifference
<1>2. Alike(t, u, i) /\ ByteAt(t, i) = ByteAt(u, i) /\ (DigitAt(t, i) <=> DigitAt(u, i))
  BY <1>1, AlikeIs
<1>3. Alike(s, u, i) /\ FirstDifference(s, u, i)
  BY <1>1, <1>2, AlikeTransitive, FirstDifferenceIs
<1>4. (OfNumber(t, i) <=> OfNumber(u, i)) /\ (Fraction(s, i) <=> Fraction(t, i))
  BY <1>1, <1>2, OfNumberAlike, InsideAlike
<1>5. CASE Fraction(s, i)
  <2>1. BelowInFraction(s, t, i)
    BY <1>1, <1>5, BelowIs
  <2>2. BelowInFraction(s, u, i)
    BY <1>2, <2>1 DEF BelowInFraction
  <2> QED
    BY <1>3, <1>5, <2>2, BelowIs
<1>6. CASE OfNumber(s, i) /\ OfNumber(t, i)
  <2>1. BelowByLength(s, t, i)
    BY <1>1, <1>6, BelowIs
  <2>2. i \in 0 .. Len(u)
    BY <1>1
  <2>3. DigitEnd(s, i) \in Nat /\ DigitEnd(t, i) \in Nat /\ DigitEnd(u, i) \in Nat
    BY <1>1, <2>2, DigitEndAt
  <2>4. DigitEnd(t, i) <= DigitEnd(u, i)
    BY <1>6, RunsOrdered
  <2>5. BelowByLength(s, u, i)
    BY <1>2, <2>1, <2>3, <2>4 DEF BelowByLength
  <2> QED
    BY <1>3, <1>4, <1>6, <2>5, BelowIs
<1>7. CASE ~ Fraction(s, i) /\ ~ (OfNumber(s, i) /\ OfNumber(t, i))
  <2>1. ByteAt(s, i) < ByteAt(t, i)
    BY <1>1, <1>7, BelowIs
  <2> QED
    BY <1>2, <1>3, <1>4, <1>7, <2>1, BelowIs
<1> QED
  BY <1>5, <1>6, <1>7

\* The second string differs from u where s does too, and only later from s.
LEMMA EarlierDifference ==
  ASSUME NEW s \in Seq(Byte), NEW t \in Seq(Byte), NEW u \in Seq(Byte),
         NEW i \in Nat, NEW j \in Nat, i < j,
         FirstDifference(s, t, j), Below(s, t, j), FirstDifference(t, u, i), Below(t, u, i)
  PROVE  FirstDifference(s, u, i) /\ Below(s, u, i)
<1>1. /\ Alike(t, u, i) /\ ByteAt(t, i) # ByteAt(u, i) /\ Alike(s, t, j)
      /\ i \in 0 .. Len(t) /\ i \in 0 .. Len(u) /\ j \in 0 .. Len(s) /\ j \in 0 .. Len(t)
  BY FirstDifferenceIs DEF FirstDifference
<1>2. Alike(s, t, i) /\ ByteAt(s, i) = ByteAt(t, i) /\ (DigitAt(s, i) <=> DigitAt(t, i))
  BY <1>1, AlikeIs
<1>3. Alike(s, u, i) /\ FirstDifference(s, u, i)
  BY <1>1, <1>2, AlikeTransitive, FirstDifferenceIs
<1>4. (OfNumber(s, i) <=> OfNumber(t, i)) /\ (Fraction(s, i) <=> Fraction(t, i))
  BY <1>1, <1>2, OfNumberAlike, InsideAlike
<1>5. CASE Fraction(s, i)
  <2>1. BelowInFraction(t, u, i)
    BY <1>1, <1>4, <1>5, BelowIs
  <2>2. BelowInFraction(s, u, i)
    BY <1>2, <2>1 DEF BelowInFraction
  <2> QED
    BY <1>3, <1>5, <2>2, BelowIs
<1>6. CASE OfNumber(t, i) /\ OfNumber(u, i)
  <2>1. BelowByLength(t, u, i)
    BY <1>1, <1>6, BelowIs
  <2>2. i \in 0 .. Len(s)
    BY <1>1
  <2>3. DigitEnd(s, i) \in Nat /\ DigitEnd(t, i) \in Nat /\ DigitEnd(u, i) \in Nat
    BY <1>1, <2>2, DigitEndAt
  <2>4. DigitEnd(s, i) <= DigitEnd(t, i)
    BY <1>4, <1>6, RunsOrdered
  <2>5. BelowByLength(s, u, i)
    BY <1>2, <2>1, <2>3, <2>4 DEF BelowByLength
  <2> QED
    BY <1>3, <1>4, <1>6, <2>5, BelowIs
<1>7. CASE ~ Fraction(s, i) /\ ~ (OfNumber(t, i) /\ OfNumber(u, i))
  <2>1. ByteAt(t, i) < ByteAt(u, i)
    BY <1>1, <1>4, <1>7, BelowIs
  <2> QED
    BY <1>2, <1>3, <1>4, <1>7, <2>1, BelowIs
<1> QED
  BY <1>4, <1>5, <1>6, <1>7

\* The runs at i are of different lengths: that decides, wherever the first difference is.
LEMMA LengthDecides ==
  ASSUME NEW s \in Seq(Byte), NEW u \in Seq(Byte), NEW i \in Nat, Alike(s, u, i),
         ByteAt(s, i) = ByteAt(u, i), OfNumber(s, i), OfNumber(u, i),
         DigitEnd(s, i) < DigitEnd(u, i)
  PROVE  Ordered(s, u)
<1>1. Len(s) \in Nat /\ Len(u) \in Nat /\ i \in 0 .. Len(s) /\ i \in 0 .. Len(u)
  BY DEF Alike
<1>2. DigitEnd(s, i) \in Nat /\ DigitEnd(u, i) \in Nat
  BY <1>1, DigitEndAt
<1>3. s # u
  BY <1>2
<1>4. PICK k \in Nat : FirstDifference(s, u, k)
  BY <1>3, SkipEqualIs
<1>5. Alike(s, u, k) /\ ByteAt(s, k) # ByteAt(u, k) /\ k \in 0 .. Len(s) /\ k \in 0 .. Len(u)
  BY <1>4, FirstDifferenceIs DEF FirstDifference
<1>6. i < k
  BY <1>1, <1>5 DEF Alike
<1>7. /\ \A m \in Nat : i <= m /\ m < k => DigitAt(s, m) /\ DigitAt(u, m)
      /\ DigitEnd(s, i) = DigitEnd(s, k) /\ DigitEnd(u, i) = DigitEnd(u, k)
  BY <1>2, <1>5, <1>6, RunKept
<1>8. OfNumber(s, k) /\ OfNumber(u, k)
  BY <1>6, <1>7, OfNumberWithin
<1>9. BelowByLength(s, u, k)
  BY <1>7 DEF BelowByLength
<1> QED
  BY <1>4, <1>5, <1>8, <1>9, BelowIs DEF Ordered

\* Outside of a run the bytes of numbers are the digits but the zero.
LEMMA NumberByte ==
  ASSUME NEW s \in Seq(Byte), NEW k \in Nat, ~ Inside(s, k)
  PROVE  OfNumber(s, k) <=> ByteAt(s, k) \in 49 .. 57
<1>1. ByteAt(s, k) \in Int /\ (DigitAt(s, k) <=> ByteAt(s, k) \in 48 .. 57)
  BY ByteAtIs
<1>2. OfNumber(s, k) <=> DigitAt(s, k) /\ ByteAt(s, k) # 48
  BY DEF OfNumber, Zero
<1>3. ByteAt(s, k) \in 49 .. 57 <=> ByteAt(s, k) \in 48 .. 57 /\ ByteAt(s, k) # 48
  BY <1>1
<1> QED
  BY <1>1, <1>2, <1>3

\* All three differ at one place.
LEMMA SameDifference ==
  ASSUME NEW s \in Seq(Byte), NEW t \in Seq(Byte), NEW u \in Seq(Byte), NEW i \in Nat,
         FirstDifference(s, t, i), Below(s, t, i), FirstDifference(t, u, i), Below(t, u, i)
  PROVE  Ordered(s, u)
<1>1. /\ Alike(s, t, i) /\ Alike(t, u, i) /\ Alike(s, u, i)
      /\ i \in 0 .. Len(s) /\ i \in 0 .. Len(t) /\ i \in 0 .. Len(u)
  BY FirstDifferenceIs, AlikeTransitive DEF FirstDifference
<1>2. /\ ByteAt(s, i) \in Int /\ ByteAt(t, i) \in Int /\ ByteAt(u, i) \in Int
      /\ DigitAt(s, i) <=> ByteAt(s, i) \in 48 .. 57
      /\ DigitAt(t, i) <=> ByteAt(t, i) \in 48 .. 57
      /\ DigitAt(u, i) <=> ByteAt(u, i) \in 48 .. 57
  BY ByteAtIs
<1>3. /\ Fraction(s, i) <=> Fraction(t, i)
      /\ Inside(s, i) <=> Inside(t, i)
      /\ Inside(u, i) <=> Inside(t, i)
      /\ Fraction(u, i) <=> Fraction(t, i)
  BY <1>1, InsideAlike
<1>4. ASSUME ByteAt(s, i) # ByteAt(u, i), Below(s, u, i) PROVE Ordered(s, u)
  BY <1>1, <1>4, FirstDifferenceIs DEF Ordered
<1>5. CASE Fraction(s, i)
  <2>1. BelowInFraction(s, t, i) /\ BelowInFraction(t, u, i)
    BY <1>1, <1>3, <1>5, BelowIs
  <2>2. BelowInFraction(s, u, i) /\ ByteAt(s, i) # ByteAt(u, i)
    BY <1>2, <2>1 DEF BelowInFraction
  <2> QED
    BY <1>1, <1>4, <1>5, <2>2, BelowIs
<1>6. CASE OfNumber(s, i) /\ OfNumber(t, i) /\ OfNumber(u, i)
  <2>1. BelowByLength(s, t, i) /\ BelowByLength(t, u, i)
    BY <1>1, <1>6, BelowIs
  <2>2. DigitEnd(s, i) \in Nat /\ DigitEnd(t, i) \in Nat /\ DigitEnd(u, i) \in Nat
    BY <1>1, DigitEndAt
  <2>3. BelowByLength(s, u, i)
    BY <1>2, <2>1, <2>2 DEF BelowByLength
  <2>4. CASE ByteAt(s, i) # ByteAt(u, i)
    BY <1>1, <1>4, <1>6, <2>3, <2>4, BelowIs
  <2>5. CASE ByteAt(s, i) = ByteAt(u, i)
    <3>1. DigitEnd(s, i) < DigitEnd(u, i)
      BY <1>2, <2>1, <2>2, <2>5 DEF BelowByLength
    <3> QED
      BY <1>1, <1>6, <2>5, <3>1, LengthDecides
  <2> QED
    BY <2>4, <2>5
\* The bytes of numbers lie together, between the others.
<1>7. CASE ~ Fraction(s, i) /\ ~ (OfNumber(s, i) /\ OfNumber(t, i) /\ OfNumber(u, i))
  <2>1. /\ ~ Inside(s, i) /\ ~ Inside(t, i) /\ ~ Inside(u, i)
        /\ ~ Fraction(t, i)
    BY <1>3, <1>7 DEF Fraction, OfNumber
  <2>2. /\ OfNumber(s, i) <=> ByteAt(s, i) \in 49 .. 57
        /\ OfNumber(t, i) <=> ByteAt(t, i) \in 49 .. 57
        /\ OfNumber(u, i) <=> ByteAt(u, i) \in 49 .. 57
    BY <2>1, NumberByte
  <2>3. ~ (OfNumber(s, i) /\ OfNumber(t, i)) => ByteAt(s, i) < ByteAt(t, i)
    BY <1>1, <1>7, BelowIs
  <2>4. ~ (OfNumber(t, i) /\ OfNumber(u, i)) => ByteAt(t, i) < ByteAt(u, i)
    BY <1>1, <2>1, BelowIs
  <2>5. ByteAt(s, i) < ByteAt(u, i) /\ ~ (OfNumber(s, i) /\ OfNumber(u, i))
    <3>1. CASE OfNumber(t, i)
      <4>1. ByteAt(t, i) \in 49 .. 57
        BY <2>2, <3>1
      <4>2. CASE OfNumber(s, i)
        <5>1. ~ OfNumber(u, i) /\ ByteAt(s, i) \in 49 .. 57
          BY <1>7, <2>2, <3>1, <4>2
        <5>2. ByteAt(t, i) < ByteAt(u, i) /\ ByteAt(u, i) \notin 49 .. 57
          BY <2>2, <2>4, <5>1
        <5> QED
          BY <1>2, <4>1, <5>1, <5>2
      <4>3. CASE ~ OfNumber(s, i)
        <5>1. ByteAt(s, i) < ByteAt(t, i) /\ ByteAt(s, i) \notin 49 .. 57
          BY <2>2, <2>3, <4>3
        <5>2. ByteAt(s, i) < 49
          BY <1>2, <4>1, <5>1
        <5>3. CASE OfNumber(u, i)
          <6>1. ByteAt(u, i) \in 49 .. 57
            BY <2>2, <5>3
          <6> QED
            BY <1>2, <4>3, <5>2, <6>1
        <5>4. CASE ~ OfNumber(u, i)
          BY <1>2, <2>4, <5>1, <5>4
        <5> QED
          BY <5>3, <5>4
      <4> QED
        BY <4>2, <4>3
    <3>2. CASE ~ OfNumber(t, i)
      <4>1. /\ ByteAt(s, i) < ByteAt(t, i) /\ ByteAt(t, i) < ByteAt(u, i)
            /\ ByteAt(t, i) \notin 49 .. 57
        BY <2>2, <2>3, <2>4, <3>2
      <4>2. ~ (ByteAt(s, i) \in 49 .. 57 /\ ByteAt(u, i) \in 49 .. 57)
        BY <1>2, <4>1
      <4>3. ByteAt(s, i) < ByteAt(u, i)
        BY <1>2, <4>1
      <4> QED
        BY <2>2, <4>2, <4>3
    <3> QED
      BY <3>1, <3>2
  <2> QED
    BY <1>1, <1>2, <1>4, <1>7, <2>5, BelowIs
<1> QED
  BY <1>5, <1>6, <1>7 DEF Fraction, OfNumber

LEMMA OrderedTransitive ==
  ASSUME NEW s \in Seq(Byte), NEW t \in Seq(Byte), NEW u \in Seq(Byte),
         Ordered(s, t), Ordered(t, u)
  PROVE  Ordered(s, u)
<1>1. Len(s) \in Nat /\ Len(t) \in Nat /\ Len(u) \in Nat
  OBVIOUS
<1>2. PICK i \in 0 .. Len(s) : FirstDifference(s, t, i) /\ Below(s, t, i)
  BY DEF Ordered
<1>3. PICK j \in 0 .. Len(t) : FirstDifference(t, u, j) /\ Below(t, u, j)
  BY DEF Ordered
<1>4. i \in Nat /\ j \in Nat
  BY <1>1
<1>5. CASE i < j
  BY <1>2, <1>3, <1>4, <1>5, LaterDifference DEF Ordered
<1>6. CASE j < i
  <2>1. FirstDifference(s, u, j) /\ Below(s, u, j)
    BY <1>2, <1>3, <1>4, <1>6, EarlierDifference
  <2>2. j \in 0 .. Len(s)
    BY <2>1 DEF FirstDifference
  <2> QED
    BY <2>1, <2>2 DEF Ordered
<1>7. CASE i = j
  BY <1>2, <1>3, <1>4, <1>7, SameDifference
<1> QED
  BY <1>4, <1>5, <1>6, <1>7

-------------------------------------------------------------------------------
(***************************************************************************)
(* The code's ways to decide, at a first difference.                        *)
(***************************************************************************)
LEMMA SaysByCmp ==
  ASSUME NEW s \in Seq(Byte), NEW t \in Seq(Byte), NEW d \in Nat, FirstDifference(s, t, d),
         NEW x \in Int, NEW y \in Int, x # y,
         x < y => Below(s, t, d), y < x => Below(t, s, d)
  PROVE  Cmp(x, y) \in Unequal /\ Says(s, t, Cmp(x, y))
<1>1. FirstDifference(t, s, d) /\ d \in 0 .. Len(s) /\ d \in 0 .. Len(t)
  BY FirstDifferenceIs DEF FirstDifference
<1>2. CASE x < y
  <2>1. Cmp(x, y) = "Less"
    BY <1>2 DEF Cmp
  <2> QED
    BY <1>1, <1>2, <2>1 DEF Says, Ordered, Unequal
<1>3. CASE y < x
  <2>1. Cmp(x, y) = "Greater"
    BY <1>3 DEF Cmp
  <2> QED
    BY <1>1, <1>3, <2>1 DEF Says, Ordered, Unequal
<1> QED
  BY <1>2, <1>3

\* A run that has ended is below one that goes on.
LEMMA EndedRunBelow ==
  ASSUME NEW s \in Seq(Byte), NEW t \in Seq(Byte), NEW d \in Nat, FirstDifference(s, t, d),
         Inside(s, d), ~ DigitAt(s, d), DigitAt(t, d)
  PROVE  Below(s, t, d)
<1>1. Alike(s, t, d) /\ d \in 0 .. Len(s) /\ d \in 0 .. Len(t)
  BY FirstDifferenceIs DEF FirstDifference
<1>2. CASE Fraction(s, d)
  BY <1>1, <1>2, BelowIs DEF BelowInFraction
<1>3. CASE ~ Fraction(s, d)
  <2>1. OfNumber(s, d) /\ OfNumber(t, d)
    BY <1>1, <1>3, InsideAlike DEF OfNumber, Fraction
  <2>2. /\ DigitEnd(s, d) \in Nat /\ d <= DigitEnd(s, d)
        /\ \A i \in Nat : d <= i /\ i < DigitEnd(s, d) => DigitAt(s, i)
    BY <1>1, DigitEndAt
  <2>3. DigitEnd(t, d) \in Nat /\ d <= DigitEnd(t, d) /\ ~ DigitAt(t, DigitEnd(t, d))
    BY <1>1, DigitEndAt
  <2>4. DigitEnd(s, d) = d /\ DigitEnd(t, d) # d
    BY <2>2, <2>3
  <2>5. BelowByLength(s, t, d)
    BY <2>3, <2>4 DEF BelowByLength
  <2> QED
    BY <1>1, <2>1, <2>5, BelowIs
<1> QED
  BY <1>2, <1>3

\* Where no two digits meet and no run goes on, the bytes decide.
LEMMA BytesDecide ==
  ASSUME NEW s \in Seq(Byte), NEW t \in Seq(Byte), NEW d \in Nat, FirstDifference(s, t, d),
         ~ (DigitAt(s, d) /\ DigitAt(t, d)),
         Inside(s, d) => (DigitAt(s, d) <=> DigitAt(t, d))
  PROVE  Below(s, t, d) <=> ByteAt(s, d) < ByteAt(t, d)
<1>1. Alike(s, t, d) /\ d \in 0 .. Len(s) /\ d \in 0 .. Len(t)
  BY FirstDifferenceIs DEF FirstDifference
<1>2. CASE Fraction(s, d)
  BY <1>1, <1>2, BelowIs DEF BelowInFraction, Fraction
<1>3. CASE ~ Fraction(s, d) /\ Inside(s, d)
  <2>1. OfNumber(s, d) /\ OfNumber(t, d)
    BY <1>1, <1>3, InsideAlike DEF OfNumber, Fraction
  <2>2. ~ DigitAt(s, d) /\ ~ DigitAt(t, d)
    BY <1>3
  <2>3. DigitEnd(s, d) = d /\ DigitEnd(t, d) = d
    BY <1>1, <2>2, DigitEndUnique
  <2>4. BelowByLength(s, t, d) <=> ByteAt(s, d) < ByteAt(t, d)
    BY <2>3 DEF BelowByLength
  <2> QED
    BY <1>1, <2>1, <2>4, BelowIs
<1>4. CASE ~ Inside(s, d)
  <2>1. ~ Inside(t, d) /\ ~ Fraction(s, d)
    BY <1>1, <1>4, InsideAlike DEF Fraction
  <2>2. ~ (OfNumber(s, d) /\ OfNumber(t, d))
    BY <1>4, <2>1 DEF OfNumber
  <2> QED
    BY <1>1, <2>1, <2>2, BelowIs
<1> QED
  BY <1>2, <1>3, <1>4

\* Two runs that are compared from d, or from the digit before it, where d is the
\* first difference and stands in both.
MeetAt(s, t, p, d) ==
  /\ FirstDifference(s, t, d) /\ DigitAt(s, d) /\ DigitAt(t, d)
  /\ (p = d /\ ~ Inside(s, d)) \/ p = d - 1

LEMMA WordsDecide ==
  ASSUME NEW s, NEW t, NEW p, AtDigits(s, p, t, p), NEW d \in Nat, MeetAt(s, t, p, d),
         NEW n \in Nat, d < p + n
  PROVE  CompareWords(s, p, t, p, n) = Cmp(ByteAt(s, d), ByteAt(t, d))
<1>1. s \in Seq(Byte) /\ t \in Seq(Byte) /\ p \in Nat
  BY DEF AtDigits
<1>2. /\ Alike(s, t, d) /\ ByteAt(s, d) # ByteAt(t, d) /\ d < Len(s) /\ d < Len(t)
      /\ p = d \/ p = d - 1
  BY <1>1, FirstDifferenceIs DEF MeetAt, DigitAt
<1> DEFINE h == d - p
<1>3. h \in 0 .. n /\ h # n /\ p + h = d
  BY <1>1, <1>2
<1>4. ByteAt(s, d) = At(s, d) /\ ByteAt(t, d) = At(t, d)
  BY <1>1, <1>2, ByteAtIs
<1>5. SameRun(s, p, t, p, h)
  <2>1. ASSUME NEW i \in 0 .. h - 1 PROVE At(s, p + i) = At(t, p + i)
    <3>1. p + i \in Nat /\ p + i < d
      BY <1>1, <1>2
    <3> QED
      BY <1>1, <1>2, <3>1, AlikeIs
  <2> QED
    BY <2>1 DEF SameRun
<1> HIDE DEF h
<1>6. EqualBytes(s, p, t, p, n) = h
  BY <1>1, <1>2, <1>3, <1>4, <1>5, EqualBytesUnique
<1> QED
  BY <1>3, <1>4, <1>6 DEF CompareWords

LEMMA DigitsSay ==
  ASSUME NEW s, NEW t, NEW p, AtDigits(s, p, t, p), NEW d \in Nat, MeetAt(s, t, p, d)
  PROVE  /\ HandleDigits(s, p, t, p).order \in Unequal
         /\ Says(s, t, HandleDigits(s, p, t, p).order)
<1> DEFINE ka == DigitEnd(s, p) - p
           kb == DigitEnd(t, p) - p
           n == Smaller(ka, kb)
           bytes == Cmp(ByteAt(s, d), ByteAt(t, d))
           leading == LeadingZero(s, p) \/ LeadingZero(t, p)
<1>1. s \in Seq(Byte) /\ t \in Seq(Byte) /\ p \in Nat
      /\ p < Len(s) /\ p < Len(t) /\ Len(s) \in Nat /\ Len(t) \in Nat
      /\ DigitAt(s, p) /\ DigitAt(t, p)
  BY DEF AtDigits, DigitAt
<1>2. /\ FirstDifference(s, t, d) /\ DigitAt(s, d) /\ DigitAt(t, d)
      /\ Alike(s, t, d) /\ ByteAt(s, d) # ByteAt(t, d) /\ d < Len(s) /\ d < Len(t)
      /\ (p = d /\ ~ Inside(s, d)) \/ p = d - 1
  BY <1>1, FirstDifferenceIs DEF MeetAt, DigitAt
<1>3. ByteAt(s, d) \in Int /\ ByteAt(t, d) \in Int
  BY <1>1, ByteAtIs
<1>4. DigitEnd(s, p) = DigitEnd(s, d) /\ DigitEnd(t, p) = DigitEnd(t, d)
  <2>1. p <= d /\ d <= Len(s) /\ d <= Len(t)
    BY <1>1, <1>2
  <2>2. \A i \in Nat : p <= i /\ i < d => DigitAt(s, i) /\ DigitAt(t, i)
    BY <1>1, <1>2
  <2> QED
    BY <1>1, <2>1, <2>2, DigitEndWithin
<1>5. /\ DigitEnd(s, d) \in Nat /\ d < DigitEnd(s, d)
      /\ DigitEnd(t, d) \in Nat /\ d < DigitEnd(t, d)
  <2>1. IsDigit(At(s, d)) /\ IsDigit(At(t, d))
    BY <1>2 DEF DigitAt
  <2> QED
    BY <1>1, <1>2, <2>1, DigitEndIs
<1>6. /\ ka \in Nat /\ kb \in Nat /\ d < p + ka /\ d < p + kb
      /\ ka < kb <=> DigitEnd(s, d) < DigitEnd(t, d)
      /\ kb < ka <=> DigitEnd(t, d) < DigitEnd(s, d)
  BY <1>1, <1>2, <1>4, <1>5
<1>7. LeftLong(s, p, t, p).order =
        CASE CompareWords(s, p, t, p, n) # "Undecided" -> CompareWords(s, p, t, p, n)
          [] CompareWords(s, p, t, p, n) = "Undecided" /\ ka # kb -> Cmp(ka, kb)
          [] CompareWords(s, p, t, p, n) = "Undecided" /\ ka = kb -> "Undecided"
  BY DEF LeftLong, Outcome
<1>8. RightLong(s, p, t, p).order = IF ka # kb THEN Cmp(ka, kb) ELSE CompareWords(s, p, t, p, ka)
  BY DEF RightLong, Outcome
<1>9. HandleDigits(s, p, t, p).order =
        IF leading THEN LeftLong(s, p, t, p).order ELSE RightLong(s, p, t, p).order
  BY LeftPathsAgree, RightPathsAgree DEF HandleDigits, LeftAligned, RightAligned
<1> HIDE DEF ka, kb
<1>10. n \in Nat /\ d < p + n
  BY <1>6 DEF Smaller
<1>11. CompareWords(s, p, t, p, n) = bytes /\ CompareWords(s, p, t, p, ka) = bytes
  <2> HIDE DEF n, bytes
  <2>1. CompareWords(s, p, t, p, n) = bytes
    BY <1>10, WordsDecide DEF bytes
  <2>2. CompareWords(s, p, t, p, ka) = bytes
    BY <1>6, WordsDecide DEF bytes
  <2> QED
    BY <2>1, <2>2
<1>12. bytes \in Unequal
  BY <1>2, <1>3, CmpUnequal
<1>13. Alike(t, s, d) /\ (Inside(s, d) <=> Inside(t, d)) /\ (Fraction(s, d) <=> Fraction(t, d))
  BY <1>1, <1>2, InsideAlike, AlikeIs
<1>14. ByteAt(s, d) = At(s, d) /\ ByteAt(t, d) = At(t, d)
  BY <1>1, <1>2, ByteAtIs
<1> HIDE DEF n
\* Behind one leading zero, or with a leading zero on one side: the first digit decides.
<1>15. CASE leading
  <2>1. HandleDigits(s, p, t, p).order = bytes
    BY <1>7, <1>9, <1>11, <1>12, <1>15 DEF Unequal
  <2>2. /\ Below(s, t, d) <=> ByteAt(s, d) < ByteAt(t, d)
        /\ Below(t, s, d) <=> ByteAt(t, d) < ByteAt(s, d)
    <3>1. CASE p = d /\ ~ Inside(s, d)
      <4>1. At(s, d) = Zero \/ At(t, d) = Zero
        BY <1>15, <3>1 DEF LeadingZero
      <4>2. ~ Fraction(s, d) /\ ~ Fraction(t, d) /\ ~ (OfNumber(s, d) /\ OfNumber(t, d))
        BY <1>13, <1>14, <3>1, <4>1 DEF Fraction, OfNumber
      <4> QED
        BY <1>1, <1>2, <1>13, <4>2, BelowIs
    <3>2. CASE p = d - 1
      <4>1. At(s, p) = At(t, p)
        BY <1>1, <1>2, <3>2, AlikeIs
      <4>2. Fraction(s, d) /\ Fraction(t, d)
        <5>1. d > 0 /\ Inside(s, d) /\ Inside(t, d)
          BY <1>1, <3>2 DEF Inside, DigitAt
        <5> QED
          BY <1>13, <1>15, <3>2, <5>1 DEF Fraction
      <4> QED
        BY <1>1, <1>2, <1>13, <4>2, BelowIs DEF BelowInFraction
    <3> QED
      BY <1>2, <3>1, <3>2
  <2> QED
    BY <1>1, <1>2, <1>3, <2>1, <2>2, SaysByCmp
<1>16. CASE ~ leading
  <2>1. HandleDigits(s, p, t, p).order = IF ka # kb THEN Cmp(ka, kb) ELSE bytes
    BY <1>8, <1>9, <1>11, <1>16
  <2>2. /\ Below(s, t, d) <=> BelowByLength(s, t, d)
        /\ Below(t, s, d) <=> BelowByLength(t, s, d)
    <3>1. CASE p = d /\ ~ Inside(s, d)
      <4>1. At(s, d) # Zero /\ At(t, d) # Zero
        BY <1>2, <1>13, <1>16, <3>1 DEF LeadingZero, Inside
      <4>2. OfNumber(s, d) /\ OfNumber(t, d)
        BY <1>2, <1>13, <1>14, <3>1, <4>1 DEF OfNumber
      <4> QED
        BY <1>1, <1>2, <1>13, <4>2, BelowIs
    <3>2. CASE p = d - 1
      <4>1. d > 0 /\ Inside(s, d) /\ Inside(t, d)
        BY <1>1, <3>2 DEF Inside, DigitAt
      <4>2. OfNumber(s, d) /\ OfNumber(t, d)
        BY <1>16, <3>2, <4>1 DEF OfNumber
      <4> QED
        BY <1>1, <1>2, <1>13, <4>2, BelowIs
    <3> QED
      BY <1>2, <3>1, <3>2
  <2>3. CASE ka # kb
    <3>1. (ka < kb => Below(s, t, d)) /\ (kb < ka => Below(t, s, d))
      BY <1>6, <2>2 DEF BelowByLength
    <3>2. Cmp(ka, kb) \in Unequal /\ Says(s, t, Cmp(ka, kb))
      BY <1>1, <1>2, <1>6, <2>3, <3>1, SaysByCmp
    <3> QED
      BY <2>1, <2>3, <3>2
  <2>4. CASE ka = kb
    <3>1. DigitEnd(s, d) = DigitEnd(t, d)
      BY <1>5, <1>6, <2>4
    <3>2. /\ ByteAt(s, d) < ByteAt(t, d) => Below(s, t, d)
          /\ ByteAt(t, d) < ByteAt(s, d) => Below(t, s, d)
      BY <2>2, <3>1 DEF BelowByLength
    <3>3. Says(s, t, bytes)
      BY <1>1, <1>2, <1>3, <3>2, SaysByCmp
    <3> QED
      BY <1>12, <2>1, <2>4, <3>3
  <2> QED
    BY <2>3, <2>4
<1> QED
  BY <1>15, <1>16

-------------------------------------------------------------------------------
(***************************************************************************)
(* The call.  Without white space the loop is entered once, at Start, and   *)
(* the round it makes settles.                                              *)
(***************************************************************************)
OneRound == pc = "loop" /\ WsFree(a) /\ WsFree(b) => pa = Start(a, b) /\ pb = Start(a, b)

DInv == IInv /\ OneRound /\ FirstDifferenceDecides

LEMMA NoWhiteSpace ==
  ASSUME TypeOK, InLoop, WsFree(a), WsFree(b)
  PROVE  ~ IsWs(ca) /\ ~ IsWs(cb)
<1>1. pa + 1 \in 1 .. Len(a) /\ pb + 1 \in 1 .. Len(b)
  BY Looping, Lengths
<1> QED
  BY <1>1 DEF WsFree, NotWs, ca, cb, At

\* Where the round stands: at the first difference, or on the digit before it when
\* both sides are digits there and before.
LEMMA RoundStands ==
  ASSUME IInv, OneRound, pc = "loop", WsFree(a), WsFree(b), NEW d, d = SkipEqual(a, b)
  PROVE  /\ a \in Seq(Byte) /\ b \in Seq(Byte) /\ Len(a) \in Nat /\ Len(b) \in Nat
         /\ d \in Nat /\ Alike(a, b, d) /\ (a # b => FirstDifference(a, b, d))
         /\ pa = pb /\ pb \in Nat
         /\ \/ pa = d /\ ~ MidRun(a, b, d)
            \/ /\ pa = d - 1 /\ ~ AtEnd /\ BothDigits /\ ca = cb
               /\ FirstDifference(a, b, d) /\ DigitAt(a, d) /\ DigitAt(b, d)
<1>1. TypeOK
  BY DEF IInv
<1>2. /\ a \in Seq(Byte) /\ b \in Seq(Byte) /\ Len(a) \in Nat /\ Len(b) \in Nat
      /\ pa \in Nat /\ pb \in Nat
  BY <1>1, Lengths
<1>3. d \in Nat /\ Alike(a, b, d) /\ (a # b => FirstDifference(a, b, d))
  BY <1>2, SkipEqualIs
<1>4. pa = pb /\ pa = IF MidRun(a, b, d) THEN d - 1 ELSE d
  BY DEF OneRound, Start
<1>5. ASSUME MidRun(a, b, d)
      PROVE  /\ pa = d - 1 /\ ~ AtEnd /\ BothDigits /\ ca = cb
             /\ FirstDifference(a, b, d) /\ DigitAt(a, d) /\ DigitAt(b, d)
  <2>1. /\ d > 0 /\ d < Len(a) /\ d < Len(b)
        /\ IsDigit(At(a, d)) /\ IsDigit(At(b, d))
        /\ IsDigit(At(a, d - 1)) /\ IsDigit(At(b, d - 1))
    BY <1>2, <1>3, <1>5 DEF MidRun, Smaller
  <2>2. pa = d - 1 /\ pb = d - 1 /\ ~ AtEnd
    BY <1>2, <1>3, <1>4, <1>5, <2>1 DEF AtEnd
  <2>3. BothDigits /\ DigitAt(a, d) /\ DigitAt(b, d)
    BY <2>1, <2>2 DEF BothDigits, ca, cb, DigitAt
  <2>4. ca = cb
    <3>1. d - 1 \in Nat /\ d - 1 < d
      BY <1>3, <2>1
    <3> QED
      BY <1>2, <1>3, <2>2, <3>1, AlikeIs DEF ca, cb
  <2>5. a # b
    <3>1. At(a, d) # At(b, d)
      <4> DEFINE n == Smaller(Len(a), Len(b))
      <4>1. n \in Nat /\ d = EqualBytes(a, 0, b, 0, n) /\ d # n
        BY <1>2, <1>3, <1>5 DEF SkipEqual, Smaller, MidRun
      <4> HIDE DEF n
      <4>2. At(a, 0 + d) # At(b, 0 + d)
        BY <4>1, EqualBytesIs
      <4> QED
        BY <1>3, <4>2
    <3> QED
      BY <3>1
  <2> QED
    BY <1>3, <2>2, <2>3, <2>4, <2>5
<1> QED
  BY <1>2, <1>3, <1>4, <1>5

\* Two runs of digits.
LEMMA RoundOfDigits ==
  ASSUME IInv, OneRound, WsFree(a), WsFree(b), InLoop, BothDigits
  PROVE  /\ HandleDigits(a, pa, b, pb).order \in Unequal
         /\ Says(a, b, HandleDigits(a, pa, b, pb).order)
<1> DEFINE d == SkipEqual(a, b)
<1>1. /\ a \in Seq(Byte) /\ b \in Seq(Byte) /\ Len(a) \in Nat /\ Len(b) \in Nat
      /\ d \in Nat /\ Alike(a, b, d) /\ (a # b => FirstDifference(a, b, d))
      /\ pa = pb /\ pb \in Nat
      /\ \/ pa = d /\ ~ MidRun(a, b, d)
         \/ /\ pa = d - 1 /\ ~ AtEnd /\ BothDigits /\ ca = cb
            /\ FirstDifference(a, b, d) /\ DigitAt(a, d) /\ DigitAt(b, d)
  BY RoundStands DEF InLoop
<1>2. AtDigits(a, pa, b, pa) /\ pa < Len(a) /\ pb < Len(b)
  BY <1>1, Looping DEF IInv
<1>3. MeetAt(a, b, pa, d)
  <2>1. CASE pa = d /\ ~ MidRun(a, b, d)
    <3> DEFINE n == Smaller(Len(a), Len(b))
    <3>1. n \in Nat /\ d = EqualBytes(a, 0, b, 0, n)
      BY <1>1 DEF SkipEqual, Smaller
    <3>2. d < n
      BY <1>1, <1>2, <2>1 DEF Smaller
    <3>3. At(a, 0 + d) # At(b, 0 + d)
      <4> HIDE DEF n
      <4> QED
        BY <1>1, <3>1, <3>2, EqualBytesIs
    <3>4. FirstDifference(a, b, d)
      BY <1>1, <3>3
    <3>5. IsDigit(At(a, d)) /\ IsDigit(At(b, d)) /\ DigitAt(a, d) /\ DigitAt(b, d)
      BY <1>2, <2>1 DEF AtDigits, DigitAt
    <3>6. ~ Inside(a, d)
      BY <1>1, <2>1, <3>2, <3>5, InsideAlike DEF MidRun, Inside
    <3> QED
      BY <2>1, <3>4, <3>5, <3>6 DEF MeetAt
  <2>2. CASE pa = d - 1 /\ FirstDifference(a, b, d) /\ DigitAt(a, d) /\ DigitAt(b, d)
    BY <2>2 DEF MeetAt
  <2> QED
    BY <1>1, <2>1, <2>2
<1> HIDE DEF d
<1> QED
  BY <1>1, <1>2, <1>3, DigitsSay

\* Bytes of which one at most is a digit.
LEMMA RoundOfBytes ==
  ASSUME IInv, OneRound, WsFree(a), WsFree(b), InLoop, ~ BothDigits
  PROVE  /\ ca # cb
         /\ AtBoundary => Says(a, b, IF IsDigit(ca) THEN "Greater" ELSE "Less")
         /\ ~ AtBoundary => Says(a, b, Cmp(ca, cb))
<1> DEFINE d == SkipEqual(a, b)
           n == Smaller(Len(a), Len(b))
<1>1. /\ a \in Seq(Byte) /\ b \in Seq(Byte) /\ Len(a) \in Nat /\ Len(b) \in Nat
      /\ d \in Nat /\ Alike(a, b, d) /\ (a # b => FirstDifference(a, b, d))
      /\ pa = d /\ pb = d
  BY RoundStands DEF InLoop
<1>2. d < Len(a) /\ d < Len(b) /\ ca = At(a, d) /\ cb = At(b, d) /\ ca \in Int /\ cb \in Int
  BY <1>1, Looping DEF IInv, ca, cb
<1>3. n \in Nat /\ d = EqualBytes(a, 0, b, 0, n) /\ d < n
  BY <1>1, <1>2 DEF SkipEqual, Smaller
<1> HIDE DEF d, n
<1>4. ca # cb /\ FirstDifference(a, b, d) /\ FirstDifference(b, a, d)
  <2>1. At(a, 0 + d) # At(b, 0 + d)
    BY <1>1, <1>3, EqualBytesIs
  <2> QED
    BY <1>1, <1>2, <2>1, FirstDifferenceIs
<1>5. /\ IsDigit(ca) <=> DigitAt(a, d)
      /\ IsDigit(cb) <=> DigitAt(b, d)
      /\ ByteAt(a, d) = ca /\ ByteAt(b, d) = cb
      /\ Inside(a, d) <=> Inside(b, d)
      /\ d \in 0 .. Len(a) /\ d \in 0 .. Len(b)
  BY <1>1, <1>2, ByteAtIs, InsideAlike DEF DigitAt
<1>6. AtBoundary <=> (IsDigit(ca) # IsDigit(cb)) /\ Inside(a, d)
  BY <1>1 DEF AtBoundary, Inside
<1>7. ~ (IsDigit(ca) /\ IsDigit(cb))
  BY DEF BothDigits
<1>8. ASSUME AtBoundary PROVE Says(a, b, IF IsDigit(ca) THEN "Greater" ELSE "Less")
  <2>1. Inside(a, d) /\ Inside(b, d) /\ (DigitAt(a, d) # DigitAt(b, d))
    BY <1>5, <1>6, <1>8 DEF IsDigit, DigitAt
  <2>2. CASE IsDigit(ca)
    <3>1. Below(b, a, d)
      BY <1>1, <1>4, <1>5, <1>7, <2>1, <2>2, EndedRunBelow
    <3> QED
      BY <1>4, <1>5, <2>2, <3>1 DEF Says, Ordered
  <2>3. CASE ~ IsDigit(ca)
    <3>1. DigitAt(b, d)
      BY <1>5, <1>6, <1>8, <2>3 DEF IsDigit
    <3>2. Below(a, b, d)
      BY <1>1, <1>4, <1>5, <2>1, <2>3, <3>1, EndedRunBelow
    <3> QED
      BY <1>4, <1>5, <2>3, <3>2 DEF Says, Ordered
  <2> QED
    BY <2>2, <2>3
<1>9. ASSUME ~ AtBoundary PROVE Says(a, b, Cmp(ca, cb))
  <2>1. Inside(a, d) => (DigitAt(a, d) <=> DigitAt(b, d))
    BY <1>5, <1>6, <1>9 DEF IsDigit
  <2>2. ~ (DigitAt(a, d) /\ DigitAt(b, d))
    BY <1>5, <1>7
  <2>3. Below(a, b, d) <=> ca < cb
    BY <1>1, <1>4, <1>5, <2>1, <2>2, BytesDecide
  <2>4. Below(b, a, d) <=> cb < ca
    BY <1>1, <1>4, <1>5, <2>1, <2>2, BytesDecide
  <2> QED
    BY <1>1, <1>2, <1>4, <2>3, <2>4, SaysByCmp
<1> QED
  BY <1>4, <1>8, <1>9

\* One side is exhausted.
LEMMA RoundAtEnd ==
  ASSUME IInv, OneRound, WsFree(a), WsFree(b), pc = "loop", AtEnd
  PROVE  Says(a, b, Cmp(Len(a) - pa, Len(b) - pb))
<1> DEFINE d == SkipEqual(a, b)
<1>1. /\ a \in Seq(Byte) /\ b \in Seq(Byte) /\ Len(a) \in Nat /\ Len(b) \in Nat
      /\ d \in Nat /\ Alike(a, b, d) /\ (a # b => FirstDifference(a, b, d))
      /\ pa = d /\ pb = d
  BY RoundStands
<1> HIDE DEF d
<1>2. d <= Len(a) /\ d <= Len(b) /\ (d = Len(a) \/ d = Len(b))
  BY <1>1 DEF Alike, AtEnd
<1>3. CASE a = b
  <2>1. Len(a) - pa = Len(b) - pb /\ Len(a) - pa \in Int
    BY <1>1, <1>3
  <2>2. Cmp(Len(a) - pa, Len(b) - pb) = "Equal"
    BY <2>1, CmpIs
  <2> QED
    BY <1>3, <2>2 DEF Says
<1>4. CASE a # b
  <2>1. FirstDifference(a, b, d) /\ FirstDifference(b, a, d)
    BY <1>1, <1>4, FirstDifferenceIs
  <2>2. /\ ByteAt(a, d) \in Int /\ (ByteAt(a, d) = -1 <=> d >= Len(a)) /\ ByteAt(a, d) >= -1
        /\ ByteAt(b, d) \in Int /\ (ByteAt(b, d) = -1 <=> d >= Len(b)) /\ ByteAt(b, d) >= -1
    <3>1. \A c \in Byte : c \in Int /\ c >= -1
      BY DEF Byte
    <3>2. /\ d < Len(a) => At(a, d) \in Byte
          /\ d < Len(b) => At(b, d) \in Byte
      BY <1>1, AtByte
    <3> QED
      BY <1>1, <3>1, <3>2, ByteAtIs DEF ByteAt
  <2>3. ByteAt(a, d) # ByteAt(b, d)
    BY <1>1, <2>1, FirstDifferenceIs
  <2>4. CASE d = Len(a)
    <3>1. d < Len(b) /\ ByteAt(a, d) < ByteAt(b, d) /\ ~ DigitAt(a, d)
      BY <1>1, <1>2, <2>2, <2>3, <2>4 DEF DigitAt
    <3>2. Below(a, b, d)
      BY <1>1, <2>1, <3>1, EndedRunBelow, BytesDecide
    <3>3. Cmp(Len(a) - pa, Len(b) - pb) = "Less"
      BY <1>1, <2>4, <3>1 DEF Cmp
    <3> QED
      BY <1>1, <1>2, <2>1, <3>2, <3>3 DEF Says, Ordered
  <2>5. CASE d = Len(b)
    <3>1. d < Len(a) /\ ByteAt(b, d) < ByteAt(a, d) /\ ~ DigitAt(b, d)
      BY <1>1, <1>2, <2>2, <2>3, <2>5 DEF DigitAt
    <3>2. Below(b, a, d)
      BY <1>1, <2>1, <3>1, EndedRunBelow, BytesDecide
    <3>3. Cmp(Len(a) - pa, Len(b) - pb) = "Greater"
      BY <1>1, <2>5, <3>1 DEF Cmp
    <3> QED
      BY <1>1, <1>2, <2>1, <3>2, <3>3 DEF Says, Ordered
  <2> QED
    BY <1>2, <2>4, <2>5
<1> QED
  BY <1>3, <1>4

LEMMA SettleDecides ==
  ASSUME pc # "done", NEW order, Settle(order), WsFree(a) /\ WsFree(b) => Says(a, b, order)
  PROVE  OneRound' /\ FirstDifferenceDecides'
<1>1. res' = order /\ pc' = "done" /\ a' = a /\ b' = b
  BY DEF Settle
<1> QED
  BY <1>1 DEF OneRound, FirstDifferenceDecides, Says, WsFree, Ordered

LEMMA DInvInductive == DInv /\ [Next]_vars => DInv'
<1> SUFFICES ASSUME DInv, [Next]_vars PROVE OneRound' /\ FirstDifferenceDecides'
  BY Inductive DEF DInv
<1>1. IInv /\ TypeOK /\ OneRound /\ FirstDifferenceDecides
  BY DEF DInv, IInv
<1>2. CASE SamePointer
  BY <1>2, SettleDecides DEF SamePointer, Says
<1>3. CASE New
  <2>1. /\ a' = a /\ b' = b /\ pc' = "loop"
        /\ pa' = Start(a, b) /\ pb' = Start(a, b)
    BY <1>3 DEF New, Consume
  <2>2. Start(a, b)' = Start(a, b)
    BY <2>1
  <2> QED
    BY <2>1, <2>2 DEF OneRound, FirstDifferenceDecides
<1>4. CASE End
  <2>1. pc = "loop" /\ AtEnd /\ Settle(Cmp(Len(a) - pa, Len(b) - pb))
    BY <1>4 DEF End
  <2> QED
    BY <1>1, <2>1, RoundAtEnd, SettleDecides
<1>5. CASE DigitsSettle
  <2>1. pc # "done" /\ InLoop /\ BothDigits /\ Settle(HandleDigits(a, pa, b, pb).order)
    BY <1>5 DEF DigitsSettle, InLoop
  <2> QED
    BY <1>1, <2>1, RoundOfDigits, SettleDecides
<1>6. CASE DigitsContinue
  <2>1. /\ pc' = "loop" /\ InLoop /\ BothDigits /\ a' = a /\ b' = b
        /\ HandleDigits(a, pa, b, pb).order = "Undecided"
    BY <1>6 DEF DigitsContinue, Consume
  <2>2. ~ (WsFree(a) /\ WsFree(b))
    BY <1>1, <2>1, RoundOfDigits DEF Unequal
  <2> QED
    BY <2>1, <2>2 DEF OneRound, FirstDifferenceDecides, WsFree
<1>7. CASE SkipWs
  <2>1. pc' = "loop" /\ InLoop /\ a' = a /\ b' = b /\ (IsWs(ca) \/ IsWs(cb))
    BY <1>7 DEF SkipWs, Consume
  <2>2. ~ (WsFree(a) /\ WsFree(b))
    BY <1>1, <2>1, NoWhiteSpace
  <2> QED
    BY <2>1, <2>2 DEF OneRound, FirstDifferenceDecides, WsFree
<1>8. CASE Boundary
  <2>1. /\ pc # "done" /\ InLoop /\ ~ BothDigits /\ AtBoundary
        /\ Settle(IF IsDigit(ca) THEN "Greater" ELSE "Less")
    BY <1>8 DEF Boundary, Differ, InLoop
  <2> QED
    BY <1>1, <2>1, RoundOfBytes, SettleDecides
<1>9. CASE Mismatch
  <2>1. pc # "done" /\ InLoop /\ ~ BothDigits /\ ~ AtBoundary /\ Settle(Cmp(ca, cb))
    BY <1>9 DEF Mismatch, Differ, InLoop
  <2> QED
    BY <1>1, <2>1, RoundOfBytes, SettleDecides
<1>10. CASE Advance
  <2>1. pc' = "loop" /\ InLoop /\ ~ BothDigits /\ ca = cb /\ a' = a /\ b' = b
    BY <1>10 DEF Advance, Consume
  <2>2. ~ (WsFree(a) /\ WsFree(b))
    BY <1>1, <2>1, RoundOfBytes
  <2> QED
    BY <2>1, <2>2 DEF OneRound, FirstDifferenceDecides, WsFree
<1>11. CASE UNCHANGED vars
  <2>1. a' = a /\ b' = b /\ pa' = pa /\ pb' = pb /\ pc' = pc /\ res' = res
    BY <1>11 DEF vars
  <2>2. Start(a, b)' = Start(a, b) /\ Says(a, b, res)' = Says(a, b, res)
    BY <2>1
  <2> QED
    BY <1>1, <2>1, <2>2 DEF OneRound, FirstDifferenceDecides, WsFree
<1> QED
  BY <1>2, <1>3, <1>4, <1>5, <1>6, <1>7, <1>8, <1>9, <1>10, <1>11
  DEF Next, Step, Iterate, Idle

\* Whatever the strings, if they have no white space the comparison comes out as the
\* first difference and the run it stands in say.
THEOREM DecidedByFirstDifference == Spec => []FirstDifferenceDecides
<1>1. Init => DInv
  <2>1. Init => OneRound /\ FirstDifferenceDecides
    BY DEF Init, OneRound, FirstDifferenceDecides
  <2> QED
    BY <2>1, InitInv DEF DInv
<1>2. DInv => FirstDifferenceDecides
  BY DEF DInv
<1> QED
  BY <1>1, <1>2, DInvInductive, PTL DEF Spec

-------------------------------------------------------------------------------
(***************************************************************************)
(* The caller.  Each of its answers is what Ordered says of the two words,  *)
(* so the laws are those of Ordered.                                        *)
(***************************************************************************)
NoWsAnywhere == \A s \in Strings : WsFree(s)

LEMMA SaysOne ==
  ASSUME NEW s \in Seq(Byte), NEW t \in Seq(Byte), NEW o, NEW r, Says(s, t, o), Says(s, t, r)
  PROVE  o = r
BY OrderedStrict DEF Says

LEMMA SaysReversed ==
  ASSUME NEW s \in Seq(Byte), NEW t \in Seq(Byte), NEW o, NEW r, Says(s, t, o), Says(t, s, r)
  PROVE  r = Reversed(o)
BY OrderedStrict, ReversedIs DEF Says

\* The answer to call n, its words among `ws`.
AnswerSays(ws, n, order) == Says(ws[Calls[n][1]], ws[Calls[n][2]], order)

LInv ==
  /\ DInv
  /\ a \in Strings /\ b \in Strings
  /\ answers \in Seq(Orders) /\ Len(answers) <= 4
  /\ words \in Seq(Strings) /\ Len(words) = IF Len(answers) < 2 THEN 2 ELSE 3
  /\ Len(answers) < 4 => LET n == Len(answers) + 1
                         IN  a = words[Calls[n][1]] /\ b = words[Calls[n][2]]
  /\ \A n \in 1 .. Len(answers) : AnswerSays(words, n, answers[n])

LEMMA CallsAre ==
  /\ Calls[1][1] = 1 /\ Calls[1][2] = 2
  /\ Calls[2][1] = 2 /\ Calls[2][2] = 1
  /\ Calls[3][1] = 2 /\ Calls[3][2] = 3
  /\ Calls[4][1] = 1 /\ Calls[4][2] = 3
BY DEF Calls

\* The words are strings of bytes.
LEMMA WordsAre ==
  ASSUME words \in Seq(Strings), NEW n \in 1 .. Len(words)
  PROVE  words[n] \in Strings /\ words[n] \in Seq(Byte)
<1>1. words[n] \in Strings
  OBVIOUS
<1> QED
  BY <1>1, StringsAssumption

\* A call that has returned answers for the words it was asked about.
LEMMA AnsweredSays ==
  ASSUME NoWsAnywhere, LInv, Answered, Len(answers) < 4
  PROVE  /\ answers' \in Seq(Orders) /\ Len(answers') = Len(answers) + 1
         /\ \A n \in 1 .. Len(answers) : answers'[n] = answers[n]
         /\ AnswerSays(words, Len(answers) + 1, answers'[Len(answers) + 1])
<1>1. Says(a, b, res)
  BY DEF LInv, DInv, FirstDifferenceDecides, Answered, NoWsAnywhere
<1>2. res \in Orders
  BY <1>1 DEF Says, Orders
<1>3. answers' = Append(answers, res) /\ answers \in Seq(Orders)
  BY DEF Answered, LInv
<1>4. /\ answers' \in Seq(Orders) /\ Len(answers') = Len(answers) + 1
      /\ answers'[Len(answers) + 1] = res
      /\ \A n \in 1 .. Len(answers) : answers'[n] = answers[n]
  BY <1>2, <1>3
<1> QED
  BY <1>1, <1>4 DEF LInv, AnswerSays

\* A call that is asked for starts as the first one did.
LEMMA AskedStarts ==
  ASSUME NEW n, Ask(n), words'[Calls[n][1]] \in Strings, words'[Calls[n][2]] \in Strings
  PROVE  DInv' /\ a' \in Strings /\ b' \in Strings
<1>1. /\ a' \in Strings /\ b' \in Strings /\ pa' = 0 /\ pb' = 0
      /\ pc' = "new" /\ res' = "Undecided"
      /\ a' = words'[Calls[n][1]] /\ b' = words'[Calls[n][2]]
  BY DEF Ask
<1>2. a' \in Seq(Byte) /\ b' \in Seq(Byte)
  BY <1>1, StringsAssumption
<1>3. 0 \in 0 .. Len(a') /\ 0 \in 0 .. Len(b')
  BY <1>2
<1>4. TypeOK' /\ Open' /\ Level'
  BY <1>1, <1>2, <1>3 DEF TypeOK, Open, Level
<1> QED
  BY <1>1, <1>4 DEF DInv, IInv, OneRound, FirstDifferenceDecides

LEMMA LInvInductive ==
  ASSUME NoWsAnywhere
  PROVE  LInv /\ [LawNext]_lawVars => LInv'
<1> SUFFICES ASSUME LInv, [LawNext]_lawVars PROVE LInv'
  OBVIOUS
<1>1. /\ DInv /\ a \in Strings /\ b \in Strings /\ answers \in Seq(Orders) /\ Len(answers) \in Nat /\ Len(answers) <= 4
      /\ words \in Seq(Strings) /\ Len(words) = IF Len(answers) < 2 THEN 2 ELSE 3
      /\ \A n \in 1 .. Len(answers) : AnswerSays(words, n, answers[n])
  BY DEF LInv
<1>2. CASE CallStep
  <2>1. Next /\ words' = words /\ answers' = answers
    BY <1>2 DEF CallStep
  <2>2. DInv'
    BY <1>1, <2>1, DInvInductive
  <2>3. a' = a /\ b' = b
    BY <2>1 DEF Next, Step, Iterate, SamePointer, New, End, DigitsSettle, DigitsContinue,
                SkipWs, Boundary, Mismatch, Advance, Settle, Consume, Idle, vars
  <2> QED
    BY <1>1, <2>1, <2>2, <2>3 DEF LInv
<1>3. CASE AskSecond
  <2>1. Len(answers) = 0 /\ Answered /\ words' = words /\ Ask(2) /\ Len(words) = 2
    BY <1>1, <1>3 DEF AskSecond
  <2>2. /\ answers' \in Seq(Orders) /\ Len(answers') = 1
        /\ AnswerSays(words, 1, answers'[1])
    BY <1>1, <2>1, AnsweredSays
  <2>3. words[1] \in Strings /\ words[2] \in Strings
    <3>1. 1 \in 1 .. Len(words) /\ 2 \in 1 .. Len(words)
      BY <2>1
    <3> QED
      BY <1>1, <3>1, WordsAre
  <2>4. DInv' /\ a' \in Strings /\ b' \in Strings
    BY <2>1, <2>3, CallsAre, AskedStarts
  <2> QED
    BY <1>1, <2>1, <2>2, <2>4 DEF LInv, Ask
<1>4. CASE AskThird
  <2>1. PICK z \in Strings : words' = Append(words, z)
    BY <1>4 DEF AskThird
  <2>2. Len(answers) = 1 /\ Answered /\ Ask(3) /\ Len(words) = 2
    BY <1>1, <1>4 DEF AskThird
  <2>3. /\ words' \in Seq(Strings) /\ Len(words') = 3 /\ words'[3] = z
        /\ words'[1] = words[1] /\ words'[2] = words[2] /\ words[2] \in Strings
    BY <1>1, <2>1, <2>2
  <2>4. /\ answers' \in Seq(Orders) /\ Len(answers') = 2 /\ answers'[1] = answers[1]
        /\ AnswerSays(words, 2, answers'[2]) /\ AnswerSays(words, 1, answers[1])
    BY <1>1, <2>2, AnsweredSays
  <2>5. AnswerSays(words', 1, answers'[1]) /\ AnswerSays(words', 2, answers'[2])
    BY <2>3, <2>4, CallsAre DEF AnswerSays
  <2>6. DInv' /\ a' \in Strings /\ b' \in Strings
    BY <2>2, <2>3, CallsAre, AskedStarts
  <2>7. \A n \in 1 .. Len(answers') : n = 1 \/ n = 2
    BY <2>4
  <2> QED
    BY <2>2, <2>3, <2>4, <2>5, <2>6, <2>7 DEF LInv, Ask
<1>5. CASE AskFourth
  <2>1. Len(answers) = 2 /\ Answered /\ words' = words /\ Ask(4) /\ Len(words) = 3
    BY <1>1, <1>5 DEF AskFourth
  <2>2. /\ answers' \in Seq(Orders) /\ Len(answers') = 3
        /\ \A n \in 1 .. 2 : answers'[n] = answers[n]
        /\ AnswerSays(words, 3, answers'[3])
    BY <1>1, <2>1, AnsweredSays
  <2>3. words[1] \in Strings /\ words[3] \in Strings
    <3>1. 1 \in 1 .. Len(words) /\ 3 \in 1 .. Len(words)
      BY <2>1
    <3> QED
      BY <1>1, <3>1, WordsAre
  <2>4. DInv' /\ a' \in Strings /\ b' \in Strings
    BY <2>1, <2>3, CallsAre, AskedStarts
  <2>5. \A n \in 1 .. Len(answers') : AnswerSays(words', n, answers'[n])
    <3>1. \A n \in 1 .. 2 : AnswerSays(words, n, answers'[n])
      BY <1>1, <2>1, <2>2
    <3>2. \A n \in 1 .. Len(answers') : n \in 1 .. 2 \/ n = 3
      BY <2>2
    <3> QED
      BY <2>1, <2>2, <3>1, <3>2
  <2> QED
    BY <1>1, <2>1, <2>2, <2>4, <2>5 DEF LInv, Ask
<1>6. CASE Finish
  <2>1. Len(answers) = 3 /\ Answered /\ words' = words /\ UNCHANGED vars
    BY <1>6 DEF Finish
  <2>2. /\ answers' \in Seq(Orders) /\ Len(answers') = 4
        /\ \A n \in 1 .. 3 : answers'[n] = answers[n]
        /\ AnswerSays(words, 4, answers'[4])
    BY <1>1, <2>1, AnsweredSays
  <2>3. DInv' /\ a' = a /\ b' = b
    BY <1>1, <2>1, DInvInductive DEF vars
  <2>4. \A n \in 1 .. Len(answers') : AnswerSays(words', n, answers'[n])
    <3>1. \A n \in 1 .. 3 : AnswerSays(words, n, answers'[n])
      BY <1>1, <2>1, <2>2
    <3>2. \A n \in 1 .. Len(answers') : n \in 1 .. 3 \/ n = 4
      BY <2>2
    <3> QED
      BY <2>1, <2>2, <3>1, <3>2
  <2> QED
    BY <1>1, <2>1, <2>2, <2>3, <2>4 DEF LInv
<1>7. CASE UNCHANGED lawVars
  <2>1. UNCHANGED vars /\ words' = words /\ answers' = answers /\ a' = a /\ b' = b
    BY <1>7 DEF lawVars, vars
  <2>2. DInv'
    BY <1>1, <2>1, DInvInductive
  <2> QED
    BY <1>1, <2>1, <2>2 DEF LInv
<1> QED
  BY <1>2, <1>3, <1>4, <1>5, <1>6, <1>7 DEF LawNext

LEMMA LawInvariance ==
  ASSUME NoWsAnywhere
  PROVE  LawSpec => []LInv
<1>1. LawInit => LInv
  <2> SUFFICES ASSUME LawInit PROVE LInv
    OBVIOUS
  <2>1. Init /\ words = <<a, b>> /\ answers = <<>> /\ a \in Strings /\ b \in Strings
    BY DEF LawInit, Init
  <2>2. DInv
    BY <2>1, InitInv DEF Init, DInv, OneRound, FirstDifferenceDecides
  <2>3. /\ words \in Seq(Strings) /\ Len(words) = 2 /\ words[1] = a /\ words[2] = b
        /\ answers \in Seq(Orders) /\ Len(answers) = 0
    BY <2>1
  <2> QED
    BY <2>1, <2>2, <2>3, CallsAre DEF LInv
<1> QED
  BY <1>1, LInvInductive, PTL DEF LawSpec

\* Two calls with the arguments exchanged answer the reverse.
THEOREM NeverBothLess ==
  ASSUME NoWsAnywhere
  PROVE  LawSpec => []Antisymmetric
<1>1. LInv => Antisymmetric
  <2> SUFFICES ASSUME LInv, Len(answers) = 1, pc = "done" PROVE res = Reversed(answers[1])
    BY DEF Antisymmetric
  <2>1. /\ words \in Seq(Strings) /\ Len(words) = 2
        /\ a = words[2] /\ b = words[1] /\ AnswerSays(words, 1, answers[1])
    BY CallsAre DEF LInv
  <2>2. Says(words[1], words[2], answers[1])
    BY <2>1, CallsAre DEF AnswerSays
  <2>3. Says(words[2], words[1], res)
    BY <2>1 DEF LInv, DInv, FirstDifferenceDecides, NoWsAnywhere
  <2>4. words[1] \in Seq(Byte) /\ words[2] \in Seq(Byte)
    <3>1. 1 \in 1 .. Len(words) /\ 2 \in 1 .. Len(words)
      BY <2>1
    <3> QED
      BY <2>1, <3>1, WordsAre
  <2> QED
    BY <2>2, <2>3, <2>4, SaysReversed
<1> QED
  BY <1>1, LawInvariance, PTL

\* Three words never go round in a circle, so a sort that relies on the order ends
\* and a sorted list is sorted whichever two of its words are looked at.
THEOREM NoCircle ==
  ASSUME NoWsAnywhere
  PROVE  LawSpec => []Transitive
<1>1. LInv => Transitive
  <2> SUFFICES ASSUME LInv, Len(answers) = 4
               PROVE  /\ answers[1] = "Less" /\ answers[3] = "Less" => answers[4] = "Less"
                      /\ answers[1] = "Equal" => answers[4] = answers[3]
                      /\ answers[3] = "Equal" => answers[4] = answers[1]
    BY DEF Transitive
  <2> DEFINE x == words[1]
             y == words[2]
             z == words[3]
  <2>1. /\ words \in Seq(Strings) /\ Len(words) = 3
        /\ AnswerSays(words, 1, answers[1]) /\ AnswerSays(words, 3, answers[3])
        /\ AnswerSays(words, 4, answers[4])
    BY DEF LInv
  <2>2. Says(x, y, answers[1]) /\ Says(y, z, answers[3]) /\ Says(x, z, answers[4])
    BY <2>1, CallsAre DEF AnswerSays
  <2>3. x \in Seq(Byte) /\ y \in Seq(Byte) /\ z \in Seq(Byte)
    <3>1. 1 \in 1 .. Len(words) /\ 2 \in 1 .. Len(words) /\ 3 \in 1 .. Len(words)
      BY <2>1
    <3> QED
      BY <2>1, <3>1, WordsAre
  <2> HIDE DEF x, y, z
  <2>4. ASSUME answers[1] = "Less", answers[3] = "Less" PROVE answers[4] = "Less"
    <3>1. Ordered(x, y) /\ Ordered(y, z)
      BY <2>2, <2>4 DEF Says
    <3>2. Says(x, z, "Less")
      BY <2>3, <3>1, OrderedTransitive DEF Says
    <3> QED
      BY <2>2, <2>3, <3>2, SaysOne
  <2>5. ASSUME answers[1] = "Equal" PROVE answers[4] = answers[3]
    <3>1. x = y
      BY <2>2, <2>5 DEF Says
    <3> QED
      BY <2>2, <2>3, <3>1, SaysOne
  <2>6. ASSUME answers[3] = "Equal" PROVE answers[4] = answers[1]
    <3>1. y = z
      BY <2>2, <2>6 DEF Says
    <3> QED
      BY <2>2, <2>3, <3>1, SaysOne
  <2> QED
    BY <2>4, <2>5, <2>6
<1> QED
  BY <1>1, LawInvariance, PTL
==============================================================================

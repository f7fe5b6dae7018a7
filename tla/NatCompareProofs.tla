--------------------------- MODULE NatCompareProofs ---------------------------
(***************************************************************************)
(* For all strings: the two pointers stay within their slices, every round  *)
(* of the loop that does not settle the comparison consumes something, what *)
(* has been read of both strings is the same but for white space, and how   *)
(* much white space there is makes no difference.  The argument is in Fine, *)
(* what two digit runs may come out as; at the end, the ways to compare     *)
(* runs agree, and answer the reverse when exchanged.                       *)
(***************************************************************************)
EXTENDS NatCompare, BasicLemmas, SequenceTheorems

-------------------------------------------------------------------------------
(***************************************************************************)
(* Comparing numbers and bytes.                                             *)
(***************************************************************************)
\* A result that settles the comparison, and not by calling it a draw.
Unequal == {"Less", "Greater"}

LEMMA CmpUnequal ==
  ASSUME NEW x \in Int, NEW y \in Int, x # y
  PROVE  Cmp(x, y) \in Unequal
BY CmpIs DEF Orders, Unequal

LEMMA AtByte ==
  ASSUME NEW s \in Seq(Byte), NEW k \in Nat, k < Len(s)
  PROVE  At(s, k) \in Byte /\ At(s, k) \in Int
<1>1. Len(s) \in Nat /\ k + 1 \in 1 .. Len(s)
  OBVIOUS
<1>2. s[k + 1] \in Byte
  BY <1>1
<1>3. At(s, k) \in Byte
  BY <1>2 DEF At
<1>4. Byte \subseteq Int
  BY DEF Byte
<1> QED
  BY <1>3, <1>4

LEMMA SmallerIs ==
  ASSUME NEW m \in Nat, NEW n \in Nat
  PROVE  Smaller(m, n) \in Nat /\ Smaller(m, n) <= m /\ Smaller(m, n) <= n
BY DEF Smaller

SameRun(s, p, t, q, n) == \A i \in 0 .. n - 1 : At(s, p + i) = At(t, q + i)

LEMMA EqualBytesIs ==
  ASSUME NEW s, NEW p \in Nat, NEW t, NEW q \in Nat, NEW n \in Nat
  PROVE  LET k == EqualBytes(s, p, t, q, n)
         IN  /\ k \in 0 .. n
             /\ SameRun(s, p, t, q, k)
             /\ k # n => At(s, p + k) # At(t, q + k)
<1> DEFINE stops == {k \in 0 .. n - 1 : At(s, p + k) # At(t, q + k)}
           f == FirstStop(0, n, stops)
<1>1. f \in 0 .. n /\ (f = n \/ f \in stops) /\ \A i \in 0 .. n : i < f => i \notin stops
  <2> HIDE DEF stops
  <2> QED
    BY FirstStopIs
<1>2. EqualBytes(s, p, t, q, n) = f
  BY DEF EqualBytes
<1> HIDE DEF f
<1>3. SameRun(s, p, t, q, f)
  BY <1>1 DEF SameRun
<1> QED
  BY <1>1, <1>2, <1>3

LEMMA CompareWordsIs ==
  ASSUME NEW s \in Seq(Byte), NEW p \in Nat, NEW t \in Seq(Byte), NEW q \in Nat, NEW n \in Nat,
         p + n <= Len(s), q + n <= Len(t)
  PROVE  /\ CompareWords(s, p, t, q, n) \in Unequal \union {"Undecided"}
         /\ CompareWords(s, p, t, q, n) = "Undecided" => SameRun(s, p, t, q, n)
<1> DEFINE k == EqualBytes(s, p, t, q, n)
<1>1. k \in 0 .. n /\ SameRun(s, p, t, q, k) /\ (k # n => At(s, p + k) # At(t, q + k))
  BY EqualBytesIs
<1>2. CompareWords(s, p, t, q, n)
        = IF k = n THEN "Undecided" ELSE Cmp(At(s, p + k), At(t, q + k))
  BY DEF CompareWords
<1> HIDE DEF k
<1>3. CASE k = n
  BY <1>1, <1>2, <1>3
<1>4. CASE k # n
  <2>1. p + k \in Nat /\ q + k \in Nat /\ p + k < Len(s) /\ q + k < Len(t)
    BY <1>1, <1>4
  <2>2. At(s, p + k) \in Int /\ At(t, q + k) \in Int
    BY <2>1, AtByte
  <2> QED
    BY <1>1, <1>2, <1>4, <2>2, CmpUnequal DEF Unequal
<1> QED
  BY <1>3, <1>4

LEMMA DigitEndIs ==
  ASSUME NEW s \in Seq(Byte), NEW p \in Nat, p < Len(s), IsDigit(At(s, p))
  PROVE  DigitEnd(s, p) \in Nat /\ p < DigitEnd(s, p) /\ DigitEnd(s, p) <= Len(s)
<1> DEFINE stops == {k \in 0 .. Len(s) - 1 : ~ IsDigit(At(s, k))}
           f == FirstStop(p, Len(s), stops)
<1>1. Len(s) \in Nat
  OBVIOUS
<1>2. f \in p .. Len(s) /\ (f = Len(s) \/ f \in stops)
  <2> HIDE DEF stops
  <2> QED
    BY <1>1, FirstStopIs
<1>3. DigitEnd(s, p) = f
  BY DEF DigitEnd
<1> HIDE DEF f
<1>4. f # p
  BY <1>1, <1>2
<1> QED
  BY <1>1, <1>2, <1>3, <1>4

LEMMA WsEndIs ==
  ASSUME NEW s \in Seq(Byte), NEW p \in 0 .. Len(s)
  PROVE  /\ WsEnd(s, p) \in p .. Len(s)
         /\ p < Len(s) /\ IsWs(At(s, p)) => p < WsEnd(s, p)
<1> DEFINE stops == {k \in 0 .. Len(s) - 1 : ~ IsWs(At(s, k))}
           f == FirstStop(p, Len(s), stops)
<1>1. Len(s) \in Nat
  OBVIOUS
<1>2. f \in p .. Len(s) /\ (f = Len(s) \/ f \in stops)
  <2> HIDE DEF stops
  <2> QED
    BY <1>1, FirstStopIs
<1>3. WsEnd(s, p) = f
  BY DEF WsEnd
<1> HIDE DEF f
<1> QED
  BY <1>1, <1>2, <1>3

-------------------------------------------------------------------------------
(***************************************************************************)
(* Two runs of digits.                                                      *)
(***************************************************************************)

\* Both runs are settled, not as a draw, or both are equal, not empty, and
\* within their strings.
Fine(s, p, t, q, o) ==
  /\ o.order \in Unequal \union {"Undecided"}
  /\ o.order = "Undecided" =>
       /\ o.by \in Nat \ {0}
       /\ p + o.by <= Len(s) /\ q + o.by <= Len(t)
       /\ SameRun(s, p, t, q, o.by)

AtDigits(s, p, t, q) ==
  /\ s \in Seq(Byte) /\ t \in Seq(Byte)
  /\ p \in Nat /\ p < Len(s) /\ IsDigit(At(s, p))
  /\ q \in Nat /\ q < Len(t) /\ IsDigit(At(t, q))

\* The loops that walk both runs in step.
LEMMA WalkEndIs ==
  ASSUME NEW s, NEW p, NEW t, NEW q, AtDigits(s, p, t, q), NEW stops
  PROVE  LET k == WalkEnd(s, p, t, q, stops)
         IN  /\ k \in Nat /\ p + k <= Len(s) /\ q + k <= Len(t)
             /\ p + k = Len(s) \/ q + k = Len(t) \/ k \in stops
             /\ \A i \in 0 .. k - 1 : i \notin stops
<1>1. Len(s) \in Nat /\ Len(t) \in Nat /\ p \in Nat /\ q \in Nat /\ p < Len(s) /\ q < Len(t)
  BY DEF AtDigits
<1> DEFINE n == Smaller(Len(s) - p, Len(t) - q)
           f == FirstStop(0, n, stops)
<1>2. n \in Nat /\ p + n <= Len(s) /\ q + n <= Len(t) /\ (p + n = Len(s) \/ q + n = Len(t))
  BY <1>1 DEF Smaller
<1> HIDE DEF n
<1>3. f \in 0 .. n /\ (f = n \/ f \in stops) /\ \A i \in 0 .. n : i < f => i \notin stops
  BY <1>2, FirstStopIs
<1>4. WalkEnd(s, p, t, q, stops) = f
  BY DEF WalkEnd, n
<1> HIDE DEF f
<1>5. \A i \in 0 .. f - 1 : i \notin stops
  BY <1>2, <1>3
<1> QED
  BY <1>1, <1>2, <1>3, <1>4, <1>5

LEMMA LeftShortFine ==
  ASSUME NEW s, NEW p, NEW t, NEW q, AtDigits(s, p, t, q)
  PROVE  Fine(s, p, t, q, LeftShort(s, p, t, q))
<1> DEFINE stops == {i \in 0 .. Len(s) : ~ BothDigitAt(s, p, t, q, i)
                                           \/ At(s, p + i) # At(t, q + i)}
           k == WalkEnd(s, p, t, q, stops)
           da == DigitAt(s, p + k)
           db == DigitAt(t, q + k)
           order == CASE da /\ db -> Cmp(At(s, p + k), At(t, q + k))
                      [] da /\ ~db -> "Greater"
                      [] ~da /\ db -> "Less"
                      [] ~da /\ ~db -> "Undecided"
<1>1. LeftShort(s, p, t, q) = [order |-> order, by |-> k]
  BY DEF LeftShort, Outcome
<1>2. /\ Len(s) \in Nat /\ Len(t) \in Nat /\ p \in Nat /\ q \in Nat
      /\ p < Len(s) /\ q < Len(t) /\ IsDigit(At(s, p)) /\ IsDigit(At(t, q))
      /\ s \in Seq(Byte) /\ t \in Seq(Byte)
  BY DEF AtDigits
<1>3. /\ k \in Nat /\ p + k <= Len(s) /\ q + k <= Len(t)
      /\ p + k = Len(s) \/ q + k = Len(t) \/ k \in stops
      /\ \A i \in 0 .. k - 1 : i \notin stops
  <2> HIDE DEF stops
  <2> QED
    BY WalkEndIs
<1>4. \A i \in 0 .. k - 1 : At(s, p + i) = At(t, q + i)
  <2> SUFFICES ASSUME NEW i \in 0 .. k - 1 PROVE At(s, p + i) = At(t, q + i)
    OBVIOUS
  <2> HIDE DEF k
  <2>1. i \in 0 .. Len(s) /\ i \notin stops
    BY <1>2, <1>3
  <2> QED
    BY <2>1
<1> HIDE DEF k
<1>5. CASE da /\ db
  <2>1. p + k < Len(s) /\ q + k < Len(t) /\ p + k \in Nat /\ q + k \in Nat
    BY <1>2, <1>3, <1>5 DEF DigitAt
  <2>2. At(s, p + k) # At(t, q + k)
    BY <1>3, <1>5, <2>1, <1>2 DEF BothDigitAt
  <2>3. At(s, p + k) \in Int /\ At(t, q + k) \in Int
    BY <1>2, <2>1, AtByte
  <2>4. order \in Unequal
    BY <1>5, <2>2, <2>3, CmpUnequal
  <2> HIDE DEF order
  <2> QED
    BY <1>1, <2>4 DEF Fine, Unequal
<1>6. CASE ~ (da /\ db) /\ (da \/ db)
  <2>1. order \in Unequal
    BY <1>6 DEF Unequal
  <2> HIDE DEF order
  <2> QED
    BY <1>1, <2>1 DEF Fine, Unequal
<1>7. CASE ~ da /\ ~ db
  <2>1. order = "Undecided"
    BY <1>7
  <2>2. k # 0
    BY <1>2, <1>7 DEF DigitAt
  <2> HIDE DEF order
  <2> QED
    BY <1>1, <1>3, <1>4, <2>1, <2>2 DEF Fine, SameRun
<1> QED
  BY <1>5, <1>6, <1>7

LEMMA RightShortFine ==
  ASSUME NEW s, NEW p, NEW t, NEW q, AtDigits(s, p, t, q)
  PROVE  Fine(s, p, t, q, RightShort(s, p, t, q))
<1> DEFINE stops == {i \in 0 .. Len(s) : ~ BothDigitAt(s, p, t, q, i)}
           k == WalkEnd(s, p, t, q, stops)
           da == DigitAt(s, p + k)
           db == DigitAt(t, q + k)
           order == CASE da /\ ~db -> "Greater"
                      [] ~da /\ db -> "Less"
                      [] ~da /\ ~db -> CompareWords(s, p, t, q, k)
<1>1. RightShort(s, p, t, q) = [order |-> order, by |-> k]
  BY DEF RightShort, Outcome
<1>2. /\ Len(s) \in Nat /\ Len(t) \in Nat /\ p \in Nat /\ q \in Nat
      /\ p < Len(s) /\ q < Len(t) /\ IsDigit(At(s, p)) /\ IsDigit(At(t, q))
      /\ s \in Seq(Byte) /\ t \in Seq(Byte)
  BY DEF AtDigits
<1>3. /\ k \in Nat /\ p + k <= Len(s) /\ q + k <= Len(t)
      /\ p + k = Len(s) \/ q + k = Len(t) \/ k \in stops
  <2> HIDE DEF stops
  <2> QED
    BY WalkEndIs
<1> HIDE DEF k
<1>4. ~ (da /\ db)
  BY <1>2, <1>3 DEF DigitAt, BothDigitAt
<1>5. CASE da \/ db
  <2>1. order \in Unequal
    BY <1>4, <1>5 DEF Unequal
  <2> HIDE DEF order
  <2> QED
    BY <1>1, <2>1 DEF Fine, Unequal
<1>6. CASE ~ da /\ ~ db
  <2>1. order = CompareWords(s, p, t, q, k)
    BY <1>6
  <2>2. k # 0
    BY <1>2, <1>6 DEF DigitAt
  <2>3. order \in Unequal \union {"Undecided"} /\ (order = "Undecided" => SameRun(s, p, t, q, k))
    BY <1>2, <1>3, <2>1, CompareWordsIs
  <2> HIDE DEF order
  <2> QED
    BY <1>1, <1>3, <2>2, <2>3 DEF Fine
<1> QED
  BY <1>5, <1>6

LEMMA LongFine ==
  ASSUME NEW s, NEW p, NEW t, NEW q, AtDigits(s, p, t, q)
  PROVE  /\ Fine(s, p, t, q, LeftLong(s, p, t, q))
         /\ Fine(s, p, t, q, RightLong(s, p, t, q))
<1> DEFINE ka == DigitEnd(s, p) - p
           kb == DigitEnd(t, q) - q
           n == Smaller(ka, kb)
           head == CompareWords(s, p, t, q, n)
<1>1. /\ p \in Nat /\ q \in Nat /\ s \in Seq(Byte) /\ t \in Seq(Byte)
      /\ Len(s) \in Nat /\ Len(t) \in Nat
  BY DEF AtDigits
<1>2. /\ ka \in Nat \ {0} /\ p + ka <= Len(s)
      /\ kb \in Nat \ {0} /\ q + kb <= Len(t)
  BY <1>1, DigitEndIs DEF AtDigits
<1>3. LeftLong(s, p, t, q) =
        [order |-> CASE head # "Undecided" -> head
                     [] head = "Undecided" /\ ka # kb -> Cmp(ka, kb)
                     [] head = "Undecided" /\ ka = kb -> "Undecided", by |-> ka]
  BY DEF LeftLong, Outcome
<1>4. RightLong(s, p, t, q) =
        [order |-> IF ka # kb THEN Cmp(ka, kb) ELSE CompareWords(s, p, t, q, ka), by |-> ka]
  BY DEF RightLong, Outcome
<1> HIDE DEF ka, kb
<1>5. n \in Nat /\ n <= ka /\ n <= kb /\ (ka = kb => n = ka)
  BY <1>2 DEF Smaller
<1> HIDE DEF n
<1>5a. p + n <= Len(s) /\ q + n <= Len(t)
  BY <1>1, <1>2, <1>5
<1>6. head \in Unequal \union {"Undecided"} /\ (head = "Undecided" => SameRun(s, p, t, q, n))
  BY <1>1, <1>5, <1>5a, CompareWordsIs
<1> HIDE DEF head
<1>7. ka # kb => Cmp(ka, kb) \in Unequal
  BY <1>2, CmpUnequal
<1>8. ka = kb => /\ CompareWords(s, p, t, q, ka) \in Unequal \union {"Undecided"}
                 /\ CompareWords(s, p, t, q, ka) = "Undecided" => SameRun(s, p, t, q, ka)
  BY <1>1, <1>2, CompareWordsIs
<1>9. Fine(s, p, t, q, LeftLong(s, p, t, q))
  <2>1. CASE head # "Undecided"
    BY <1>3, <1>6, <2>1 DEF Fine
  <2>2. CASE head = "Undecided" /\ ka # kb
    BY <1>3, <1>7, <2>2 DEF Fine, Unequal
  <2>3. CASE head = "Undecided" /\ ka = kb
    BY <1>2, <1>3, <1>5, <1>6, <2>3 DEF Fine
  <2> QED
    BY <2>1, <2>2, <2>3
<1>10. Fine(s, p, t, q, RightLong(s, p, t, q))
  <2>1. CASE ka # kb
    BY <1>4, <1>7, <2>1 DEF Fine, Unequal
  <2>2. CASE ka = kb
    BY <1>2, <1>4, <1>8, <2>2 DEF Fine
  <2> QED
    BY <2>1, <2>2
<1> QED
  BY <1>9, <1>10

\* Whichever way two runs are compared.
LEMMA HandleDigitsFine ==
  ASSUME NEW s, NEW p, NEW t, NEW q, AtDigits(s, p, t, q)
  PROVE  Fine(s, p, t, q, HandleDigits(s, p, t, q))
BY LeftShortFine, RightShortFine, LongFine DEF HandleDigits, LeftAligned, RightAligned

-------------------------------------------------------------------------------
(***************************************************************************)
(* The inductive invariant.                                                 *)
(***************************************************************************)

\* On strings without white space the pointers stay level, over equal bytes.
Level ==
  WsFree(a) /\ WsFree(b) =>
    /\ pc # "done" => pa = pb /\ \A i \in 0 .. pa - 1 : At(a, i) = At(b, i)
    /\ res = "Equal" => a = b

Open == pc # "done" <=> res = "Undecided"

IInv == TypeOK /\ Open /\ Level

LEMMA Lengths ==
  ASSUME TypeOK
  PROVE  /\ a \in Seq(Byte) /\ b \in Seq(Byte) /\ Len(a) \in Nat /\ Len(b) \in Nat
         /\ pa \in Nat /\ pa <= Len(a) /\ pb \in Nat /\ pb <= Len(b)
<1>1. a \in Seq(Byte) /\ b \in Seq(Byte)
  BY DEF TypeOK
<1>2. Len(a) \in Nat /\ Len(b) \in Nat
  BY <1>1
<1> QED
  BY <1>1, <1>2 DEF TypeOK

\* What a step of the loop may rely on.
LEMMA Looping ==
  ASSUME TypeOK, InLoop
  PROVE  /\ pa < Len(a) /\ pb < Len(b) /\ ca \in Byte /\ cb \in Byte
         /\ ca \in Int /\ cb \in Int
         /\ BothDigits => AtDigits(a, pa, b, pb)
<1>1. pa < Len(a) /\ pb < Len(b)
  BY Lengths DEF InLoop, AtEnd
<1>2. ca \in Byte /\ cb \in Byte /\ ca \in Int /\ cb \in Int
  BY <1>1, Lengths, AtByte DEF ca, cb
<1>3. BothDigits => AtDigits(a, pa, b, pb)
  BY <1>1, Lengths DEF BothDigits, AtDigits, ca, cb
<1> QED
  BY <1>1, <1>2, <1>3

\* Where the prefix skip and the rewind leave the pointers.
LEMMA StartIs ==
  ASSUME TypeOK
  PROVE  /\ Start(a, b) \in 0 .. Len(a) /\ Start(a, b) \in 0 .. Len(b)
         /\ \A i \in 0 .. Start(a, b) - 1 : At(a, i) = At(b, i)
<1> DEFINE n == Smaller(Len(a), Len(b))
           adv == EqualBytes(a, 0, b, 0, n)
<1>1. Len(a) \in Nat /\ Len(b) \in Nat
  BY Lengths
<1>2. n \in Nat /\ n <= Len(a) /\ n <= Len(b)
  BY <1>1 DEF Smaller
<1> HIDE DEF n
<1>3. adv \in 0 .. n /\ SameRun(a, 0, b, 0, adv)
  BY <1>2, EqualBytesIs
<1>4. SkipEqual(a, b) = adv
  BY DEF SkipEqual, n
<1> HIDE DEF adv
<1>5. \A i \in 0 .. adv - 1 : At(a, i) = At(b, i)
  BY <1>2, <1>3 DEF SameRun
<1>6. Start(a, b) = adv \/ (Start(a, b) = adv - 1 /\ adv > 0)
  BY <1>4 DEF Start, MidRun
<1> QED
  BY <1>1, <1>2, <1>3, <1>5, <1>6

\* Settling on Less or Greater, or on Equal for equal strings.
LEMMA SettleKeeps ==
  ASSUME IInv, NEW order \in Orders, Settle(order),
         order = "Equal" /\ WsFree(a) /\ WsFree(b) => a = b
  PROVE  IInv'
<1>1. /\ res' = order /\ pc' = "done" /\ a' = a /\ b' = b /\ pa' = pa /\ pb' = pb
  BY DEF Settle
<1>2. TypeOK'
  BY <1>1 DEF IInv, TypeOK
<1>3. Open' /\ Level'
  BY <1>1 DEF Open, Orders, Level, WsFree
<1> QED
  BY <1>2, <1>3 DEF IInv

\* Everything before x in the left string is everything before y in the right one.
SamePrefix(x, y) == x = y /\ \A i \in 0 .. x - 1 : At(a, i) = At(b, i)

\* Consuming: within the strings, and level if there is no white space.
LEMMA ConsumeKeeps ==
  ASSUME IInv, pc # "done", NEW x \in 0 .. Len(a), NEW y \in 0 .. Len(b), Consume(x, y),
         WsFree(a) /\ WsFree(b) => SamePrefix(x, y)
  PROVE  IInv'
<1>1. /\ pa' = x /\ pb' = y /\ pc' = "loop" /\ a' = a /\ b' = b /\ res' = res
  BY DEF Consume
<1>2. res = "Undecided" /\ TypeOK
  BY DEF IInv, Open
<1>3. TypeOK'
  BY <1>1, <1>2 DEF TypeOK
<1>4. Open' /\ Level'
  BY <1>1, <1>2 DEF Open, Level, WsFree, SamePrefix
<1> QED
  BY <1>3, <1>4 DEF IInv

LEMMA InitInv == Init => IInv
<1> SUFFICES ASSUME Init PROVE IInv
  OBVIOUS
<1>1. a \in Seq(Byte) /\ b \in Seq(Byte) /\ pa = 0 /\ pb = 0 /\ pc = "new" /\ res = "Undecided"
  BY StringsAssumption DEF Init
<1>2. 0 \in 0 .. Len(a) /\ 0 \in 0 .. Len(b)
  BY <1>1
<1>3. TypeOK
  BY <1>1, <1>2 DEF Init, TypeOK
<1> QED
  BY <1>1, <1>3 DEF IInv, Open, Level

\* Strings that agree byte by byte are the same string.
LEMMA SameBytes ==
  ASSUME TypeOK, Len(a) = Len(b), \A i \in 0 .. Len(a) - 1 : At(a, i) = At(b, i)
  PROVE  a = b
<1>1. a \in Seq(Byte) /\ b \in Seq(Byte) /\ Len(a) \in Nat
  BY Lengths
<1>2. ASSUME NEW j \in 1 .. Len(a) PROVE a[j] = b[j]
  <2>1. j - 1 \in 0 .. Len(a) - 1 /\ (j - 1) + 1 = j
    BY <1>1
  <2>2. a[(j - 1) + 1] = b[(j - 1) + 1]
    BY <2>1 DEF At
  <2> QED
    BY <2>1, <2>2
<1> QED
  BY <1>1, <1>2, SeqEqual

LEMMA Inductive == IInv /\ [Next]_vars => IInv'
<1> SUFFICES ASSUME IInv, [Next]_vars PROVE IInv'
  OBVIOUS
<1>1. TypeOK /\ Open /\ Level
  BY DEF IInv
<1>2. /\ Len(a) \in Nat /\ Len(b) \in Nat
      /\ pa \in Nat /\ pa <= Len(a) /\ pb \in Nat /\ pb <= Len(b)
  BY <1>1, Lengths
<1>3. CASE SamePointer
  BY <1>3, SettleKeeps DEF SamePointer, Orders
<1>4. CASE New
  <2>1. pc # "done" /\ Consume(Start(a, b), Start(a, b))
    BY <1>4 DEF New
  <2> QED
    BY <1>1, <2>1, StartIs, ConsumeKeeps DEF SamePrefix
<1>5. CASE End
  <2> DEFINE order == Cmp(Len(a) - pa, Len(b) - pb)
  <2>1. pc # "done" /\ AtEnd /\ Settle(order)
    BY <1>5 DEF End
  <2>2. order \in Orders /\ (order = "Equal" <=> Len(a) - pa = Len(b) - pb)
    BY <1>2, CmpIs
  <2>3. ASSUME order = "Equal", WsFree(a), WsFree(b) PROVE a = b
    <3>1. pa = pb /\ \A i \in 0 .. pa - 1 : At(a, i) = At(b, i)
      BY <1>1, <2>1, <2>3 DEF Level
    <3>2. pa = Len(a) /\ Len(a) = Len(b)
      BY <1>2, <2>1, <2>2, <2>3, <3>1 DEF AtEnd
    <3> QED
      BY <1>1, <3>1, <3>2, SameBytes
  <2> QED
    BY <2>1, <2>2, <2>3, SettleKeeps
<1>6. CASE DigitsSettle
  <2>1. InLoop /\ BothDigits
        /\ HandleDigits(a, pa, b, pb).order # "Undecided"
        /\ Settle(HandleDigits(a, pa, b, pb).order)
    BY <1>6 DEF DigitsSettle
  <2>2. Fine(a, pa, b, pb, HandleDigits(a, pa, b, pb))
    BY <1>1, <2>1, Looping, HandleDigitsFine
  <2>3. HandleDigits(a, pa, b, pb).order \in Unequal
    BY <2>1, <2>2 DEF Fine
  <2> QED
    BY <2>1, <2>3, SettleKeeps DEF Unequal, Orders
<1>7. CASE DigitsContinue
  <2> DEFINE by == HandleDigits(a, pa, b, pb).by
  <2>1. /\ InLoop /\ BothDigits /\ pc # "done"
        /\ HandleDigits(a, pa, b, pb).order = "Undecided"
        /\ Consume(pa + by, pb + by)
    BY <1>7 DEF DigitsContinue, InLoop
  <2>2. Fine(a, pa, b, pb, HandleDigits(a, pa, b, pb))
    BY <1>1, <2>1, Looping, HandleDigitsFine
  <2>3. /\ by \in Nat \ {0} /\ pa + by <= Len(a) /\ pb + by <= Len(b)
        /\ SameRun(a, pa, b, pb, by)
    BY <2>1, <2>2 DEF Fine
  <2> HIDE DEF by
  <2>4. pa + by \in 0 .. Len(a) /\ pb + by \in 0 .. Len(b)
    BY <1>2, <2>3
  <2>5. ASSUME WsFree(a), WsFree(b) PROVE SamePrefix(pa + by, pb + by)
    <3>1. pa = pb /\ \A i \in 0 .. pa - 1 : At(a, i) = At(b, i)
      BY <1>1, <2>1, <2>5 DEF Level
    <3>2. ASSUME NEW i \in pa .. pa + by - 1 PROVE At(a, i) = At(b, i)
      <4>1. i - pa \in 0 .. by - 1 /\ pa + (i - pa) = i
        BY <1>2, <2>3
      <4>2. At(a, pa + (i - pa)) = At(b, pb + (i - pa))
        BY <2>3, <4>1 DEF SameRun
      <4> QED
        BY <3>1, <4>1, <4>2
    <3> QED
      BY <1>2, <2>3, <3>1, <3>2 DEF SamePrefix
  <2> QED
    BY <2>1, <2>4, <2>5, ConsumeKeeps
<1>8. CASE SkipWs
  <2>1. pc # "done" /\ InLoop /\ (IsWs(ca) \/ IsWs(cb)) /\ Consume(WsEnd(a, pa), WsEnd(b, pb))
    BY <1>8 DEF SkipWs, InLoop
  <2>2. pa < Len(a) /\ pb < Len(b)
    BY <1>1, <2>1, Looping
  <2>3. WsEnd(a, pa) \in 0 .. Len(a) /\ WsEnd(b, pb) \in 0 .. Len(b)
    <3>1. WsEnd(a, pa) \in pa .. Len(a) /\ WsEnd(b, pb) \in pb .. Len(b)
      BY <1>1, <1>2, Lengths, WsEndIs
    <3> QED
      BY <1>2, <3>1
  <2>4. ~ (WsFree(a) /\ WsFree(b))
    BY <1>2, <2>1, <2>2 DEF WsFree, NotWs, ca, cb, At
  <2> QED
    BY <2>1, <2>3, <2>4, ConsumeKeeps
<1>9. CASE Boundary
  <2>1. Settle("Greater") \/ Settle("Less")
    BY <1>9 DEF Boundary
  <2> QED
    BY <2>1, SettleKeeps DEF Orders
<1>10. CASE Mismatch
  <2>1. InLoop /\ ca # cb /\ Settle(Cmp(ca, cb))
    BY <1>10 DEF Mismatch, Differ
  <2>2. Cmp(ca, cb) \in Unequal
    BY <1>1, <2>1, Looping, CmpUnequal
  <2> QED
    BY <2>1, <2>2, SettleKeeps DEF Unequal, Orders
<1>11. CASE Advance
  <2>1. pc # "done" /\ InLoop /\ ca = cb /\ Consume(pa + 1, pb + 1)
    BY <1>11 DEF Advance, InLoop
  <2>2. pa + 1 \in 0 .. Len(a) /\ pb + 1 \in 0 .. Len(b)
    BY <1>1, <1>2, <2>1, Looping
  <2>3. ASSUME WsFree(a), WsFree(b) PROVE SamePrefix(pa + 1, pb + 1)
    <3>1. pa = pb /\ \A i \in 0 .. pa - 1 : At(a, i) = At(b, i)
      BY <1>1, <2>1, <2>3 DEF Level
    <3>2. At(a, pa) = At(b, pa)
      BY <2>1, <3>1 DEF ca, cb
    <3>3. ASSUME NEW i \in 0 .. (pa + 1) - 1 PROVE At(a, i) = At(b, i)
      <4>1. i = pa \/ i \in 0 .. pa - 1
        BY <1>2
      <4> QED
        BY <3>1, <3>2, <4>1
    <3> QED
      BY <3>1, <3>3 DEF SamePrefix
  <2> QED
    BY <2>1, <2>2, <2>3, ConsumeKeeps
<1>12. CASE UNCHANGED vars
  BY <1>1, <1>12 DEF vars, IInv, TypeOK, Open, Level, WsFree
<1> QED
  BY <1>3, <1>4, <1>5, <1>6, <1>7, <1>8, <1>9, <1>10, <1>11, <1>12
  DEF Next, Step, Iterate, Idle

-------------------------------------------------------------------------------
(***************************************************************************)
(* The theorems.                                                            *)
(***************************************************************************)

\* The strengthened invariant holds of every call on strings of any length.
THEOREM Invariance == Spec => []IInv
<1> QED
  BY InitInv, Inductive, PTL DEF Spec

\* The pointers never leave their slices, so the unchecked reads of the loop and of
\* its helpers are within bounds.
THEOREM TypeCorrect == Spec => []TypeOK
<1>1. IInv => TypeOK
  BY DEF IInv
<1> QED
  BY <1>1, Invariance, PTL

\* Each round that does not settle the comparison consumes a byte, so none of the
\* three `continue`s of the loop can make it run for ever.
THEOREM Progress == Spec => []RoundConsumes
<1>1. IInv => RoundConsumes
  <2> SUFFICES ASSUME IInv, InLoop PROVE RoundConsumes
    BY DEF RoundConsumes
  <2>1. TypeOK
    BY DEF IInv
  <2>2. ASSUME BothDigits, HandleDigits(a, pa, b, pb).order = "Undecided"
        PROVE  HandleDigits(a, pa, b, pb).by > 0
    <3>1. Fine(a, pa, b, pb, HandleDigits(a, pa, b, pb))
      BY <2>1, <2>2, Looping, HandleDigitsFine
    <3>2. HandleDigits(a, pa, b, pb).by \in Nat \ {0}
      BY <2>2, <3>1 DEF Fine
    <3> QED
      BY <3>2
  <2>3. ASSUME IsWs(ca) \/ IsWs(cb)
        PROVE  WsEnd(a, pa) + WsEnd(b, pb) > pa + pb
    <3>1. /\ pa \in 0 .. Len(a) /\ pa < Len(a) /\ pb \in 0 .. Len(b) /\ pb < Len(b)
          /\ a \in Seq(Byte) /\ b \in Seq(Byte) /\ Len(a) \in Nat /\ Len(b) \in Nat
      BY <2>1, Looping, Lengths
    <3>2. /\ WsEnd(a, pa) \in pa .. Len(a) /\ (IsWs(ca) => pa < WsEnd(a, pa))
          /\ WsEnd(b, pb) \in pb .. Len(b) /\ (IsWs(cb) => pb < WsEnd(b, pb))
      BY <3>1, WsEndIs DEF ca, cb
    <3> QED
      BY <2>3, <3>1, <3>2
  <2> QED
    BY <2>2, <2>3 DEF RoundConsumes
<1> QED
  BY <1>1, Invariance, PTL

-------------------------------------------------------------------------------
(***************************************************************************)
(* What has been consumed.  A reading of s takes its bytes one by one, and  *)
(* white space changes nothing: r[n] is what has been read after n bytes,   *)
(* whatever that is.  The invariant says that no reading tells the part of  *)
(* a before pa from the part of b before pb.                                *)
(***************************************************************************)
Reads(r, s, step) ==
  \A n \in 1 .. Len(s) :
    r[n] = IF IsWs(s[n]) THEN r[n - 1] ELSE step[<<r[n - 1], s[n]>>]

ReadAlike(x, y) ==
  \A r, u, step : Reads(r, a, step) /\ Reads(u, b, step) /\ r[0] = u[0] => r[x] = u[y]

\* The n bytes of s from p are those of t from q.
Stretch(s, p, t, q, n) ==
  /\ s \in Seq(Byte) /\ t \in Seq(Byte)
  /\ p \in Nat /\ q \in Nat /\ n \in Nat
  /\ p + n <= Len(s) /\ q + n <= Len(t)
  /\ SameRun(s, p, t, q, n)

\* Equal bytes read alike.
LEMMA ReadRun ==
  ASSUME NEW s, NEW p, NEW t, NEW q, NEW n, Stretch(s, p, t, q, n),
         NEW r, NEW u, NEW step, Reads(r, s, step), Reads(u, t, step), r[p] = u[q]
  PROVE  r[p + n] = u[q + n]
<1> DEFINE S == {k \in Nat : k <= n => r[p + k] = u[q + k]}
<1>1. /\ Len(s) \in Nat /\ Len(t) \in Nat /\ p \in Nat /\ q \in Nat /\ n \in Nat
      /\ p + n <= Len(s) /\ q + n <= Len(t) /\ SameRun(s, p, t, q, n)
  BY DEF Stretch
<1>2. 0 \in S
  BY <1>1
<1>3. ASSUME NEW k \in Nat, k \in S PROVE k + 1 \in S
  <2>1. SUFFICES ASSUME k + 1 <= n PROVE r[p + (k + 1)] = u[q + (k + 1)]
    OBVIOUS
  <2>2. r[p + k] = u[q + k]
    BY <1>1, <1>3, <2>1
  <2>3. /\ p + (k + 1) \in 1 .. Len(s) /\ (p + (k + 1)) - 1 = p + k
        /\ q + (k + 1) \in 1 .. Len(t) /\ (q + (k + 1)) - 1 = q + k
    BY <1>1, <2>1
  <2>4. s[p + (k + 1)] = t[q + (k + 1)]
    <3>1. At(s, p + k) = At(t, q + k) /\ (p + k) + 1 = p + (k + 1) /\ (q + k) + 1 = q + (k + 1)
      BY <1>1, <2>1 DEF SameRun
    <3> QED
      BY <3>1 DEF At
  <2>5. r[p + (k + 1)] = IF IsWs(s[p + (k + 1)]) THEN r[p + k]
                         ELSE step[<<r[p + k], s[p + (k + 1)]>>]
    BY <2>3 DEF Reads
  <2>6. u[q + (k + 1)] = IF IsWs(t[q + (k + 1)]) THEN u[q + k]
                         ELSE step[<<u[q + k], t[q + (k + 1)]>>]
    BY <2>3 DEF Reads
  <2> QED
    BY <2>2, <2>4, <2>5, <2>6
<1>4. n \in S
  <2> HIDE DEF S
  <2> QED
    BY <1>1, <1>2, <1>3, Induction
<1> QED
  BY <1>1, <1>4

\* White space reads as nothing.
LEMMA ReadWs ==
  ASSUME NEW s \in Seq(Byte), NEW r, NEW step, NEW p \in 0 .. Len(s), Reads(r, s, step)
  PROVE  r[WsEnd(s, p)] = r[p]
<1> DEFINE stops == {k \in 0 .. Len(s) - 1 : ~ IsWs(At(s, k))}
           f == FirstStop(p, Len(s), stops)
           S == {k \in Nat : p + k <= f => r[p + k] = r[p]}
<1>1. Len(s) \in Nat /\ p \in Nat
  OBVIOUS
<1>2. /\ f \in p .. Len(s)
      /\ \A k \in p .. Len(s) : k < f => k \notin stops
  <2> HIDE DEF stops
  <2> QED
    BY <1>1, FirstStopIs
<1>3. WsEnd(s, p) = f
  BY DEF WsEnd
<1> HIDE DEF f
<1>4. 0 \in S
  OBVIOUS
<1>5. ASSUME NEW k \in Nat, k \in S PROVE k + 1 \in S
  <2>1. SUFFICES ASSUME p + (k + 1) <= f PROVE r[p + (k + 1)] = r[p]
    OBVIOUS
  <2>2. r[p + k] = r[p]
    BY <1>1, <1>2, <1>5, <2>1
  <2>3. p + k \in 0 .. Len(s) - 1 /\ p + k \in p .. Len(s) /\ p + k < f
    BY <1>1, <1>2, <2>1
  <2>4. IsWs(At(s, p + k))
    BY <1>2, <2>3
  <2>5. p + (k + 1) \in 1 .. Len(s) /\ (p + k) + 1 = p + (k + 1) /\ (p + (k + 1)) - 1 = p + k
    BY <1>1, <2>3
  <2>6. IsWs(s[p + (k + 1)])
    BY <2>4, <2>5 DEF At
  <2> QED
    BY <2>2, <2>5, <2>6 DEF Reads
<1>6. f - p \in Nat /\ p + (f - p) = f
  BY <1>1, <1>2
<1>7. f - p \in S
  <2> HIDE DEF S
  <2> QED
    BY <1>4, <1>5, <1>6, Induction
<1> QED
  BY <1>3, <1>6, <1>7

\* The loop has consumed two parts that read alike, and of strings called Equal all.
InSync ==
  /\ pc = "loop" => ReadAlike(pa, pb)
  /\ res = "Equal" => ReadAlike(Len(a), Len(b))

\* Behind two parts that read alike, equal bytes keep it so.
LEMMA ReadAlikeRun ==
  ASSUME TypeOK, NEW x \in Nat, NEW y \in Nat, NEW n \in Nat, x + n <= Len(a), y + n <= Len(b),
         ReadAlike(x, y), SameRun(a, x, b, y, n)
  PROVE  ReadAlike(x + n, y + n)
<1> SUFFICES ASSUME NEW r, NEW u, NEW step, Reads(r, a, step), Reads(u, b, step), r[0] = u[0]
             PROVE  r[x + n] = u[y + n]
  BY DEF ReadAlike
<1>1. r[x] = u[y]
  BY DEF ReadAlike
<1>2. Stretch(a, x, b, y, n)
  BY Lengths DEF Stretch
<1> QED
  BY <1>1, <1>2, ReadRun

LEMMA SyncInductive == IInv /\ InSync /\ [Next]_vars => InSync'
<1> SUFFICES ASSUME IInv, InSync, [Next]_vars PROVE InSync'
  OBVIOUS
<1>1. TypeOK /\ Open
  BY DEF IInv
<1>2. /\ Len(a) \in Nat /\ Len(b) \in Nat /\ a \in Seq(Byte) /\ b \in Seq(Byte)
      /\ pa \in Nat /\ pa <= Len(a) /\ pb \in Nat /\ pb <= Len(b)
  BY <1>1, Lengths
<1>3. ReadAlike(0, 0)
  BY DEF ReadAlike
<1>4. ASSUME NEW order, Settle(order), order = "Equal" => ReadAlike(Len(a), Len(b))
      PROVE  InSync'
  BY <1>4 DEF Settle, InSync, ReadAlike
<1>5. ASSUME NEW x, NEW y, Consume(x, y), pc # "done", ReadAlike(x, y) PROVE InSync'
  BY <1>1, <1>5 DEF Open, Consume, InSync, ReadAlike
<1>6. CASE SamePointer
  <2>1. a = b /\ Settle("Equal")
    BY <1>6 DEF SamePointer
  <2>2. SameRun(a, 0, b, 0, Len(a))
    BY <2>1 DEF SameRun
  <2>3. ReadAlike(0 + Len(a), 0 + Len(b))
    BY <1>1, <1>2, <1>3, <2>1, <2>2, ReadAlikeRun
  <2> QED
    BY <1>2, <1>4, <2>1, <2>3
<1>7. CASE New
  <2>1. pc # "done" /\ Consume(Start(a, b), Start(a, b))
    BY <1>7 DEF New
  <2>2. /\ Start(a, b) \in Nat /\ Start(a, b) <= Len(a) /\ Start(a, b) <= Len(b)
        /\ SameRun(a, 0, b, 0, Start(a, b))
    BY <1>1, <1>2, StartIs DEF SameRun
  <2>3. ReadAlike(0 + Start(a, b), 0 + Start(a, b))
    BY <1>1, <1>3, <2>2, ReadAlikeRun
  <2> QED
    BY <1>5, <2>1, <2>2, <2>3
<1>8. CASE End
  <2>1. pc = "loop" /\ AtEnd /\ Settle(Cmp(Len(a) - pa, Len(b) - pb))
    BY <1>8 DEF End
  <2>2. ASSUME Cmp(Len(a) - pa, Len(b) - pb) = "Equal" PROVE pa = Len(a) /\ pb = Len(b)
    <3>1. Len(a) - pa = Len(b) - pb
      BY <1>2, <2>2, CmpIs
    <3> QED
      BY <1>2, <2>1, <3>1 DEF AtEnd
  <2> QED
    BY <1>4, <2>1, <2>2 DEF InSync
<1>9. CASE DigitsSettle
  <2>1. InLoop /\ BothDigits
        /\ HandleDigits(a, pa, b, pb).order # "Undecided"
        /\ Settle(HandleDigits(a, pa, b, pb).order)
    BY <1>9 DEF DigitsSettle
  <2>2. Fine(a, pa, b, pb, HandleDigits(a, pa, b, pb))
    BY <1>1, <2>1, Looping, HandleDigitsFine
  <2>3. HandleDigits(a, pa, b, pb).order # "Equal"
    BY <2>2 DEF Fine, Unequal
  <2> QED
    BY <1>4, <2>1, <2>3
<1>10. CASE DigitsContinue
  <2> DEFINE by == HandleDigits(a, pa, b, pb).by
  <2>1. /\ InLoop /\ BothDigits /\ pc = "loop"
        /\ HandleDigits(a, pa, b, pb).order = "Undecided"
        /\ Consume(pa + by, pb + by)
    BY <1>10 DEF DigitsContinue, InLoop
  <2>2. Fine(a, pa, b, pb, HandleDigits(a, pa, b, pb))
    BY <1>1, <2>1, Looping, HandleDigitsFine
  <2>3. /\ by \in Nat /\ pa + by <= Len(a) /\ pb + by <= Len(b)
        /\ SameRun(a, pa, b, pb, by)
    BY <2>1, <2>2 DEF Fine
  <2> HIDE DEF by
  <2>4. ReadAlike(pa + by, pb + by)
    BY <1>1, <1>2, <2>1, <2>3, ReadAlikeRun DEF InSync
  <2> QED
    BY <1>5, <2>1, <2>4
<1>11. CASE SkipWs
  <2>1. pc = "loop" /\ Consume(WsEnd(a, pa), WsEnd(b, pb))
    BY <1>11 DEF SkipWs, InLoop
  <2>2. ASSUME NEW r, NEW u, NEW step,
               Reads(r, a, step), Reads(u, b, step), r[0] = u[0]
        PROVE  r[WsEnd(a, pa)] = u[WsEnd(b, pb)]
    <3>1. r[pa] = u[pb]
      BY <2>1, <2>2 DEF InSync, ReadAlike
    <3>2. pa \in 0 .. Len(a) /\ pb \in 0 .. Len(b)
      BY <1>2
    <3>3. r[WsEnd(a, pa)] = r[pa]
      BY <1>2, <2>2, <3>2, ReadWs
    <3>4. u[WsEnd(b, pb)] = u[pb]
      BY <1>2, <2>2, <3>2, ReadWs
    <3> QED
      BY <3>1, <3>3, <3>4
  <2>3. ReadAlike(WsEnd(a, pa), WsEnd(b, pb))
    BY <2>2 DEF ReadAlike
  <2> QED
    BY <1>5, <2>1, <2>3
<1>12. CASE Boundary
  <2>1. Settle("Greater") \/ Settle("Less")
    BY <1>12 DEF Boundary
  <2> QED
    BY <1>4, <2>1
<1>13. CASE Mismatch
  <2>1. InLoop /\ ca # cb /\ Settle(Cmp(ca, cb))
    BY <1>13 DEF Mismatch, Differ
  <2>2. Cmp(ca, cb) # "Equal"
    BY <1>1, <2>1, Looping, CmpUnequal DEF Unequal
  <2> QED
    BY <1>4, <2>1, <2>2
<1>14. CASE Advance
  <2>1. pc = "loop" /\ InLoop /\ ca = cb /\ Consume(pa + 1, pb + 1)
    BY <1>14 DEF Advance, InLoop
  <2>2. pa + 1 <= Len(a) /\ pb + 1 <= Len(b)
    BY <1>1, <1>2, <2>1, Looping
  <2>3. SameRun(a, pa, b, pb, 1)
    BY <1>2, <2>1 DEF SameRun, ca, cb
  <2>4. ReadAlike(pa + 1, pb + 1)
    BY <1>1, <1>2, <2>1, <2>2, <2>3, ReadAlikeRun DEF InSync
  <2> QED
    BY <1>5, <2>1, <2>4
<1>15. CASE UNCHANGED vars
  BY <1>15 DEF vars, InSync, ReadAlike
<1> QED
  BY <1>6, <1>7, <1>8, <1>9, <1>10, <1>11, <1>12, <1>13, <1>14, <1>15
  DEF Next, Step, Iterate, Idle

\* Nothing is ever skipped on one side only.
THEOREM ReadInSync == Spec => [](IInv /\ InSync)
<1>1. Init => InSync
  BY DEF Init, InSync
<1> QED
  BY <1>1, InitInv, Inductive, SyncInductive, PTL DEF Spec

\* A value to start from and a step determine a reading of every string.
Reader(V, c, step) == c \in V /\ step \in [V \X Byte -> V]

LEMMA ReadingExists ==
  ASSUME NEW V, NEW c, NEW step, Reader(V, c, step), NEW s \in Seq(Byte)
  PROVE  \E g : g \in [0 .. Len(s) -> V] /\ g[0] = c /\ Reads(g, s, step)
<1> USE DEF Reader
<1> DEFINE m == Len(s)
           next == [x \in V \X (1 .. m) |->
                      IF IsWs(s[x[2]]) THEN x[1] ELSE step[<<x[1], s[x[2]]>>]]
<1>1. m \in Nat /\ \A n \in 1 .. m : s[n] \in Byte
  OBVIOUS
<1> HIDE DEF m
<1>2. next \in [V \X (1 .. m) -> V]
  BY <1>1
<1>3. ASSUME NEW v \in V, NEW n \in 1 .. m
      PROVE  next[<<v, n>>] = IF IsWs(s[n]) THEN v ELSE step[<<v, s[n]>>]
  OBVIOUS
<1> HIDE DEF next
<1>4. PICK g : Steps(g, V, c, m, next)
  <2>1. Stepping(V, c, m, next)
    BY <1>1, <1>2 DEF Stepping
  <2> QED
    BY <2>1, Recursion
<1>4a. /\ g \in [0 .. m -> V] /\ g[0] = c
       /\ \A n \in 1 .. m : g[n] = next[<<g[n - 1], n>>]
  BY <1>4 DEF Steps
<1>5. ASSUME NEW n \in 1 .. m PROVE g[n - 1] \in V
  BY <1>1, <1>4a
<1>6. \A n \in 1 .. m : g[n] = IF IsWs(s[n]) THEN g[n - 1] ELSE step[<<g[n - 1], s[n]>>]
  BY <1>3, <1>4a, <1>5
<1> QED
  BY <1>4a, <1>6 DEF Reads, m

\* Keeping what is no white space is a reading.
Keep == [x \in Seq(Byte) \X Byte |-> Append(x[1], x[2])]

LEMMA StrippedReads ==
  ASSUME NEW s \in Seq(Byte)
  PROVE  Stripped(s)[0] = <<>> /\ Reads(Stripped(s), s, Keep)
<1> DEFINE Body(kept) == [n \in 0 .. Len(s) |->
                            IF n = 0 THEN <<>> ELSE KeepByte(kept[n - 1], s[n])]
<1>1. Len(s) \in Nat /\ \A n \in 1 .. Len(s) : s[n] \in Byte
  OBVIOUS
<1>2. Reader(Seq(Byte), <<>>, Keep)
  BY DEF Reader, Keep
<1>3. PICK g : g \in [0 .. Len(s) -> Seq(Byte)] /\ g[0] = <<>> /\ Reads(g, s, Keep)
  BY <1>2, ReadingExists
<1>4. ASSUME NEW f, f \in [0 .. Len(s) -> Seq(Byte)], NEW n \in 1 .. Len(s)
      PROVE  KeepByte(f[n - 1], s[n])
               = IF IsWs(s[n]) THEN f[n - 1] ELSE Keep[<<f[n - 1], s[n]>>]
  <2>1. f[n - 1] \in Seq(Byte) /\ s[n] \in Byte
    BY <1>1, <1>4
  <2> QED
    BY <2>1 DEF Keep, KeepByte
<1>5. g = Body(g)
  <2>1. ASSUME NEW n \in 0 .. Len(s) PROVE g[n] = Body(g)[n]
    <3>1. CASE n = 0
      BY <1>3, <3>1
    <3>2. CASE n \in 1 .. Len(s)
      <4>1. g[n] = KeepByte(g[n - 1], s[n])
        BY <1>3, <1>4, <3>2 DEF Reads
      <4> QED
        BY <3>2, <4>1
    <3> QED
      BY <1>1, <3>1, <3>2
  <2> QED
    BY <1>3, <2>1
<1>6. Stripped(s) = CHOOSE kept : kept = Body(kept)
  BY DEF Stripped
<1>7. Stripped(s) = Body(Stripped(s))
  <2> HIDE DEF Body
  <2> QED
    BY <1>5, <1>6
<1> DEFINE f == Stripped(s)
<1> HIDE DEF f
<1>8. f[0] = <<>> /\ \A n \in 1 .. Len(s) : f[n] = KeepByte(f[n - 1], s[n])
  BY <1>1, <1>7 DEF f
<1> DEFINE S == {k \in Nat : k <= Len(s) => f[k] \in Seq(Byte)}
<1>9. \A n \in Nat : n \in S
  <2>1. 0 \in S
    <3>1. <<>> \in Seq(Byte)
      OBVIOUS
    <3> QED
      BY <1>8, <3>1
  <2>2. ASSUME NEW n \in Nat, n \in S PROVE n + 1 \in S
    <3>1. SUFFICES ASSUME n + 1 <= Len(s) PROVE f[n + 1] \in Seq(Byte)
      OBVIOUS
    <3>2. n + 1 \in 1 .. Len(s) /\ (n + 1) - 1 = n /\ f[n] \in Seq(Byte)
      BY <1>1, <2>2, <3>1
    <3>3. s[n + 1] \in Byte /\ f[n + 1] = KeepByte(f[n], s[n + 1])
      BY <1>1, <1>8, <3>2
    <3>4. Append(f[n], s[n + 1]) \in Seq(Byte)
      BY <3>2, <3>3
    <3> QED
      BY <3>2, <3>3, <3>4 DEF KeepByte
  <2> HIDE DEF S
  <2> QED
    BY <2>1, <2>2, Induction
<1>10. ASSUME NEW n \in 1 .. Len(s)
       PROVE  f[n] = IF IsWs(s[n]) THEN f[n - 1] ELSE Keep[<<f[n - 1], s[n]>>]
  <2>1. n - 1 \in Nat /\ n - 1 <= Len(s) /\ n - 1 \in S
    BY <1>1, <1>9
  <2>2. f[n - 1] \in Seq(Byte) /\ s[n] \in Byte
    BY <1>1, <2>1
  <2> QED
    BY <1>8, <2>2 DEF Keep, KeepByte
<1> QED
  BY <1>8, <1>10 DEF Reads, f

\* Nothing that tells the strings apart is skipped by any of the loop's ways to go on,
\* and strings that come out Equal differ in white space at most.
THEOREM NothingSkipped == Spec => []ConsumedEqual
<1>1. IInv /\ InSync => ConsumedEqual
  <2> SUFFICES ASSUME IInv, InSync PROVE ConsumedEqual
    OBVIOUS
  <2>1. a \in Seq(Byte) /\ b \in Seq(Byte)
    BY Lengths DEF IInv
  <2>2. /\ Stripped(a)[0] = <<>> /\ Reads(Stripped(a), a, Keep)
        /\ Stripped(b)[0] = <<>> /\ Reads(Stripped(b), b, Keep)
    BY <2>1, StrippedReads
  <2>3. ASSUME NEW x, NEW y, ReadAlike(x, y) PROVE Stripped(a)[x] = Stripped(b)[y]
    BY <2>2, <2>3 DEF ReadAlike
  <2> QED
    BY <2>3 DEF InSync, ConsumedEqual, Strip
<1> QED
  BY <1>1, ReadInSync, PTL

-------------------------------------------------------------------------------
(***************************************************************************)
(* The two paths.                                                           *)
(***************************************************************************)

\* The length of the run at p: all digits, and no digit behind it.
LEMMA RunIs ==
  ASSUME NEW s \in Seq(Byte), NEW p \in Nat, p < Len(s), IsDigit(At(s, p))
  PROVE  LET n == DigitEnd(s, p) - p
         IN  /\ n \in Nat \ {0} /\ p + n <= Len(s)
             /\ \A i \in 0 .. n - 1 : DigitAt(s, p + i)
             /\ ~ DigitAt(s, p + n)
<1> DEFINE stops == {k \in 0 .. Len(s) - 1 : ~ IsDigit(At(s, k))}
           f == FirstStop(p, Len(s), stops)
<1>1. Len(s) \in Nat
  OBVIOUS
<1>2. /\ f \in p .. Len(s) /\ (f = Len(s) \/ f \in stops)
      /\ \A i \in p .. Len(s) : i < f => i \notin stops
  <2> HIDE DEF stops
  <2> QED
    BY <1>1, FirstStopIs
<1>3. DigitEnd(s, p) = f
  BY DEF DigitEnd
<1> HIDE DEF f
<1>4. f # p
  BY <1>1, <1>2
<1>5. f - p \in Nat \ {0} /\ p + (f - p) = f /\ f <= Len(s)
  BY <1>1, <1>2, <1>4
<1>6. ASSUME NEW i \in 0 .. (f - p) - 1 PROVE DigitAt(s, p + i)
  <2>1. p + i \in p .. Len(s) /\ p + i < f /\ p + i \in 0 .. Len(s) - 1
    BY <1>1, <1>2
  <2> QED
    BY <1>2, <2>1 DEF DigitAt
<1>7. ~ DigitAt(s, f)
  BY <1>1, <1>2 DEF DigitAt
<1> QED
  BY <1>3, <1>5, <1>6, <1>7

\* The walk in step ends where every walk that knows the same stops ends.
LEMMA WalkEndUnique ==
  ASSUME NEW s, NEW p, NEW t, NEW q, AtDigits(s, p, t, q), NEW stops,
         NEW k \in Nat, p + k <= Len(s), q + k <= Len(t),
         p + k = Len(s) \/ q + k = Len(t) \/ k \in stops,
         \A i \in 0 .. k - 1 : i \notin stops
  PROVE  WalkEnd(s, p, t, q, stops) = k
<1>1. Len(s) \in Nat /\ Len(t) \in Nat /\ p \in Nat /\ q \in Nat /\ p < Len(s) /\ q < Len(t)
  BY DEF AtDigits
<1> DEFINE n == Smaller(Len(s) - p, Len(t) - q)
<1>2. n \in Nat /\ k \in 0 .. n /\ (k = n \/ k \in stops)
  BY <1>1 DEF Smaller
<1>3. \A i \in 0 .. n : i < k => i \notin stops
  BY <1>1
<1> HIDE DEF n
<1>4. k = FirstStop(0, n, stops)
  BY <1>2, <1>3, FirstStopUnique
<1> QED
  BY <1>4 DEF WalkEnd, n

\* The first difference of n bytes.
LEMMA EqualBytesUnique ==
  ASSUME NEW s, NEW p \in Nat, NEW t, NEW q \in Nat, NEW n \in Nat, NEW k \in 0 .. n,
         SameRun(s, p, t, q, k), k # n => At(s, p + k) # At(t, q + k)
  PROVE  EqualBytes(s, p, t, q, n) = k
<1> DEFINE stops == {i \in 0 .. n - 1 : At(s, p + i) # At(t, q + i)}
<1>1. k = n \/ k \in stops
  OBVIOUS
<1>2. \A i \in 0 .. n : i < k => i \notin stops
  BY DEF SameRun
<1> HIDE DEF stops
<1>3. k = FirstStop(0, n, stops)
  BY <1>1, <1>2, FirstStopUnique
<1> QED
  BY <1>3 DEF EqualBytes, stops

LEMMA LeftPathsAgree ==
  ASSUME NEW s, NEW p, NEW t, NEW q, AtDigits(s, p, t, q)
  PROVE  /\ LeftShort(s, p, t, q).order = LeftLong(s, p, t, q).order
         /\ LeftShort(s, p, t, q).order = "Undecided" =>
              /\ LeftShort(s, p, t, q).by = DigitEnd(s, p) - p
              /\ LeftLong(s, p, t, q).by = DigitEnd(s, p) - p
<1> DEFINE ka == DigitEnd(s, p) - p
           kb == DigitEnd(t, q) - q
           n == Smaller(ka, kb)
           k == EqualBytes(s, p, t, q, n)
           stops == {i \in 0 .. Len(s) : ~ BothDigitAt(s, p, t, q, i)
                                           \/ At(s, p + i) # At(t, q + i)}
           da == DigitAt(s, p + k)
           db == DigitAt(t, q + k)
<1>1. /\ Len(s) \in Nat /\ Len(t) \in Nat /\ p \in Nat /\ q \in Nat
      /\ s \in Seq(Byte) /\ t \in Seq(Byte) /\ p < Len(s) /\ q < Len(t)
  BY DEF AtDigits
<1>2. /\ ka \in Nat \ {0} /\ p + ka <= Len(s)
      /\ \A i \in 0 .. ka - 1 : DigitAt(s, p + i)
      /\ ~ DigitAt(s, p + ka)
  BY <1>1, RunIs DEF AtDigits
<1>3. /\ kb \in Nat \ {0} /\ q + kb <= Len(t)
      /\ \A i \in 0 .. kb - 1 : DigitAt(t, q + i)
      /\ ~ DigitAt(t, q + kb)
  BY <1>1, RunIs DEF AtDigits
<1>4. LeftLong(s, p, t, q) =
        [order |-> CASE CompareWords(s, p, t, q, n) # "Undecided" -> CompareWords(s, p, t, q, n)
                     [] CompareWords(s, p, t, q, n) = "Undecided" /\ ka # kb -> Cmp(ka, kb)
                     [] CompareWords(s, p, t, q, n) = "Undecided" /\ ka = kb -> "Undecided",
         by |-> ka]
  BY DEF LeftLong, Outcome
<1>5. CompareWords(s, p, t, q, n)
        = IF k = n THEN "Undecided" ELSE Cmp(At(s, p + k), At(t, q + k))
  BY DEF CompareWords
<1>6. DigitEnd(s, p) - p = ka
  OBVIOUS
<1> HIDE DEF ka, kb
<1>7. n \in Nat /\ n <= ka /\ n <= kb /\ (n = ka \/ n = kb)
  BY <1>2, <1>3 DEF Smaller
<1> HIDE DEF n
<1>8. k \in 0 .. n /\ SameRun(s, p, t, q, k) /\ (k # n => At(s, p + k) # At(t, q + k))
  BY <1>1, <1>7, EqualBytesIs
<1> HIDE DEF k
<1>9. k \in Nat /\ p + k <= Len(s) /\ q + k <= Len(t) /\ k \in 0 .. Len(s)
  BY <1>1, <1>2, <1>3, <1>7, <1>8
<1>10. p + k = Len(s) \/ q + k = Len(t) \/ k \in stops
  BY <1>2, <1>3, <1>7, <1>8, <1>9 DEF BothDigitAt
<1>11. \A i \in 0 .. k - 1 : i \notin stops
  BY <1>1, <1>2, <1>3, <1>7, <1>8 DEF BothDigitAt, SameRun
<1>12. WalkEnd(s, p, t, q, stops) = k
  <2> HIDE DEF stops
  <2> QED
    BY <1>9, <1>10, <1>11, WalkEndUnique
<1>13. LeftShort(s, p, t, q) =
         [order |-> CASE da /\ db -> Cmp(At(s, p + k), At(t, q + k))
                      [] da /\ ~db -> "Greater"
                      [] ~da /\ db -> "Less"
                      [] ~da /\ ~db -> "Undecided", by |-> k]
  <2>1. WalkEnd(s, p, t, q, {i \in 0 .. Len(s) : ~ BothDigitAt(s, p, t, q, i)
                                           \/ At(s, p + i) # At(t, q + i)}) = k
    BY <1>12
  <2> QED
    BY <2>1 DEF LeftShort, Outcome
<1> HIDE DEF stops
<1>14. CASE k # n
  <2>1. k \in 0 .. ka - 1 /\ k \in 0 .. kb - 1
    BY <1>2, <1>3, <1>7, <1>8, <1>14
  <2>2. da /\ db
    BY <1>2, <1>3, <2>1
  <2>3. p + k \in Nat /\ q + k \in Nat /\ p + k < Len(s) /\ q + k < Len(t)
    BY <1>1, <1>2, <1>3, <2>1
  <2>4. At(s, p + k) \in Int /\ At(t, q + k) \in Int /\ At(s, p + k) # At(t, q + k)
    BY <1>1, <1>8, <1>14, <2>3, AtByte
  <2>5. Cmp(At(s, p + k), At(t, q + k)) \in Unequal
    BY <2>4, CmpUnequal
  <2>6. CompareWords(s, p, t, q, n) = Cmp(At(s, p + k), At(t, q + k))
        /\ CompareWords(s, p, t, q, n) # "Undecided"
    BY <1>5, <1>14, <2>5 DEF Unequal
  <2>7. LeftLong(s, p, t, q).order = CompareWords(s, p, t, q, n)
    BY <1>4, <2>6
  <2>8. LeftShort(s, p, t, q).order = Cmp(At(s, p + k), At(t, q + k))
    BY <1>13, <2>2
  <2> QED
    BY <2>5, <2>6, <2>7, <2>8 DEF Unequal
<1>15. CASE k = n /\ ka = kb
  <2>1. ~ da /\ ~ db
    BY <1>2, <1>3, <1>7, <1>15
  <2>2. CompareWords(s, p, t, q, n) = "Undecided"
    BY <1>5, <1>15
  <2>3. LeftLong(s, p, t, q).order = "Undecided" /\ LeftLong(s, p, t, q).by = ka
    BY <1>4, <1>15, <2>2
  <2>4. LeftShort(s, p, t, q).order = "Undecided" /\ LeftShort(s, p, t, q).by = ka
    BY <1>7, <1>13, <1>15, <2>1
  <2> QED
    BY <1>6, <2>3, <2>4
<1>16. CASE k = n /\ ka # kb
  <2>1. CompareWords(s, p, t, q, n) = "Undecided"
    BY <1>5, <1>16
  <2>2. LeftLong(s, p, t, q).order = Cmp(ka, kb)
    BY <1>4, <1>16, <2>1
  <2>3. CASE ka < kb
    <3>1. ~ da /\ db
      BY <1>2, <1>3, <1>7, <1>16, <2>3
    <3>2. LeftShort(s, p, t, q).order = "Less"
      BY <1>13, <3>1
    <3>3. Cmp(ka, kb) = "Less"
      BY <1>2, <1>3, <2>3 DEF Cmp
    <3> QED
      BY <2>2, <3>2, <3>3
  <2>4. CASE ka > kb
    <3>1. da /\ ~ db
      BY <1>2, <1>3, <1>7, <1>16, <2>4
    <3>2. LeftShort(s, p, t, q).order = "Greater"
      BY <1>13, <3>1
    <3>3. Cmp(ka, kb) = "Greater"
      BY <1>2, <1>3, <2>4 DEF Cmp
    <3> QED
      BY <2>2, <3>2, <3>3
  <2> QED
    BY <1>2, <1>3, <1>16, <2>3, <2>4
<1> QED
  BY <1>14, <1>15, <1>16

LEMMA RightPathsAgree ==
  ASSUME NEW s, NEW p, NEW t, NEW q, AtDigits(s, p, t, q)
  PROVE  /\ RightShort(s, p, t, q).order = RightLong(s, p, t, q).order
         /\ RightShort(s, p, t, q).order = "Undecided" =>
              /\ RightShort(s, p, t, q).by = DigitEnd(s, p) - p
              /\ RightLong(s, p, t, q).by = DigitEnd(s, p) - p
<1> DEFINE ka == DigitEnd(s, p) - p
           kb == DigitEnd(t, q) - q
           n == Smaller(ka, kb)
           stops == {i \in 0 .. Len(s) : ~ BothDigitAt(s, p, t, q, i)}
           da == DigitAt(s, p + n)
           db == DigitAt(t, q + n)
<1>1. /\ Len(s) \in Nat /\ Len(t) \in Nat /\ p \in Nat /\ q \in Nat
      /\ s \in Seq(Byte) /\ t \in Seq(Byte) /\ p < Len(s) /\ q < Len(t)
  BY DEF AtDigits
<1>2. /\ ka \in Nat \ {0} /\ p + ka <= Len(s)
      /\ \A i \in 0 .. ka - 1 : DigitAt(s, p + i)
      /\ ~ DigitAt(s, p + ka)
  BY <1>1, RunIs DEF AtDigits
<1>3. /\ kb \in Nat \ {0} /\ q + kb <= Len(t)
      /\ \A i \in 0 .. kb - 1 : DigitAt(t, q + i)
      /\ ~ DigitAt(t, q + kb)
  BY <1>1, RunIs DEF AtDigits
<1>4. RightLong(s, p, t, q) =
        [order |-> IF ka # kb THEN Cmp(ka, kb) ELSE CompareWords(s, p, t, q, ka), by |-> ka]
  BY DEF RightLong, Outcome
<1>5. DigitEnd(s, p) - p = ka
  OBVIOUS
<1> HIDE DEF ka, kb
<1>6. n \in Nat /\ n <= ka /\ n <= kb /\ (n = ka \/ n = kb)
  BY <1>2, <1>3 DEF Smaller
<1> HIDE DEF n
<1>7. n \in Nat /\ p + n <= Len(s) /\ q + n <= Len(t) /\ n \in 0 .. Len(s)
  BY <1>1, <1>2, <1>3, <1>6
<1>8. n \in stops
  BY <1>2, <1>3, <1>6, <1>7 DEF BothDigitAt
<1>9. \A i \in 0 .. n - 1 : i \notin stops
  BY <1>1, <1>2, <1>3, <1>6 DEF BothDigitAt
<1>10. WalkEnd(s, p, t, q, stops) = n
  <2> HIDE DEF stops
  <2> QED
    BY <1>7, <1>8, <1>9, WalkEndUnique
<1>11. RightShort(s, p, t, q) =
         [order |-> CASE da /\ ~db -> "Greater"
                      [] ~da /\ db -> "Less"
                      [] ~da /\ ~db -> CompareWords(s, p, t, q, n), by |-> n]
  <2>1. WalkEnd(s, p, t, q, {i \in 0 .. Len(s) : ~ BothDigitAt(s, p, t, q, i)}) = n
    BY <1>10
  <2> QED
    BY <2>1 DEF RightShort, Outcome
<1> HIDE DEF stops
<1>12. CASE ka = kb
  <2>1. ~ da /\ ~ db /\ n = ka
    BY <1>2, <1>3, <1>6, <1>12
  <2> QED
    BY <1>4, <1>5, <1>11, <1>12, <2>1
<1>13. CASE ka < kb
  <2>1. ~ da /\ db
    BY <1>2, <1>3, <1>6, <1>13
  <2>2. Cmp(ka, kb) = "Less" /\ ka # kb
    BY <1>2, <1>3, <1>13 DEF Cmp
  <2>3. RightShort(s, p, t, q).order = "Less"
    BY <1>11, <2>1
  <2> QED
    BY <1>4, <2>2, <2>3
<1>14. CASE ka > kb
  <2>1. da /\ ~ db
    BY <1>2, <1>3, <1>6, <1>14
  <2>2. Cmp(ka, kb) = "Greater" /\ ka # kb
    BY <1>2, <1>3, <1>14 DEF Cmp
  <2>3. RightShort(s, p, t, q).order = "Greater"
    BY <1>11, <2>1
  <2> QED
    BY <1>4, <2>2, <2>3
<1> QED
  BY <1>2, <1>3, <1>12, <1>13, <1>14

\* Whether the remainders are short or not, two runs compare alike, and runs that
\* compare equal are left at their ends.
THEOREM PathsNeverDisagree == Spec => []PathsAgree
<1>1. IInv => PathsAgree
  <2> SUFFICES ASSUME IInv, InLoop, BothDigits PROVE PathsAgree
    BY DEF PathsAgree
  <2>1. AtDigits(a, pa, b, pb)
    BY Looping DEF IInv
  <2>2. HandleDigits(a, pa, b, pb).order = "Undecided" =>
          HandleDigits(a, pa, b, pb).by = DigitEnd(a, pa) - pa
    BY <2>1, LeftPathsAgree, RightPathsAgree DEF HandleDigits, LeftAligned, RightAligned
  <2> QED
    BY <2>1, <2>2, LeftPathsAgree, RightPathsAgree DEF PathsAgree
<1> QED
  BY <1>1, Invariance, PTL

-------------------------------------------------------------------------------
(***************************************************************************)
(* How much white space there is.  The place of a byte is how many glyphs   *)
(* come before it.  Pointers in sync are at the same place, so between two  *)
(* strings with the same glyphs the loop meets the same bytes on both sides *)
(* and, as a glyph tells whether it goes on with a run, the same runs.      *)
(***************************************************************************)
GlyphKind == Byte \X BOOLEAN

LEMMA GlyphsAre ==
  ASSUME NEW s \in Seq(Byte)
  PROVE  /\ \A n \in 0 .. Len(s) : Glyphs(s)[n] \in Seq(GlyphKind)
         /\ Glyphs(s)[0] = <<>>
         /\ \A n \in 1 .. Len(s) : Glyphs(s)[n] = NextGlyphs(Glyphs(s)[n - 1], s, n)
<1> DEFINE V == Seq(GlyphKind)
           Body(read) == [n \in 0 .. Len(s) |->
                            IF n = 0 THEN <<>> ELSE NextGlyphs(read[n - 1], s, n)]
           next == [x \in V \X (1 .. Len(s)) |-> NextGlyphs(x[1], s, x[2])]
<1>1. Len(s) \in Nat /\ \A n \in 1 .. Len(s) : Glyph(s, n) \in GlyphKind
  <2>1. Len(s) \in Nat /\ \A n \in 1 .. Len(s) : s[n] \in Byte
    OBVIOUS
  <2>2. \A n \in 1 .. Len(s) : (n > 1 /\ IsDigit(s[n - 1]) /\ IsDigit(s[n])) \in BOOLEAN
    BY Zenon
  <2> QED
    BY <2>1, <2>2, Zenon DEF Glyph, GlyphKind
<1>2. ASSUME NEW v \in V, NEW n \in 1 .. Len(s) PROVE NextGlyphs(v, s, n) \in V
  <2>1. Glyph(s, n) \in GlyphKind
    BY <1>1
  <2> HIDE DEF GlyphKind
  <2> QED
    BY <2>1 DEF NextGlyphs
<1>3. <<>> \in V
  OBVIOUS
<1>4. next \in [V \X (1 .. Len(s)) -> V]
  <2> HIDE DEF V
  <2> QED
    BY <1>2
<1>5. ASSUME NEW v \in V, NEW n \in 1 .. Len(s) PROVE next[<<v, n>>] = NextGlyphs(v, s, n)
  <2> HIDE DEF V
  <2> QED
    OBVIOUS
<1> HIDE DEF V, next
<1>6. PICK g : Steps(g, V, <<>>, Len(s), next)
  <2>1. Stepping(V, <<>>, Len(s), next)
    BY <1>1, <1>3, <1>4 DEF Stepping
  <2> QED
    BY <2>1, Recursion
<1>7. /\ g \in [0 .. Len(s) -> V] /\ g[0] = <<>>
      /\ \A n \in 1 .. Len(s) : g[n] = next[<<g[n - 1], n>>]
  BY <1>6 DEF Steps
<1>8. ASSUME NEW n \in 1 .. Len(s) PROVE g[n] = NextGlyphs(g[n - 1], s, n)
  <2>1. n - 1 \in 0 .. Len(s)
    BY <1>1
  <2>2. g[n - 1] \in V
    BY <1>7, <2>1
  <2> QED
    BY <1>5, <1>7, <2>2
<1>9. g = Body(g)
  <2>1. ASSUME NEW n \in 0 .. Len(s) PROVE g[n] = Body(g)[n]
    <3>1. CASE n = 0
      BY <1>7, <3>1
    <3>2. CASE n \in 1 .. Len(s)
      <4>1. g[n] = NextGlyphs(g[n - 1], s, n)
        BY <1>8, <3>2
      <4> QED
        BY <3>2, <4>1
    <3> QED
      BY <1>1, <3>1, <3>2
  <2> QED
    BY <1>7, <2>1
<1>10. Glyphs(s) = CHOOSE read : read = Body(read)
  BY DEF Glyphs
<1>11. Glyphs(s) = Body(Glyphs(s))
  <2> HIDE DEF Body
  <2> QED
    BY <1>9, <1>10
<1> DEFINE f == Glyphs(s)
<1> HIDE DEF f
<1>12. f[0] = <<>>
  BY <1>1, <1>11 DEF f
<1>13. ASSUME NEW n \in 1 .. Len(s) PROVE f[n] = NextGlyphs(f[n - 1], s, n)
  BY <1>1, <1>11 DEF f
<1> DEFINE S == {k \in Nat : k <= Len(s) => f[k] \in V}
<1>14. \A n \in Nat : n \in S
  <2>1. 0 \in S
    BY <1>3, <1>12
  <2>2. ASSUME NEW n \in Nat, n \in S PROVE n + 1 \in S
    <3>1. SUFFICES ASSUME n + 1 <= Len(s) PROVE f[n + 1] \in V
      OBVIOUS
    <3>2. n + 1 \in 1 .. Len(s) /\ (n + 1) - 1 = n /\ f[n] \in V
      BY <1>1, <2>2, <3>1
    <3>3. f[n + 1] = NextGlyphs(f[n], s, n + 1)
      BY <1>13, <3>2
    <3> QED
      BY <1>2, <3>2, <3>3
  <2> HIDE DEF S
  <2> QED
    BY <2>1, <2>2, Induction
<1> QED
  BY <1>1, <1>12, <1>13, <1>14 DEF f, V

\* How many glyphs the first n bytes hold.
GlyphCount(s) == [n \in 0 .. Len(s) |-> Len(Glyphs(s)[n])]

Counting == [x \in Nat \X Byte |-> x[1] + 1]

LEMMA GlyphCountIs ==
  ASSUME NEW s \in Seq(Byte)
  PROVE  /\ GlyphCount(s)[0] = 0 /\ \A n \in 0 .. Len(s) : GlyphCount(s)[n] \in Nat
         /\ \A n \in 1 .. Len(s) :
              GlyphCount(s)[n] = IF IsWs(s[n]) THEN GlyphCount(s)[n - 1] ELSE GlyphCount(s)[n - 1] + 1
         /\ Reads(GlyphCount(s), s, Counting)
<1> DEFINE g == Glyphs(s)
           f == GlyphCount(s)
<1>1. /\ \A n \in 0 .. Len(s) : g[n] \in Seq(GlyphKind)
      /\ g[0] = <<>>
      /\ \A n \in 1 .. Len(s) : g[n] = NextGlyphs(g[n - 1], s, n)
  BY GlyphsAre
<1>2. \A n \in 0 .. Len(s) : f[n] = Len(g[n])
  BY DEF GlyphCount
<1>2a. Len(s) \in Nat /\ \A n \in 1 .. Len(s) : s[n] \in Byte
  OBVIOUS
<1> HIDE DEF g, f
<1>3. \A n \in 0 .. Len(s) : f[n] \in Nat
  <2> SUFFICES ASSUME NEW n \in 0 .. Len(s) PROVE Len(g[n]) \in Nat
    BY <1>2
  <2>1. g[n] \in Seq(GlyphKind)
    BY <1>1
  <2> HIDE DEF GlyphKind
  <2> QED
    BY <2>1
<1>4. f[0] = 0
  <2>1. Len(<<>>) = 0 /\ 0 \in 0 .. Len(s)
    BY <1>2a
  <2> QED
    BY <1>1, <1>2, <2>1
<1>5. ASSUME NEW n \in 1 .. Len(s) PROVE f[n] = IF IsWs(s[n]) THEN f[n - 1] ELSE f[n - 1] + 1
  <2>1. n \in 0 .. Len(s) /\ n - 1 \in 0 .. Len(s)
    BY <1>2a
  <2>2. g[n - 1] \in Seq(GlyphKind) /\ g[n] = NextGlyphs(g[n - 1], s, n)
    BY <1>1, <2>1
  <2>3. Len(Append(g[n - 1], Glyph(s, n))) = Len(g[n - 1]) + 1
    <3> HIDE DEF GlyphKind
    <3> QED
      BY <2>2
  <2> QED
    BY <1>2, <2>1, <2>2, <2>3 DEF NextGlyphs
<1>6. ASSUME NEW n \in 1 .. Len(s)
      PROVE  f[n] = IF IsWs(s[n]) THEN f[n - 1] ELSE Counting[<<f[n - 1], s[n]>>]
  <2>1. n - 1 \in 0 .. Len(s)
    BY <1>2a
  <2>2. f[n - 1] \in Nat /\ s[n] \in Byte
    BY <1>2a, <1>3, <2>1
  <2>3. Counting[<<f[n - 1], s[n]>>] = f[n - 1] + 1
    BY <2>2 DEF Counting
  <2> QED
    BY <1>5, <2>3
<1> QED
  BY <1>3, <1>4, <1>5, <1>6 DEF Reads, f

\* A byte that is no white space stands at its place among all glyphs.
LEMMA GlyphPlaced ==
  ASSUME NEW s \in Seq(Byte), NEW n \in 1 .. Len(s), ~ IsWs(s[n])
  PROVE  /\ GlyphCount(s)[n] = GlyphCount(s)[n - 1] + 1
         /\ GlyphCount(s)[n - 1] < GlyphCount(s)[Len(s)]
         /\ Glyphs(s)[Len(s)][GlyphCount(s)[n - 1] + 1] = Glyph(s, n)
<1> DEFINE g == Glyphs(s)
           x == Len(g[n - 1])
           S == {k \in Nat : n + k <= Len(s) => x < Len(g[n + k]) /\ g[n + k][x + 1] = Glyph(s, n)}
<1>1. /\ \A k \in 0 .. Len(s) : g[k] \in Seq(GlyphKind)
      /\ \A k \in 1 .. Len(s) : g[k] = NextGlyphs(g[k - 1], s, k)
  BY GlyphsAre
<1>2. Len(s) \in Nat /\ n - 1 \in 0 .. Len(s) /\ n \in 0 .. Len(s) /\ n \in Nat
  OBVIOUS
<1>3. GlyphCount(s)[n - 1] = x /\ GlyphCount(s)[Len(s)] = Len(g[Len(s)])
  BY <1>2 DEF GlyphCount
<1> HIDE DEF g, GlyphKind
<1>4. g[n - 1] \in Seq(GlyphKind)
  BY <1>1, <1>2
<1>5. x \in Nat
  BY <1>4
<1>6. g[n] = Append(g[n - 1], Glyph(s, n))
  BY <1>1 DEF NextGlyphs
<1>7. Len(g[n]) = x + 1 /\ g[n][x + 1] = Glyph(s, n)
  BY <1>4, <1>6
<1> HIDE DEF x
<1>8. 0 \in S
  BY <1>2, <1>5, <1>7
<1>9. ASSUME NEW k \in Nat, k \in S PROVE k + 1 \in S
  <2>1. SUFFICES ASSUME n + (k + 1) <= Len(s)
                 PROVE  x < Len(g[n + (k + 1)]) /\ g[n + (k + 1)][x + 1] = Glyph(s, n)
    OBVIOUS
  <2>2. x < Len(g[n + k]) /\ g[n + k][x + 1] = Glyph(s, n)
    BY <1>2, <1>9, <2>1
  <2>3. n + k \in 0 .. Len(s) /\ n + (k + 1) \in 1 .. Len(s) /\ (n + (k + 1)) - 1 = n + k
    BY <1>2, <2>1
  <2>4. g[n + k] \in Seq(GlyphKind)
    BY <1>1, <2>3
  <2>5. g[n + (k + 1)] = NextGlyphs(g[n + k], s, n + (k + 1))
    BY <1>1, <2>3
  <2> DEFINE h == g[n + k]
             c == Glyph(s, n + (k + 1))
  <2>6. h \in Seq(GlyphKind) /\ x < Len(h) /\ h[x + 1] = Glyph(s, n)
    BY <2>2, <2>4
  <2> HIDE DEF h, c
  <2>7. Len(h) \in Nat
    BY <2>6
  <2>8. x < Len(Append(h, c)) /\ Append(h, c)[x + 1] = h[x + 1]
    BY <1>5, <2>6, <2>7
  <2>9. g[n + (k + 1)] = h \/ g[n + (k + 1)] = Append(h, c)
    BY <2>5 DEF NextGlyphs, h, c
  <2> QED
    BY <2>6, <2>8, <2>9
<1>10. Len(s) - n \in Nat /\ n + (Len(s) - n) = Len(s)
  BY <1>2
<1>11. Len(s) - n \in S
  <2> HIDE DEF S
  <2> QED
    BY <1>8, <1>9, <1>10, Induction
<1>12. x < Len(g[Len(s)]) /\ g[Len(s)][x + 1] = Glyph(s, n)
  BY <1>10, <1>11
<1> QED
  BY <1>3, <1>12, GlyphCountIs DEF g

LEMMA WsRunIs ==
  ASSUME NEW s \in Seq(Byte), NEW p \in 0 .. Len(s)
  PROVE  /\ WsEnd(s, p) \in p .. Len(s)
         /\ \A k \in p .. WsEnd(s, p) - 1 : IsWs(At(s, k))
         /\ WsEnd(s, p) < Len(s) => ~ IsWs(At(s, WsEnd(s, p)))
<1> DEFINE stops == {k \in 0 .. Len(s) - 1 : ~ IsWs(At(s, k))}
           f == FirstStop(p, Len(s), stops)
<1>1. Len(s) \in Nat /\ p \in Nat
  OBVIOUS
<1>2. /\ f \in p .. Len(s) /\ (f = Len(s) \/ f \in stops)
      /\ \A k \in p .. Len(s) : k < f => k \notin stops
  <2> HIDE DEF stops
  <2> QED
    BY <1>1, FirstStopIs
<1>3. WsEnd(s, p) = f
  BY DEF WsEnd
<1> HIDE DEF f
<1>4. ASSUME NEW k \in p .. f - 1 PROVE IsWs(At(s, k))
  <2>1. k \in p .. Len(s) /\ k < f /\ k \in 0 .. Len(s) - 1
    BY <1>1, <1>2
  <2> QED
    BY <1>2, <2>1
<1> QED
  BY <1>1, <1>2, <1>3, <1>4

\* The next glyph behind p, which is right at p or behind white space.
LEMMA NextGlyphIs ==
  ASSUME NEW s \in Seq(Byte), NEW p \in 0 .. Len(s),
         \/ GlyphCount(s)[p] < GlyphCount(s)[Len(s)]
         \/ Trimmed(s) /\ p < Len(s)
  PROVE  \E e \in p .. Len(s) - 1 :
           /\ ~ IsWs(s[e + 1])
           /\ e > p => IsWs(s[e])
           /\ GlyphCount(s)[p] < GlyphCount(s)[Len(s)]
           /\ Glyphs(s)[Len(s)][GlyphCount(s)[p] + 1] = Glyph(s, e + 1)
<1> DEFINE e == WsEnd(s, p)
<1>1. Len(s) \in Nat /\ p \in Nat /\ p <= Len(s)
  OBVIOUS
<1>2. /\ e \in p .. Len(s)
      /\ \A k \in p .. e - 1 : IsWs(At(s, k))
      /\ e < Len(s) => ~ IsWs(At(s, e))
  BY WsRunIs
<1>3. GlyphCount(s)[e] = GlyphCount(s)[p]
  BY GlyphCountIs, ReadWs
<1> HIDE DEF e
<1>4. e \in Nat
  BY <1>1, <1>2
<1>5. e > p => IsWs(s[e])
  <2> SUFFICES ASSUME e > p PROVE IsWs(s[e])
    OBVIOUS
  <2>1. e - 1 \in p .. e - 1 /\ (e - 1) + 1 = e
    BY <1>1, <1>4
  <2>2. IsWs(s[(e - 1) + 1])
    BY <1>2, <2>1 DEF At
  <2> QED
    BY <2>1, <2>2
<1>6. e # Len(s)
  <2> SUFFICES ASSUME e = Len(s) PROVE FALSE
    OBVIOUS
  <2>1. GlyphCount(s)[p] = GlyphCount(s)[Len(s)] /\ GlyphCount(s)[p] \in Nat
    BY <1>3, GlyphCountIs
  <2>2. Trimmed(s) /\ p < Len(s)
    BY <2>1
  <2>3. s # <<>> /\ IsWs(s[Len(s)])
    BY <1>1, <1>5, <2>2
  <2> QED
    BY <2>2, <2>3 DEF Trimmed, NotWs
<1>7. e \in p .. Len(s) - 1 /\ e + 1 \in 1 .. Len(s) /\ (e + 1) - 1 = e
  BY <1>1, <1>2, <1>4, <1>6
<1>8. ~ IsWs(s[e + 1])
  BY <1>2, <1>7 DEF At
<1>9. /\ GlyphCount(s)[e] < GlyphCount(s)[Len(s)]
      /\ Glyphs(s)[Len(s)][GlyphCount(s)[e] + 1] = Glyph(s, e + 1)
  BY <1>7, <1>8, GlyphPlaced
<1> QED
  BY <1>3, <1>5, <1>7, <1>8, <1>9

\* Two strings that differ in how much white space there is, and p and q at the same
\* place in them.
SamePlace(s, p, t, q) ==
  /\ s \in Seq(Byte) /\ t \in Seq(Byte) /\ p \in 0 .. Len(s) /\ q \in 0 .. Len(t)
  /\ Glyphs(s)[Len(s)] = Glyphs(t)[Len(t)]
  /\ GlyphCount(s)[Len(s)] = GlyphCount(t)[Len(t)]
  /\ GlyphCount(s)[p] = GlyphCount(t)[q]

\* Bytes met at the same place are equal, and the next ones are at the same place.
AtGlyphs(s, p, t, q) ==
  /\ SamePlace(s, p, t, q)
  /\ p < Len(s) /\ ~ IsWs(At(s, p))
  /\ q < Len(t) /\ ~ IsWs(At(t, q))

LEMMA SameByte ==
  ASSUME NEW s, NEW p, NEW t, NEW q, AtGlyphs(s, p, t, q)
  PROVE  At(s, p) = At(t, q) /\ SamePlace(s, p + 1, t, q + 1)
<1>1. /\ Len(s) \in Nat /\ Len(t) \in Nat /\ p \in Nat /\ q \in Nat
      /\ s \in Seq(Byte) /\ t \in Seq(Byte) /\ p < Len(s) /\ q < Len(t)
      /\ ~ IsWs(s[p + 1]) /\ ~ IsWs(t[q + 1])
  BY DEF AtGlyphs, SamePlace, At
<1>2. /\ p + 1 \in 1 .. Len(s) /\ (p + 1) - 1 = p /\ p + 1 \in 0 .. Len(s)
      /\ q + 1 \in 1 .. Len(t) /\ (q + 1) - 1 = q /\ q + 1 \in 0 .. Len(t)
  BY <1>1
<1>3. /\ GlyphCount(s)[p + 1] = GlyphCount(s)[p] + 1
      /\ Glyphs(s)[Len(s)][GlyphCount(s)[p] + 1] = Glyph(s, p + 1)
  BY <1>1, <1>2, GlyphPlaced
<1>4. /\ GlyphCount(t)[q + 1] = GlyphCount(t)[q] + 1
      /\ Glyphs(t)[Len(t)][GlyphCount(t)[q] + 1] = Glyph(t, q + 1)
  BY <1>1, <1>2, GlyphPlaced
<1>5. Glyph(s, p + 1) = Glyph(t, q + 1)
  BY <1>3, <1>4 DEF AtGlyphs, SamePlace
<1>6. s[p + 1] = t[q + 1]
  BY <1>5 DEF Glyph
<1> QED
  BY <1>2, <1>3, <1>4, <1>6 DEF AtGlyphs, SamePlace, At

LEMMA DigitIsNoWs ==
  ASSUME NEW c, IsDigit(c)
  PROVE  ~ IsWs(c)
BY DEF IsDigit, IsWs

LEMMA SecondOfPair ==
  ASSUME NEW x, NEW y, NEW u, NEW v, <<x, u>> = <<y, v>>
  PROVE  u = v
OBVIOUS

\* A run of digits goes on at the same place in the other string: white space before
\* its next digit would show.
LEMMA RunGoesOn ==
  ASSUME NEW s, NEW p, NEW t, NEW q, SamePlace(s, p, t, q), p > 0,
         DigitAt(s, p - 1), DigitAt(s, p)
  PROVE  DigitAt(t, q)
<1>1. /\ Len(s) \in Nat /\ Len(t) \in Nat /\ p \in Nat /\ q \in 0 .. Len(t) /\ q \in Nat
      /\ s \in Seq(Byte) /\ t \in Seq(Byte)
  BY DEF SamePlace
<1>2. /\ p + 1 \in 1 .. Len(s) /\ (p + 1) - 1 = p /\ (p - 1) + 1 = p /\ p + 1 > 1
  BY <1>1 DEF DigitAt
<1>3. IsDigit(s[p]) /\ IsDigit(s[p + 1])
  BY <1>2 DEF DigitAt, At
<1>4. /\ GlyphCount(s)[p] < GlyphCount(s)[Len(s)]
      /\ Glyphs(s)[Len(s)][GlyphCount(s)[p] + 1] = Glyph(s, p + 1)
  BY <1>1, <1>2, <1>3, DigitIsNoWs, GlyphPlaced
<1>5. GlyphCount(t)[q] < GlyphCount(t)[Len(t)]
  BY <1>4 DEF SamePlace
<1>6. PICK e \in q .. Len(t) - 1 :
        /\ e > q => IsWs(t[e])
        /\ Glyphs(t)[Len(t)][GlyphCount(t)[q] + 1] = Glyph(t, e + 1)
  BY <1>1, <1>5, NextGlyphIs
<1>7. Glyph(s, p + 1) = Glyph(t, e + 1)
  BY <1>4, <1>6 DEF SamePlace
<1>8. e \in Nat /\ (e + 1) - 1 = e /\ e >= q /\ e < Len(t)
  BY <1>1, <1>6
<1>9. IsDigit(t[e]) /\ IsDigit(t[e + 1])
  <2>1. Glyph(s, p + 1) = <<s[p + 1], TRUE>>
    BY <1>2, <1>3 DEF Glyph
  <2> DEFINE goesOn == e + 1 > 1 /\ IsDigit(t[e]) /\ IsDigit(t[e + 1])
  <2>2. Glyph(t, e + 1) = <<t[e + 1], goesOn>>
    BY <1>8 DEF Glyph
  <2> HIDE DEF goesOn
  <2>3. <<s[p + 1], TRUE>> = <<t[e + 1], goesOn>>
    BY <1>7, <2>1, <2>2, Zenon
  <2>4. TRUE = goesOn
    BY <2>3, SecondOfPair, Zenon
  <2> QED
    BY <2>4 DEF goesOn
<1>10. e = q
  BY <1>1, <1>6, <1>8, <1>9, DigitIsNoWs
<1> QED
  BY <1>8, <1>9, <1>10 DEF DigitAt, At

LEMMA RunInOther ==
  ASSUME NEW s, NEW p, NEW t, NEW q, SamePlace(s, p, t, q), AtDigits(s, p, t, q)
  PROVE  \A i \in 0 .. (DigitEnd(s, p) - p) - 1 :
           DigitAt(t, q + i) /\ At(s, p + i) = At(t, q + i)
<1> DEFINE n == DigitEnd(s, p) - p
           S == {i \in Nat : i < n => /\ DigitAt(t, q + i) /\ At(s, p + i) = At(t, q + i)
                                      /\ SamePlace(s, p + i, t, q + i)}
<1>1. /\ Len(s) \in Nat /\ Len(t) \in Nat /\ p \in Nat /\ q \in Nat /\ p < Len(s) /\ q < Len(t)
      /\ s \in Seq(Byte) /\ IsDigit(At(s, p)) /\ IsDigit(At(t, q))
  BY DEF AtDigits
<1>2. /\ n \in Nat /\ p + n <= Len(s)
      /\ \A i \in 0 .. n - 1 : DigitAt(s, p + i)
  BY <1>1, RunIs
<1> HIDE DEF n
<1>3. 0 \in S
  <2>1. AtGlyphs(s, p, t, q)
    BY <1>1, DigitIsNoWs DEF AtGlyphs
  <2>2. At(s, p) = At(t, q)
    BY <2>1, SameByte
  <2> QED
    BY <1>1, <2>2 DEF DigitAt
<1>4. ASSUME NEW i \in Nat, i \in S PROVE i + 1 \in S
  <2>1. SUFFICES ASSUME i + 1 < n
                 PROVE  /\ DigitAt(t, q + (i + 1)) /\ At(s, p + (i + 1)) = At(t, q + (i + 1))
                        /\ SamePlace(s, p + (i + 1), t, q + (i + 1))
    OBVIOUS
  <2> DEFINE x == p + i
             y == q + i
  <2>2. /\ x \in Nat /\ y \in Nat /\ p + (i + 1) = x + 1 /\ q + (i + 1) = y + 1
        /\ (x + 1) - 1 = x
    BY <1>1
  <2>3. DigitAt(s, x) /\ DigitAt(t, y) /\ SamePlace(s, x, t, y)
    BY <1>2, <1>4, <2>1
  <2>4. DigitAt(s, x + 1)
    <3>1. i + 1 \in 0 .. n - 1
      BY <1>2, <2>1
    <3> QED
      BY <1>2, <2>2, <3>1
  <2> HIDE DEF x, y
  <2>5. AtGlyphs(s, x, t, y)
    BY <2>3, DigitIsNoWs DEF AtGlyphs, DigitAt
  <2>6. SamePlace(s, x + 1, t, y + 1)
    BY <2>5, SameByte
  <2>7. DigitAt(t, y + 1)
    BY <2>2, <2>3, <2>4, <2>6, RunGoesOn
  <2>8. AtGlyphs(s, x + 1, t, y + 1)
    BY <2>4, <2>6, <2>7, DigitIsNoWs DEF AtGlyphs, DigitAt
  <2>9. At(s, x + 1) = At(t, y + 1)
    BY <2>8, SameByte
  <2> QED
    BY <2>2, <2>6, <2>7, <2>9
<1>5. \A i \in Nat : i \in S
  <2> HIDE DEF S
  <2> QED
    BY <1>3, <1>4, Induction
<1>6. ASSUME NEW i \in 0 .. n - 1 PROVE DigitAt(t, q + i) /\ At(s, p + i) = At(t, q + i)
  <2>1. i \in Nat /\ i < n
    BY <1>2
  <2>2. i \in S
    BY <1>5, <2>1
  <2> QED
    BY <2>1, <2>2
<1> QED
  BY <1>6 DEF n

\* Runs at the same place are equal, and compare so on every path.
LEMMA SameRunsUndecided ==
  ASSUME NEW s, NEW p, NEW t, NEW q, SamePlace(s, p, t, q), AtDigits(s, p, t, q)
  PROVE  HandleDigits(s, p, t, q).order = "Undecided"
<1> DEFINE n == DigitEnd(s, p) - p
           m == DigitEnd(t, q) - q
<1>1. /\ p \in Nat /\ q \in Nat /\ s \in Seq(Byte) /\ t \in Seq(Byte)
      /\ p < Len(s) /\ q < Len(t) /\ IsDigit(At(s, p)) /\ IsDigit(At(t, q))
  BY DEF AtDigits
<1>2. n \in Nat /\ ~ DigitAt(s, p + n)
  BY <1>1, RunIs
<1>3. m \in Nat /\ ~ DigitAt(t, q + m)
  BY <1>1, RunIs
<1>4. \A i \in 0 .. n - 1 : DigitAt(t, q + i) /\ At(s, p + i) = At(t, q + i)
  BY RunInOther
<1>5. \A i \in 0 .. m - 1 : DigitAt(s, p + i)
  <2>1. SamePlace(t, q, s, p) /\ AtDigits(t, q, s, p)
    BY DEF SamePlace, AtDigits
  <2> QED
    BY <2>1, RunInOther
<1>6. LeftLong(s, p, t, q) =
        LET head == CompareWords(s, p, t, q, Smaller(n, m))
        IN  [order |-> CASE head # "Undecided" -> head
                         [] head = "Undecided" /\ n # m -> Cmp(n, m)
                         [] head = "Undecided" /\ n = m -> "Undecided", by |-> n]
  BY DEF LeftLong, Outcome
<1>7. RightLong(s, p, t, q) =
        [order |-> IF n # m THEN Cmp(n, m) ELSE CompareWords(s, p, t, q, n), by |-> n]
  BY DEF RightLong, Outcome
<1> HIDE DEF n, m
<1>8. n = m
  <2>1. ~ (n < m)
    BY <1>2, <1>3, <1>5
  <2>2. ~ (m < n)
    BY <1>2, <1>3, <1>4
  <2> QED
    BY <1>2, <1>3, <2>1, <2>2
<1>9. SameRun(s, p, t, q, n)
  BY <1>4 DEF SameRun
<1>10. EqualBytes(s, p, t, q, n) = n
  <2>1. n \in 0 .. n
    BY <1>2
  <2> QED
    BY <1>1, <1>2, <1>9, <2>1, EqualBytesUnique
<1>11. CompareWords(s, p, t, q, n) = "Undecided"
  BY <1>10 DEF CompareWords
<1>12. Smaller(n, m) = n
  BY <1>2, <1>8 DEF Smaller
<1>13. LeftLong(s, p, t, q).order = "Undecided"
  BY <1>6, <1>8, <1>11, <1>12
<1>14. RightLong(s, p, t, q).order = "Undecided"
  BY <1>7, <1>8, <1>11
<1>15. /\ LeftShort(s, p, t, q).order = "Undecided"
       /\ RightShort(s, p, t, q).order = "Undecided"
  BY <1>13, <1>14, LeftPathsAgree, RightPathsAgree
<1> QED
  BY <1>13, <1>14, <1>15 DEF HandleDigits, LeftAligned, RightAligned

SameGlyphs == Trimmed(a) /\ Trimmed(b) /\ Glyphs(a)[Len(a)] = Glyphs(b)[Len(b)]

\* In the loop, the pointers are at the same place of such strings.
LEMMA LoopSamePlace ==
  ASSUME IInv, InSync, SameGlyphs, pc = "loop"
  PROVE  SamePlace(a, pa, b, pb)
<1>1. /\ a \in Seq(Byte) /\ b \in Seq(Byte) /\ Len(a) \in Nat /\ Len(b) \in Nat
      /\ pa \in 0 .. Len(a) /\ pb \in 0 .. Len(b)
  BY Lengths DEF IInv
<1>2. GlyphCount(a)[Len(a)] = GlyphCount(b)[Len(b)]
  BY <1>1 DEF GlyphCount, SameGlyphs
<1>3. /\ Reads(GlyphCount(a), a, Counting) /\ GlyphCount(a)[0] = 0
      /\ Reads(GlyphCount(b), b, Counting) /\ GlyphCount(b)[0] = 0
  BY <1>1, GlyphCountIs
<1>4. GlyphCount(a)[pa] = GlyphCount(b)[pb]
  BY <1>3 DEF InSync, ReadAlike
<1> QED
  BY <1>1, <1>2, <1>4 DEF SamePlace, SameGlyphs

SpacingInv == SameGlyphs => res \in {"Undecided", "Equal"}

LEMMA SpacingInductive == IInv /\ InSync /\ SpacingInv /\ [Next]_vars => SpacingInv'
<1> SUFFICES ASSUME IInv, InSync, SpacingInv, [Next]_vars PROVE SpacingInv'
  OBVIOUS
<1>1. a' = a /\ b' = b
  BY DEF Next, Step, Iterate, Idle, SamePointer, New, End, DigitsSettle, DigitsContinue,
         SkipWs, Boundary, Mismatch, Advance, Settle, Consume, vars
<1> SUFFICES ASSUME SameGlyphs PROVE res' \in {"Undecided", "Equal"}
  BY <1>1 DEF SpacingInv, SameGlyphs
<1>2. TypeOK /\ res \in {"Undecided", "Equal"}
  BY DEF IInv, SpacingInv
<1>3. /\ Len(a) \in Nat /\ Len(b) \in Nat /\ a \in Seq(Byte) /\ b \in Seq(Byte)
      /\ pa \in 0 .. Len(a) /\ pb \in 0 .. Len(b)
  BY <1>2, Lengths
<1>4. pc = "loop" => SamePlace(a, pa, b, pb)
  BY LoopSamePlace
<1>5. CASE End
  <2>1. pc = "loop" /\ AtEnd /\ res' = Cmp(Len(a) - pa, Len(b) - pb)
    BY <1>5 DEF End, Settle
  <2>2. /\ GlyphCount(a)[Len(a)] = GlyphCount(b)[Len(b)]
        /\ GlyphCount(a)[pa] = GlyphCount(b)[pb]
    BY <1>4, <2>1 DEF SamePlace
  <2>3. GlyphCount(a)[Len(a)] \in Nat
    BY <1>3, GlyphCountIs
  <2>4. pb < Len(b) => GlyphCount(b)[pb] < GlyphCount(b)[Len(b)]
    BY <1>3, NextGlyphIs DEF SameGlyphs
  <2>5. pa < Len(a) => GlyphCount(a)[pa] < GlyphCount(a)[Len(a)]
    BY <1>3, NextGlyphIs DEF SameGlyphs
  <2>6. pa = Len(a) /\ pb = Len(b)
    BY <1>3, <2>1, <2>2, <2>3, <2>4, <2>5 DEF AtEnd
  <2>7. Len(a) - pa = 0 /\ Len(b) - pb = 0
    BY <1>3, <2>6
  <2> QED
    BY <2>1, <2>7, CmpIs
<1>6. ~ DigitsSettle
  <2> SUFFICES ASSUME DigitsSettle PROVE FALSE
    OBVIOUS
  <2>1. /\ InLoop /\ BothDigits /\ pc = "loop"
        /\ HandleDigits(a, pa, b, pb).order # "Undecided"
    BY DEF DigitsSettle, InLoop
  <2>2. AtDigits(a, pa, b, pb)
    BY <1>2, <2>1, Looping
  <2> QED
    BY <1>4, <2>1, <2>2, SameRunsUndecided
<1>7. ~ Differ
  <2> SUFFICES ASSUME Differ PROVE FALSE
    OBVIOUS
  <2>1. InLoop /\ pc = "loop" /\ ca # cb /\ ~ IsWs(ca) /\ ~ IsWs(cb)
    BY DEF Differ, InLoop
  <2>2. pa < Len(a) /\ pb < Len(b)
    BY <1>2, <2>1, Looping
  <2>3. AtGlyphs(a, pa, b, pb)
    BY <1>4, <2>1, <2>2 DEF AtGlyphs, ca, cb
  <2> QED
    BY <2>1, <2>3, SameByte DEF ca, cb
<1>8. CASE SamePointer
  BY <1>8 DEF SamePointer, Settle
<1>9. CASE New \/ DigitsContinue \/ SkipWs \/ Advance
  BY <1>2, <1>9 DEF New, DigitsContinue, SkipWs, Advance, Consume
<1>10. CASE UNCHANGED vars
  BY <1>2, <1>10 DEF vars
<1> QED
  BY <1>5, <1>6, <1>7, <1>8, <1>9, <1>10 DEF Next, Step, Iterate, Idle, Boundary, Mismatch

\* Strings that differ in the amount of white space only, and not between two digits or
\* at the end, are never told apart, wherever the prefix skip leaves the pointers and
\* whatever the look-backs find there.
THEOREM SpacingNeverDecides == Spec => []SpacingIgnored
<1>1. Init => SpacingInv
  BY DEF Init, SpacingInv
<1>2. SpacingInv => SpacingIgnored
  BY DEF SpacingInv, SameGlyphs, SpacingIgnored
<1> QED
  BY <1>1, <1>2, ReadInSync, SpacingInductive, PTL DEF Spec

-------------------------------------------------------------------------------
(***************************************************************************)
(* The arguments exchanged.  What is said of two runs of digits is reversed *)
(* when the runs are exchanged; the common prefix is the same.              *)
(***************************************************************************)
Exchanged(o, r) ==
  /\ r.order = Reversed(o.order)
  /\ o.order = "Undecided" => r.by = o.by

LEMMA CompareWordsExchanged ==
  ASSUME NEW s \in Seq(Byte), NEW p \in Nat, NEW t \in Seq(Byte), NEW q \in Nat, NEW n \in Nat,
         p + n <= Len(s), q + n <= Len(t)
  PROVE  CompareWords(t, q, s, p, n) = Reversed(CompareWords(s, p, t, q, n))
<1> DEFINE k == EqualBytes(s, p, t, q, n)
<1>1. k \in 0 .. n /\ SameRun(s, p, t, q, k) /\ (k # n => At(s, p + k) # At(t, q + k))
  BY EqualBytesIs
<1>2. CompareWords(s, p, t, q, n)
        = IF k = n THEN "Undecided" ELSE Cmp(At(s, p + k), At(t, q + k))
  BY DEF CompareWords
<1> HIDE DEF k
<1>3. SameRun(t, q, s, p, k) /\ (k # n => At(t, q + k) # At(s, p + k))
  BY <1>1 DEF SameRun
<1>4. EqualBytes(t, q, s, p, n) = k
  BY <1>1, <1>3, EqualBytesUnique
<1>5. CompareWords(t, q, s, p, n)
        = IF k = n THEN "Undecided" ELSE Cmp(At(t, q + k), At(s, p + k))
  BY <1>4 DEF CompareWords
<1>6. CASE k = n
  BY <1>2, <1>5, <1>6, ReversedIs
<1>7. CASE k # n
  <2>1. p + k \in Nat /\ q + k \in Nat /\ p + k < Len(s) /\ q + k < Len(t)
    BY <1>1, <1>7
  <2>2. At(s, p + k) \in Int /\ At(t, q + k) \in Int
    BY <2>1, AtByte
  <2> QED
    BY <1>2, <1>5, <1>7, <2>2, CmpReversed
<1> QED
  BY <1>6, <1>7

\* The long paths, from which the short ones follow as the paths agree.
LEMMA LongExchanged ==
  ASSUME NEW s, NEW p, NEW t, NEW q, AtDigits(s, p, t, q)
  PROVE  /\ Exchanged(LeftLong(s, p, t, q), LeftLong(t, q, s, p))
         /\ Exchanged(RightLong(s, p, t, q), RightLong(t, q, s, p))
<1> DEFINE ka == DigitEnd(s, p) - p
           kb == DigitEnd(t, q) - q
           n == Smaller(ka, kb)
           m == Smaller(kb, ka)
           head == CompareWords(s, p, t, q, n)
           daeh == CompareWords(t, q, s, p, n)
<1>1. /\ p \in Nat /\ q \in Nat /\ s \in Seq(Byte) /\ t \in Seq(Byte)
      /\ Len(s) \in Nat /\ Len(t) \in Nat
  BY DEF AtDigits
<1>2. /\ ka \in Nat \ {0} /\ p + ka <= Len(s)
      /\ kb \in Nat \ {0} /\ q + kb <= Len(t)
  BY <1>1, DigitEndIs DEF AtDigits
<1>3. LeftLong(s, p, t, q) =
        [order |-> CASE head # "Undecided" -> head
                     [] head = "Undecided" /\ ka # kb -> Cmp(ka, kb)
                     [] head = "Undecided" /\ ka = kb -> "Undecided", by |-> ka]
  BY DEF LeftLong, Outcome
<1>4. m = n
  BY <1>2 DEF Smaller
<1>5. LeftLong(t, q, s, p) =
        [order |-> CASE daeh # "Undecided" -> daeh
                     [] daeh = "Undecided" /\ kb # ka -> Cmp(kb, ka)
                     [] daeh = "Undecided" /\ kb = ka -> "Undecided", by |-> kb]
  <2>1. CompareWords(t, q, s, p, m) = daeh
    BY <1>4
  <2> QED
    BY <2>1 DEF LeftLong, Outcome
<1>6. RightLong(s, p, t, q) =
        [order |-> IF ka # kb THEN Cmp(ka, kb) ELSE CompareWords(s, p, t, q, ka), by |-> ka]
  BY DEF RightLong, Outcome
<1>7. RightLong(t, q, s, p) =
        [order |-> IF kb # ka THEN Cmp(kb, ka) ELSE CompareWords(t, q, s, p, kb), by |-> kb]
  BY DEF RightLong, Outcome
<1> HIDE DEF ka, kb
<1>8. n \in Nat /\ n <= ka /\ n <= kb
  BY <1>2 DEF Smaller
<1> HIDE DEF n, m
<1>9. p + n <= Len(s) /\ q + n <= Len(t)
  BY <1>1, <1>2, <1>8
<1>10. daeh = Reversed(head) /\ head \in Unequal \union {"Undecided"}
  BY <1>1, <1>8, <1>9, CompareWordsExchanged, CompareWordsIs
<1> HIDE DEF head, daeh
<1>11. daeh = "Undecided" <=> head = "Undecided"
  BY <1>10, ReversedIs DEF Unequal
<1>12. Cmp(kb, ka) = Reversed(Cmp(ka, kb)) /\ (ka # kb => Cmp(ka, kb) \in Unequal)
  BY <1>2, CmpReversed, CmpUnequal
<1>13. Exchanged(LeftLong(s, p, t, q), LeftLong(t, q, s, p))
  <2>1. CASE head # "Undecided"
    <3>1. LeftLong(s, p, t, q).order = head
      BY <1>3, <2>1
    <3>2. LeftLong(t, q, s, p).order = daeh
      BY <1>5, <1>11, <2>1
    <3> QED
      BY <1>10, <2>1, <3>1, <3>2 DEF Exchanged
  <2>2. CASE head = "Undecided" /\ ka # kb
    <3>1. LeftLong(s, p, t, q).order = Cmp(ka, kb)
      BY <1>3, <2>2
    <3>2. LeftLong(t, q, s, p).order = Cmp(kb, ka)
      BY <1>5, <1>11, <2>2
    <3> QED
      BY <1>12, <2>2, <3>1, <3>2 DEF Exchanged, Unequal
  <2>3. CASE head = "Undecided" /\ ka = kb
    <3>1. LeftLong(s, p, t, q).order = "Undecided" /\ LeftLong(s, p, t, q).by = ka
      BY <1>3, <2>3
    <3>2. LeftLong(t, q, s, p).order = "Undecided" /\ LeftLong(t, q, s, p).by = kb
      BY <1>5, <1>11, <2>3
    <3> QED
      BY <2>3, <3>1, <3>2, ReversedIs DEF Exchanged
  <2> QED
    BY <2>1, <2>2, <2>3
<1>14. Exchanged(RightLong(s, p, t, q), RightLong(t, q, s, p))
  <2>1. CASE ka # kb
    BY <1>6, <1>7, <1>12, <2>1 DEF Exchanged, Unequal
  <2>2. CASE ka = kb
    <3>1. CompareWords(t, q, s, p, ka) = Reversed(CompareWords(s, p, t, q, ka))
      BY <1>1, <1>2, <2>2, CompareWordsExchanged
    <3> QED
      BY <1>6, <1>7, <2>2, <3>1 DEF Exchanged
  <2> QED
    BY <2>1, <2>2
<1> QED
  BY <1>13, <1>14

\* A zero on either side, and the room that is left, do not depend on the side.
LEMMA HandleDigitsExchanged ==
  ASSUME NEW s, NEW p, NEW t, NEW q, AtDigits(s, p, t, q)
  PROVE  Exchanged(HandleDigits(s, p, t, q), HandleDigits(t, q, s, p))
<1>1. AtDigits(t, q, s, p)
  BY DEF AtDigits
<1>2. Short(s, p, t, q) <=> Short(t, q, s, p)
  BY DEF Short
<1>3. /\ Exchanged(LeftLong(s, p, t, q), LeftLong(t, q, s, p))
      /\ Exchanged(RightLong(s, p, t, q), RightLong(t, q, s, p))
  BY LongExchanged
<1>4. Exchanged(LeftShort(s, p, t, q), LeftShort(t, q, s, p))
  <2>1. LeftShort(t, q, s, p).order = Reversed(LeftShort(s, p, t, q).order)
    BY <1>1, <1>3, LeftPathsAgree DEF Exchanged
  <2>2. ASSUME LeftShort(s, p, t, q).order = "Undecided"
        PROVE  LeftShort(t, q, s, p).by = LeftShort(s, p, t, q).by
    <3>1. LeftShort(t, q, s, p).order = "Undecided"
      BY <2>1, <2>2, ReversedIs
    <3>2. /\ LeftShort(s, p, t, q).by = LeftLong(s, p, t, q).by
          /\ LeftLong(s, p, t, q).order = "Undecided"
      BY <2>2, LeftPathsAgree
    <3>3. LeftShort(t, q, s, p).by = LeftLong(t, q, s, p).by
      BY <1>1, <3>1, LeftPathsAgree
    <3> QED
      BY <1>3, <3>2, <3>3 DEF Exchanged
  <2> QED
    BY <2>1, <2>2 DEF Exchanged
<1>5. Exchanged(RightShort(s, p, t, q), RightShort(t, q, s, p))
  <2>1. RightShort(t, q, s, p).order = Reversed(RightShort(s, p, t, q).order)
    BY <1>1, <1>3, RightPathsAgree DEF Exchanged
  <2>2. ASSUME RightShort(s, p, t, q).order = "Undecided"
        PROVE  RightShort(t, q, s, p).by = RightShort(s, p, t, q).by
    <3>1. RightShort(t, q, s, p).order = "Undecided"
      BY <2>1, <2>2, ReversedIs
    <3>2. /\ RightShort(s, p, t, q).by = RightLong(s, p, t, q).by
          /\ RightLong(s, p, t, q).order = "Undecided"
      BY <2>2, RightPathsAgree
    <3>3. RightShort(t, q, s, p).by = RightLong(t, q, s, p).by
      BY <1>1, <3>1, RightPathsAgree
    <3> QED
      BY <1>3, <3>2, <3>3 DEF Exchanged
  <2> QED
    BY <2>1, <2>2 DEF Exchanged
<1>6. Exchanged(LeftAligned(s, p, t, q), LeftAligned(t, q, s, p))
  BY <1>2, <1>3, <1>4 DEF LeftAligned
<1>7. Exchanged(RightAligned(s, p, t, q), RightAligned(t, q, s, p))
  BY <1>2, <1>3, <1>5 DEF RightAligned
<1> QED
  BY <1>6, <1>7 DEF HandleDigits

\* The common prefix is as long from either side.
LEMMA StartExchanged ==
  ASSUME NEW s \in Seq(Byte), NEW t \in Seq(Byte)
  PROVE  Start(t, s) = Start(s, t)
<1> DEFINE n == Smaller(Len(s), Len(t))
           k == EqualBytes(s, 0, t, 0, n)
<1>1. n \in Nat /\ Smaller(Len(t), Len(s)) = n
  BY DEF Smaller
<1>2. SkipEqual(s, t) = k
  BY DEF SkipEqual
<1>3. SkipEqual(t, s) = EqualBytes(t, 0, s, 0, n)
  BY <1>1 DEF SkipEqual
<1> HIDE DEF n
<1>4. k \in 0 .. n /\ SameRun(s, 0, t, 0, k) /\ (k # n => At(s, 0 + k) # At(t, 0 + k))
  BY <1>1, EqualBytesIs
<1> HIDE DEF k
<1>5. SameRun(t, 0, s, 0, k) /\ (k # n => At(t, 0 + k) # At(s, 0 + k))
  BY <1>4 DEF SameRun
<1>6. EqualBytes(t, 0, s, 0, n) = k
  BY <1>1, <1>4, <1>5, EqualBytesUnique
<1>7. MidRun(t, s, k) <=> MidRun(s, t, k)
  BY <1>1 DEF MidRun, n
<1> QED
  BY <1>2, <1>3, <1>6, <1>7 DEF Start
==============================================================================

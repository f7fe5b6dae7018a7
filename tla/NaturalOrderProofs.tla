-------------------------- MODULE NaturalOrderProofs --------------------------
(***************************************************************************)
(* On plain strings of any length `compare` is the natural order: the loop, *)
(* which never computes a number, orders two strings as comparing their     *)
(* numbers by value does.  What has been read of both strings is the same   *)
(* list of tokens (InSync), and whatever settles the comparison settles it  *)
(* at the token under way or at the one that comes next.                    *)
(***************************************************************************)
EXTENDS NaturalOrder, NatCompareProofs

-------------------------------------------------------------------------------
(***************************************************************************)
(* Reading one byte.                                                        *)
(***************************************************************************)
TokenType == [first : Byte, value : Nat]

Last(tokens) == tokens[Len(tokens)]

Value(c) == IF IsDigit(c) THEN c - Zero ELSE 0

\* A digit read while a number is under way.
LEMMA ReadDigitOn ==
  ASSUME NEW u \in Seq(TokenType), NEW c \in Byte, IsDigit(c), InNumber(u)
  PROVE  LET v == ReadByte(u, c)
         IN  /\ v \in Seq(TokenType) /\ Len(v) = Len(u) /\ Len(u) \in Nat \ {0}
             /\ \A i \in 1 .. Len(u) - 1 : v[i] = u[i]
             /\ Last(v) = [first |-> Last(u).first, value |-> 10 * Last(u).value + (c - Zero)]
<1>1. ~ IsWs(c) /\ c - Zero \in Nat
  BY DEF IsDigit, IsWs, Zero, Byte
<1>2. u # <<>> /\ Len(u) \in Nat \ {0} /\ Len(u) \in 1 .. Len(u)
  BY DEF InNumber
<1>3. Last(u) \in TokenType
  BY <1>2 DEF Last
<1> DEFINE w == [first |-> Last(u).first, value |-> 10 * Last(u).value + (c - Zero)]
<1>4. w \in TokenType /\ Longer(Last(u), c) = w
  BY <1>1, <1>3 DEF TokenType, Longer
<1>5. ReadByte(u, c) = [u EXCEPT ![Len(u)] = w]
  BY <1>1, <1>4 DEF ReadByte, Last
<1> HIDE DEF w
<1>6. [u EXCEPT ![Len(u)] = w] \in Seq(TokenType) /\ Len([u EXCEPT ![Len(u)] = w]) = Len(u)
  BY <1>2, <1>4
<1>7. [u EXCEPT ![Len(u)] = w][Len(u)] = w
  BY <1>2
<1>8. \A i \in 1 .. Len(u) - 1 : [u EXCEPT ![Len(u)] = w][i] = u[i]
  BY <1>2
<1> QED
  BY <1>2, <1>5, <1>6, <1>7, <1>8 DEF Last, w

\* Any other byte that is no white space.
LEMMA ReadNext ==
  ASSUME NEW u \in Seq(TokenType), NEW c \in Byte, ~ IsWs(c), ~ (IsDigit(c) /\ InNumber(u))
  PROVE  LET v == ReadByte(u, c)
         IN  /\ v \in Seq(TokenType) /\ Len(v) = Len(u) + 1 /\ Len(u) \in Nat
             /\ \A i \in 1 .. Len(u) : v[i] = u[i]
             /\ Last(v) = [first |-> c, value |-> Value(c)]
<1>1. Token(c) = [first |-> c, value |-> Value(c)] /\ Token(c) \in TokenType
  BY DEF Token, Value, TokenType, IsDigit, Zero, Byte
<1>2. ReadByte(u, c) = Append(u, Token(c))
  BY DEF ReadByte
<1> QED
  BY <1>1, <1>2 DEF Last

LEMMA ReadSpace ==
  ASSUME NEW u, NEW c, IsWs(c)
  PROVE  ReadByte(u, c) = u
BY DEF ReadByte

LEMMA ReadByteType ==
  ASSUME NEW u \in Seq(TokenType), NEW c \in Byte
  PROVE  ReadByte(u, c) \in Seq(TokenType)
BY ReadDigitOn, ReadNext, ReadSpace

-------------------------------------------------------------------------------
(***************************************************************************)
(* Reading a string.                                                        *)
(***************************************************************************)
Take == [x \in Seq(TokenType) \X Byte |-> ReadByte(x[1], x[2])]

LEMMA ReadingIs ==
  ASSUME NEW s \in Seq(Byte)
  PROVE  /\ Reading(s) \in [0 .. Len(s) -> Seq(TokenType)]
         /\ Reading(s)[0] = <<>>
         /\ \A n \in 1 .. Len(s) : Reading(s)[n] = ReadByte(Reading(s)[n - 1], s[n])
<1> DEFINE Body(read) == [n \in 0 .. Len(s) |->
                            IF n = 0 THEN <<>> ELSE ReadByte(read[n - 1], s[n])]
<1>1. Len(s) \in Nat /\ \A n \in 1 .. Len(s) : s[n] \in Byte
  OBVIOUS
<1>2. Reader(Seq(TokenType), <<>>, Take)
  BY ReadByteType DEF Reader, Take
<1>3. PICK g : /\ g \in [0 .. Len(s) -> Seq(TokenType)] /\ g[0] = <<>>
               /\ Reads(g, s, Take)
  BY <1>2, ReadingExists
<1>4. ASSUME NEW n \in 1 .. Len(s) PROVE g[n] = ReadByte(g[n - 1], s[n])
  <2>1. g[n - 1] \in Seq(TokenType) /\ s[n] \in Byte
    BY <1>1, <1>3
  <2>2. Take[<<g[n - 1], s[n]>>] = ReadByte(g[n - 1], s[n])
    BY <2>1 DEF Take
  <2>3. g[n] = IF IsWs(s[n]) THEN g[n - 1] ELSE Take[<<g[n - 1], s[n]>>]
    BY <1>3 DEF Reads
  <2> QED
    BY <2>2, <2>3, ReadSpace
<1>5. g = Body(g)
  <2>1. ASSUME NEW n \in 0 .. Len(s) PROVE g[n] = Body(g)[n]
    <3>1. CASE n = 0
      BY <1>3, <3>1
    <3>2. CASE n \in 1 .. Len(s)
      BY <1>4, <3>2
    <3> QED
      BY <1>1, <3>1, <3>2
  <2> QED
    BY <1>3, <2>1
<1>6. Reading(s) = CHOOSE read : read = Body(read)
  BY DEF Reading
<1>7. Reading(s) = Body(Reading(s))
  <2> HIDE DEF Body
  <2> QED
    BY <1>5, <1>6
<1> DEFINE f == Reading(s)
<1> HIDE DEF f
<1>8. f[0] = <<>> /\ \A n \in 1 .. Len(s) : f[n] = ReadByte(f[n - 1], s[n])
  BY <1>1, <1>7 DEF f
<1> DEFINE S == {k \in Nat : k <= Len(s) => f[k] \in Seq(TokenType)}
<1>9. \A n \in Nat : n \in S
  <2>1. 0 \in S
    <3>1. <<>> \in Seq(TokenType)
      OBVIOUS
    <3> QED
      BY <1>8, <3>1
  <2>2. ASSUME NEW n \in Nat, n \in S PROVE n + 1 \in S
    <3>1. SUFFICES ASSUME n + 1 <= Len(s) PROVE f[n + 1] \in Seq(TokenType)
      OBVIOUS
    <3>2. n + 1 \in 1 .. Len(s) /\ (n + 1) - 1 = n /\ f[n] \in Seq(TokenType)
      BY <1>1, <2>2, <3>1
    <3>3. s[n + 1] \in Byte /\ f[n + 1] = ReadByte(f[n], s[n + 1])
      BY <1>1, <1>8, <3>2
    <3> QED
      BY <3>2, <3>3, ReadByteType
  <2> HIDE DEF S
  <2> QED
    BY <2>1, <2>2, Induction
<1>10. \A n \in 0 .. Len(s) : f[n] \in Seq(TokenType)
  BY <1>1, <1>9
<1>11. f \in [0 .. Len(s) -> Seq(TokenType)]
  <2> DEFINE e(n) == IF n = 0 THEN <<>> ELSE ReadByte(f[n - 1], s[n])
  <2>1. f = [n \in 0 .. Len(s) |-> e(n)]
    BY <1>7 DEF f
  <2> HIDE DEF e
  <2> QED
    BY <1>10, <2>1
<1> QED
  BY <1>8, <1>11 DEF f

\* One byte more, counted as the pointers count.
LEMMA ReadAt ==
  ASSUME NEW s \in Seq(Byte), NEW k \in Nat, k < Len(s)
  PROVE  /\ Reading(s)[k] \in Seq(TokenType) /\ Reading(s)[k + 1] \in Seq(TokenType)
         /\ Reading(s)[k + 1] = ReadByte(Reading(s)[k], At(s, k))
         /\ At(s, k) \in Byte
<1>1. Len(s) \in Nat /\ k + 1 \in 1 .. Len(s) /\ k \in 0 .. Len(s) /\ (k + 1) - 1 = k
  OBVIOUS
<1>2. k + 1 \in 0 .. Len(s)
  BY <1>1
<1> QED
  BY <1>1, <1>2, ReadingIs, AtByte DEF At

LEMMA ReadType ==
  ASSUME NEW s \in Seq(Byte), NEW k \in 0 .. Len(s)
  PROVE  Reading(s)[k] \in Seq(TokenType)
BY ReadingIs

\* The tokens of u are still there in v, but that the number u ends in may have grown.
Kept(u, v) ==
  /\ u \in Seq(TokenType) /\ v \in Seq(TokenType)
  /\ Len(u) <= Len(v)
  /\ \A i \in 1 .. Len(u) : /\ v[i].first = u[i].first
                            /\ i < Len(u) \/ ~ InNumber(u) => v[i] = u[i]

LEMMA KeptTransitive ==
  ASSUME NEW u, NEW v, NEW w, Kept(u, v), Kept(v, w)
  PROVE  Kept(u, w)
<1>1. /\ u \in Seq(TokenType) /\ v \in Seq(TokenType) /\ w \in Seq(TokenType)
      /\ Len(u) \in Nat /\ Len(v) \in Nat /\ Len(w) \in Nat
      /\ Len(u) <= Len(v) /\ Len(v) <= Len(w)
  BY DEF Kept
<1>2. ASSUME NEW i \in 1 .. Len(u)
      PROVE  /\ w[i].first = u[i].first
             /\ i < Len(u) \/ ~ InNumber(u) => w[i] = u[i]
  <2>1. i \in 1 .. Len(v)
    BY <1>1
  <2>2. w[i].first = u[i].first
    BY <2>1 DEF Kept
  <2>3. ASSUME i < Len(u) \/ ~ InNumber(u) PROVE w[i] = u[i]
    <3>1. v[i] = u[i]
      BY <2>3 DEF Kept
    <3>2. CASE i < Len(v)
      BY <2>1, <3>1, <3>2 DEF Kept
    <3>3. CASE i = Len(v)
      <4>1. i = Len(u) /\ ~ InNumber(u)
        BY <1>1, <2>3, <3>3
      <4>2. u # <<>> /\ v # <<>>
        BY <1>1, <2>1
      <4>3. ~ InNumber(v)
        BY <3>1, <3>3, <4>1, <4>2 DEF InNumber
      <4> QED
        BY <2>1, <3>1, <4>3 DEF Kept
    <3> QED
      BY <1>1, <2>1, <3>2, <3>3
  <2> QED
    BY <2>2, <2>3
<1> QED
  BY <1>1, <1>2 DEF Kept

LEMMA ReadByteKeeps ==
  ASSUME NEW u \in Seq(TokenType), NEW c \in Byte
  PROVE  Kept(u, ReadByte(u, c))
<1>1. Len(u) \in Nat
  OBVIOUS
<1>2. CASE IsWs(c)
  BY <1>2, ReadSpace DEF Kept
<1>3. CASE IsDigit(c) /\ InNumber(u)
  <2> DEFINE v == ReadByte(u, c)
  <2>1. /\ v \in Seq(TokenType) /\ Len(v) = Len(u)
        /\ \A i \in 1 .. Len(u) - 1 : v[i] = u[i]
        /\ Last(v) = [first |-> Last(u).first, value |-> 10 * Last(u).value + (c - Zero)]
    BY <1>3, ReadDigitOn
  <2> HIDE DEF v
  <2>2. v[Len(u)].first = u[Len(u)].first
    BY <2>1 DEF Last
  <2> QED
    BY <1>1, <1>3, <2>1, <2>2 DEF Kept, v
<1>4. CASE ~ IsWs(c) /\ ~ (IsDigit(c) /\ InNumber(u))
  <2> DEFINE v == ReadByte(u, c)
  <2>1. v \in Seq(TokenType) /\ Len(v) = Len(u) + 1 /\ \A i \in 1 .. Len(u) : v[i] = u[i]
    BY <1>4, ReadNext
  <2> HIDE DEF v
  <2> QED
    BY <1>1, <2>1 DEF Kept, v
<1> QED
  BY <1>2, <1>3, <1>4

\* Reading on keeps what has been read.
LEMMA Later ==
  ASSUME NEW s \in Seq(Byte), NEW k \in Nat, NEW n \in Nat, k <= n, n <= Len(s)
  PROVE  Kept(Reading(s)[k], Reading(s)[n])
<1> DEFINE S == {i \in Nat : k + i <= Len(s) => Kept(Reading(s)[k], Reading(s)[k + i])}
<1>1. Len(s) \in Nat
  OBVIOUS
<1>2. 0 \in S
  <2>1. Reading(s)[k] \in Seq(TokenType) /\ k + 0 = k
    BY <1>1, ReadType
  <2> QED
    BY <2>1 DEF Kept
<1>3. ASSUME NEW i \in Nat, i \in S PROVE i + 1 \in S
  <2>1. SUFFICES ASSUME k + (i + 1) <= Len(s)
                 PROVE  Kept(Reading(s)[k], Reading(s)[k + (i + 1)])
    OBVIOUS
  <2>2. Kept(Reading(s)[k], Reading(s)[k + i])
    BY <1>1, <1>3, <2>1
  <2>3. k + i \in Nat /\ k + i < Len(s) /\ k + (i + 1) = (k + i) + 1
    BY <1>1, <2>1
  <2>4. Kept(Reading(s)[k + i], Reading(s)[(k + i) + 1])
    BY <2>3, ReadAt, ReadByteKeeps
  <2> QED
    BY <2>2, <2>3, <2>4, KeptTransitive
<1>4. n - k \in Nat /\ k + (n - k) = n /\ n - k \in S
  <2> HIDE DEF S
  <2> QED
    BY <1>2, <1>3, Induction
<1> QED
  BY <1>4

-------------------------------------------------------------------------------
(***************************************************************************)
(* Reading a plain string.                                                  *)
(***************************************************************************)
DigitBefore(s, k) == k > 0 /\ IsDigit(At(s, k - 1))

\* Plain, counted as the pointers count.
LEMMA PlainIs ==
  ASSUME NEW s \in Seq(Byte), Plain(s), NEW k \in Nat, k < Len(s)
  PROVE  /\ IsWs(At(s, k)) => ~ DigitBefore(s, k) /\ k + 1 < Len(s)
         /\ At(s, k) = Zero /\ DigitAt(s, k + 1) => DigitBefore(s, k)
<1>1. Len(s) \in Nat
  OBVIOUS
<1>2. ASSUME k > 0 PROVE IsWs(At(s, k)) => ~ IsDigit(At(s, k - 1))
  <2>1. k \in 1 .. Len(s) - 1 /\ (k - 1) + 1 = k
    BY <1>1, <1>2
  <2> QED
    BY <2>1 DEF Plain, At
<1>3. ASSUME k + 1 = Len(s) PROVE ~ IsWs(At(s, k))
  <2>1. s # <<>>
    BY <1>3
  <2> QED
    BY <1>3, <2>1 DEF Plain, At
<1>4. ASSUME At(s, k) = Zero, DigitAt(s, k + 1) PROVE DigitBefore(s, k)
  <2>1. k + 1 < Len(s) /\ k + 1 \in 1 .. Len(s) - 1 /\ IsDigit(s[(k + 1) + 1]) /\ s[k + 1] = Zero
    BY <1>1, <1>4 DEF DigitAt, At
  <2>2. k + 1 > 1 /\ IsDigit(s[(k + 1) - 1])
    BY <2>1 DEF Plain
  <2>3. (k - 1) + 1 = k /\ (k + 1) - 1 = k /\ k > 0
    BY <2>2
  <2> QED
    BY <2>2, <2>3 DEF DigitBefore, At
<1> QED
  BY <1>1, <1>2, <1>3, <1>4 DEF DigitBefore

\* A number is under way exactly behind a digit: white space cannot come between.
LEMMA NumberUnderWay ==
  ASSUME NEW s \in Seq(Byte), Plain(s), NEW k \in 0 .. Len(s)
  PROVE  InNumber(Reading(s)[k]) <=> DigitBefore(s, k)
<1> DEFINE S == {i \in Nat : i <= Len(s) => (InNumber(Reading(s)[i]) <=> DigitBefore(s, i))}
<1>1. Len(s) \in Nat
  OBVIOUS
<1>2. 0 \in S
  BY ReadingIs DEF InNumber, DigitBefore
<1>3. ASSUME NEW i \in Nat, i \in S PROVE i + 1 \in S
  <2>1. SUFFICES ASSUME i + 1 <= Len(s)
                 PROVE  InNumber(Reading(s)[i + 1]) <=> DigitBefore(s, i + 1)
    OBVIOUS
  <2>2. i < Len(s) /\ i <= Len(s)
    BY <1>1, <2>1
  <2>3. InNumber(Reading(s)[i]) <=> DigitBefore(s, i)
    BY <1>3, <2>2
  <2> DEFINE c == At(s, i)
             u == Reading(s)[i]
             v == Reading(s)[i + 1]
  <2>4. c \in Byte /\ u \in Seq(TokenType) /\ v \in Seq(TokenType) /\ v = ReadByte(u, c)
    BY <2>2, ReadAt
  <2>5. DigitBefore(s, i + 1) <=> IsDigit(c)
    BY DEF DigitBefore
  <2>6. IsWs(c) => ~ DigitBefore(s, i)
    BY <2>2, PlainIs
  <2> HIDE DEF c, u, v
  <2>7. InNumber(v) <=> IsDigit(c)
    <3>1. CASE IsWs(c)
      <4>1. v = u /\ ~ IsDigit(c)
        BY <2>4, <3>1, ReadSpace DEF IsWs, IsDigit
      <4> QED
        BY <2>3, <2>6, <3>1, <4>1 DEF u
    <3>2. CASE IsDigit(c) /\ InNumber(u)
      <4>1. Len(v) = Len(u) /\ Len(u) \in Nat \ {0} /\ Last(v).first = Last(u).first
        BY <2>4, <3>2, ReadDigitOn
      <4>2. v # <<>>
        BY <4>1, <2>4
      <4> QED
        BY <3>2, <4>1, <4>2 DEF InNumber, Last
    <3>3. CASE ~ IsWs(c) /\ ~ (IsDigit(c) /\ InNumber(u))
      <4>1. Len(v) = Len(u) + 1 /\ Len(u) \in Nat /\ Last(v).first = c
        BY <2>4, <3>3, ReadNext
      <4>2. v # <<>>
        BY <4>1, <2>4
      <4> QED
        BY <3>3, <4>1, <4>2 DEF InNumber, Last
    <3> QED
      BY <3>1, <3>2, <3>3
  <2> QED
    BY <2>5, <2>7 DEF v
<1>4. k \in S
  <2> HIDE DEF S
  <2> QED
    BY <1>2, <1>3, Induction
<1> QED
  BY <1>1, <1>4

\* The value of the number under way, and the place of the token that is under way
\* or comes next.
Val(u) == IF InNumber(u) THEN Last(u).value ELSE 0

Place(u) == IF InNumber(u) THEN Len(u) ELSE Len(u) + 1

\* What a digit does to them.
LEMMA ReadDigit ==
  ASSUME NEW u \in Seq(TokenType), NEW c \in Byte, IsDigit(c)
  PROVE  LET v == ReadByte(u, c)
         IN  /\ InNumber(v) /\ v \in Seq(TokenType)
             /\ Place(v) = Place(u) /\ Len(v) = Place(u)
             /\ Val(v) = 10 * Val(u) + (c - Zero)
             /\ Val(u) \in Nat /\ Val(v) \in Nat
<1> DEFINE v == ReadByte(u, c)
<1>1. ~ IsWs(c) /\ c - Zero \in Nat /\ Value(c) = c - Zero
  BY DEF IsDigit, IsWs, Zero, Byte, Value
<1>2. CASE InNumber(u)
  <2>1. /\ v \in Seq(TokenType) /\ Len(v) = Len(u) /\ Len(u) \in Nat \ {0}
        /\ Last(v) = [first |-> Last(u).first, value |-> 10 * Last(u).value + (c - Zero)]
    BY <1>2, ReadDigitOn
  <2>2. Last(u) \in TokenType
    BY <2>1 DEF Last
  <2> HIDE DEF v
  <2>3. v # <<>> /\ Last(v).first = Last(u).first /\ Last(v).value = 10 * Last(u).value + (c - Zero)
    BY <2>1
  <2>4. InNumber(v)
    BY <1>2, <2>1, <2>3 DEF InNumber, Last
  <2>5. Last(u).value \in Nat
    BY <2>2 DEF TokenType
  <2> QED
    BY <1>1, <1>2, <2>1, <2>3, <2>4, <2>5 DEF Val, Place, v
<1>3. CASE ~ InNumber(u)
  <2>1. /\ v \in Seq(TokenType) /\ Len(v) = Len(u) + 1 /\ Len(u) \in Nat
        /\ Last(v) = [first |-> c, value |-> Value(c)]
    BY <1>1, <1>3, ReadNext
  <2> HIDE DEF v
  <2>2. v # <<>> /\ Last(v).first = c /\ Last(v).value = c - Zero
    BY <1>1, <2>1
  <2>3. InNumber(v)
    BY <2>2 DEF InNumber, Last
  <2> QED
    BY <1>1, <1>3, <2>1, <2>2, <2>3 DEF Val, Place, v
<1> QED
  BY <1>2, <1>3

\* On a plain string a number that goes on has a value above zero.
LEMMA Positive ==
  ASSUME NEW s \in Seq(Byte), Plain(s), NEW k \in Nat, DigitAt(s, k), DigitBefore(s, k)
  PROVE  Val(Reading(s)[k]) >= 1
<1> DEFINE S == {i \in Nat : i <= Len(s) /\ DigitBefore(s, i) =>
                    \/ Val(Reading(s)[i]) >= 1
                    \/ At(s, i - 1) = Zero /\ ~ DigitBefore(s, i - 1)}
<1>1. Len(s) \in Nat /\ k < Len(s)
  BY DEF DigitAt
<1>2. 0 \in S
  BY DEF DigitBefore
<1>3. ASSUME NEW i \in Nat, i \in S PROVE i + 1 \in S
  <2>1. SUFFICES ASSUME i + 1 <= Len(s), DigitBefore(s, i + 1)
                 PROVE  \/ Val(Reading(s)[i + 1]) >= 1
                        \/ At(s, i) = Zero /\ ~ DigitBefore(s, i)
    <3>1. (i + 1) - 1 = i
      OBVIOUS
    <3> QED
      BY <3>1
  <2>2. i < Len(s) /\ i <= Len(s) /\ (i + 1) - 1 = i
    BY <1>1, <2>1
  <2>3. IsDigit(At(s, i)) /\ DigitAt(s, i)
    BY <2>1, <2>2 DEF DigitBefore, DigitAt
  <2>4. /\ Val(Reading(s)[i + 1]) = 10 * Val(Reading(s)[i]) + (At(s, i) - Zero)
        /\ Val(Reading(s)[i]) \in Nat /\ At(s, i) \in Byte
    BY <2>2, <2>3, ReadAt, ReadDigit
  <2>5. At(s, i) \in Nat /\ At(s, i) >= Zero
    BY <2>3, <2>4 DEF IsDigit, Zero, Byte
  <2>6. CASE At(s, i) # Zero
    BY <2>4, <2>5, <2>6 DEF Zero
  <2>7. CASE At(s, i) = Zero /\ DigitBefore(s, i)
    <3>1. i > 0 /\ i - 1 \in Nat /\ i - 1 < Len(s) /\ (i - 1) + 1 = i
      BY <2>2, <2>7 DEF DigitBefore
    <3>2. ~ (At(s, i - 1) = Zero /\ ~ DigitBefore(s, i - 1))
      BY <2>3, <3>1, PlainIs
    <3>3. Val(Reading(s)[i]) >= 1
      BY <1>3, <2>2, <2>7, <3>2
    <3> QED
      BY <2>4, <2>5, <3>3 DEF Zero
  <2> QED
    BY <2>6, <2>7
<1>4. k \in S
  <2> HIDE DEF S
  <2> QED
    BY <1>2, <1>3, Induction
<1>5. k > 0 /\ k - 1 \in Nat /\ k - 1 < Len(s) /\ (k - 1) + 1 = k
  BY <1>1 DEF DigitBefore
<1>6. ~ (At(s, k - 1) = Zero /\ ~ DigitBefore(s, k - 1))
  BY <1>5, PlainIs
<1> QED
  BY <1>1, <1>4, <1>6

-------------------------------------------------------------------------------
(***************************************************************************)
(* What the tokens of the whole string have of what is read so far.         *)
(***************************************************************************)
\* The tokens begin with those of u.
Begins(u, tokens) ==
  /\ u \in Seq(TokenType) /\ tokens \in Seq(TokenType)
  /\ Len(u) <= Len(tokens)
  /\ \A i \in 1 .. Len(u) : tokens[i] = u[i]

\* A byte that begins a token.
LEMMA TokenBegins ==
  ASSUME NEW s \in Seq(Byte), NEW k \in Nat, k < Len(s), ~ IsWs(At(s, k)),
         ~ (IsDigit(At(s, k)) /\ InNumber(Reading(s)[k]))
  PROVE  /\ Begins(Reading(s)[k], Tokens(s))
         /\ Len(Reading(s)[k]) < Len(Tokens(s))
         /\ Tokens(s)[Len(Reading(s)[k]) + 1].first = At(s, k)
<1> DEFINE u == Reading(s)[k]
           v == Reading(s)[k + 1]
           w == Reading(s)[Len(s)]
           c == At(s, k)
<1>1. Len(s) \in Nat /\ k + 1 \in Nat /\ k + 1 <= Len(s)
  OBVIOUS
<1>2. u \in Seq(TokenType) /\ v \in Seq(TokenType) /\ v = ReadByte(u, c) /\ c \in Byte
  BY ReadAt
<1>3. Kept(v, w)
  BY <1>1, Later
<1> HIDE DEF u, v, w
<1>4. /\ Len(v) = Len(u) + 1 /\ Len(u) \in Nat /\ \A i \in 1 .. Len(u) : v[i] = u[i]
      /\ Last(v) = [first |-> c, value |-> Value(c)]
  BY <1>2, ReadNext DEF u
<1>5. v[Len(u) + 1].first = c
  BY <1>4 DEF Last
<1>6. /\ w \in Seq(TokenType) /\ Len(v) <= Len(w) /\ Len(w) \in Nat
      /\ \A i \in 1 .. Len(v) : /\ w[i].first = v[i].first
                                /\ i < Len(v) => w[i] = v[i]
  BY <1>3 DEF Kept
<1>7. Begins(u, w)
  BY <1>2, <1>4, <1>6 DEF Begins
<1>8. Len(u) < Len(w) /\ w[Len(u) + 1].first = c
  BY <1>4, <1>5, <1>6
<1> QED
  BY <1>7, <1>8 DEF u, w, Tokens

\* A number that no digit follows is finished: in a plain string the next byte is not
\* white space either.
LEMMA NumberEnds ==
  ASSUME NEW s \in Seq(Byte), Plain(s), NEW k \in 0 .. Len(s),
         InNumber(Reading(s)[k]), ~ DigitAt(s, k)
  PROVE  Begins(Reading(s)[k], Tokens(s))
<1>1. Len(s) \in Nat /\ k \in Nat
  OBVIOUS
<1>2. CASE k = Len(s)
  BY <1>2, ReadType DEF Begins, Tokens
<1>3. CASE k < Len(s)
  <2>1. DigitBefore(s, k)
    BY NumberUnderWay
  <2>2. ~ IsWs(At(s, k)) /\ ~ IsDigit(At(s, k))
    BY <1>1, <1>3, <2>1, PlainIs DEF DigitAt
  <2> QED
    BY <1>1, <1>3, <2>2, TokenBegins
<1> QED
  BY <1>1, <1>2, <1>3

\* A plain string does not end in white space, so a rest of it holds a token: a new
\* one if no digit goes on with the number under way.
LEMMA MoreTokens ==
  ASSUME NEW s \in Seq(Byte), Plain(s), NEW k \in Nat, k < Len(s),
         ~ (DigitAt(s, k) /\ InNumber(Reading(s)[k]))
  PROVE  /\ Begins(Reading(s)[k], Tokens(s))
         /\ Len(Reading(s)[k]) < Len(Tokens(s))
<1>1. Len(s) \in Nat
  OBVIOUS
<1>2. CASE ~ IsWs(At(s, k))
  BY <1>2, TokenBegins DEF DigitAt
<1>3. CASE IsWs(At(s, k))
  <2> DEFINE u == Reading(s)[k]
             m == Len(s) - 1
             v == Reading(s)[m]
             w == Reading(s)[Len(s)]
             c == At(s, m)
  <2>1. ~ DigitBefore(s, k) /\ k + 1 < Len(s)
    BY <1>1, <1>3, PlainIs
  <2>2. ~ InNumber(u)
    BY <1>1, <2>1, NumberUnderWay
  <2>3. m \in Nat /\ k <= m /\ m < Len(s) /\ m + 1 = Len(s)
    BY <1>1, <2>1
  <2>4. ~ IsWs(c)
    BY <2>3, PlainIs
  <2>5. Kept(u, v)
    BY <1>1, <2>3, Later
  <2>6. v \in Seq(TokenType) /\ w \in Seq(TokenType) /\ w = ReadByte(v, c) /\ c \in Byte
    BY <2>3, ReadAt
  <2> HIDE DEF u, v, w, c, m
  <2>7. /\ u \in Seq(TokenType) /\ Len(u) <= Len(v) /\ Len(u) \in Nat /\ Len(v) \in Nat
        /\ \A i \in 1 .. Len(u) : v[i] = u[i]
    BY <2>2, <2>5 DEF Kept
  <2>8. CASE IsDigit(c) /\ InNumber(v)
    <3>1. Len(u) # Len(v)
      <4>1. ASSUME Len(u) = Len(v) PROVE InNumber(u)
        <5>1. v # <<>> /\ Len(v) \in 1 .. Len(u)
          BY <2>6, <2>7, <2>8, <4>1 DEF InNumber
        <5>2. u # <<>>
          BY <5>1, <4>1, <2>7
        <5>3. u[Len(u)] = v[Len(v)]
          BY <2>7, <4>1, <5>1
        <5> QED
          BY <2>8, <5>2, <5>3 DEF InNumber
      <4> QED
        BY <2>2, <4>1
    <3>2. Len(w) = Len(v) /\ \A i \in 1 .. Len(v) - 1 : w[i] = v[i]
      BY <2>6, <2>8, ReadDigitOn
    <3> QED
      BY <2>6, <2>7, <3>1, <3>2 DEF Begins, Tokens, u, w
  <2>9. CASE ~ (IsDigit(c) /\ InNumber(v))
    <3>1. Len(w) = Len(v) + 1 /\ \A i \in 1 .. Len(v) : w[i] = v[i]
      BY <2>4, <2>6, <2>9, ReadNext
    <3> QED
      BY <2>6, <2>7, <3>1 DEF Begins, Tokens, u, w
  <2> QED
    BY <2>8, <2>9
<1> QED
  BY <1>2, <1>3

\* n digits on, the number under way is still at its place.
LEMMA RunReads ==
  ASSUME NEW s \in Seq(Byte), NEW p \in Nat, NEW n \in Nat \ {0}, p + n <= Len(s),
         \A i \in 0 .. n - 1 : DigitAt(s, p + i)
  PROVE  /\ InNumber(Reading(s)[p + n])
         /\ Len(Reading(s)[p + n]) = Place(Reading(s)[p])
<1> DEFINE S == {i \in Nat : i < n =>
                   /\ InNumber(Reading(s)[p + (i + 1)])
                   /\ Len(Reading(s)[p + (i + 1)]) = Place(Reading(s)[p])}
<1>1. Len(s) \in Nat
  OBVIOUS
<1>2. ASSUME NEW i \in Nat, i < n
      PROVE  /\ InNumber(Reading(s)[p + (i + 1)])
             /\ Len(Reading(s)[p + (i + 1)]) = Place(Reading(s)[p + i])
  <2>1. i \in 0 .. n - 1 /\ p + i \in Nat /\ (p + i) + 1 = p + (i + 1)
    BY <1>2
  <2>2. p + i < Len(s) /\ IsDigit(At(s, p + i))
    BY <2>1 DEF DigitAt
  <2> QED
    BY <2>1, <2>2, ReadAt, ReadDigit
<1>3. 0 \in S
  BY <1>2
<1>4. ASSUME NEW i \in Nat, i \in S PROVE i + 1 \in S
  <2>1. SUFFICES ASSUME i + 1 < n
                 PROVE  /\ InNumber(Reading(s)[p + ((i + 1) + 1)])
                        /\ Len(Reading(s)[p + ((i + 1) + 1)]) = Place(Reading(s)[p])
    OBVIOUS
  <2>2. /\ InNumber(Reading(s)[p + (i + 1)])
        /\ Len(Reading(s)[p + (i + 1)]) = Place(Reading(s)[p])
    BY <1>4, <2>1
  <2>3. Place(Reading(s)[p + (i + 1)]) = Place(Reading(s)[p])
    BY <2>2 DEF Place
  <2>4. i + 1 \in Nat
    OBVIOUS
  <2> HIDE DEF S
  <2> QED
    BY <1>2, <2>1, <2>3, <2>4
<1>5. n - 1 \in Nat /\ n - 1 < n /\ (n - 1) + 1 = n /\ n - 1 \in S
  <2> HIDE DEF S
  <2> QED
    BY <1>3, <1>4, Induction
<1> QED
  BY <1>5

EndVal(s, p) == Val(Reading(s)[DigitEnd(s, p)])

\* The token that a run of digits makes, or goes on with, has the value at its end.
LEMMA RunToken ==
  ASSUME NEW s \in Seq(Byte), Plain(s), NEW p \in Nat, DigitAt(s, p)
  PROVE  LET u == Reading(s)[p]
             x == Place(u)
         IN  /\ x \in Nat \ {0} /\ x <= Len(Tokens(s))
             /\ \A i \in 1 .. x - 1 : Tokens(s)[i] = u[i]
             /\ IsDigit(Tokens(s)[x].first) /\ Tokens(s)[x].value = EndVal(s, p)
             /\ Tokens(s) \in Seq(TokenType)
<1> DEFINE n == DigitEnd(s, p) - p
           e == DigitEnd(s, p)
           u == Reading(s)[p]
           v == Reading(s)[e]
           w == Tokens(s)
<1>1. p < Len(s) /\ IsDigit(At(s, p)) /\ Len(s) \in Nat
  BY DEF DigitAt
<1>2. /\ n \in Nat \ {0} /\ p + n <= Len(s)
      /\ \A i \in 0 .. n - 1 : DigitAt(s, p + i)
      /\ ~ DigitAt(s, p + n)
  BY <1>1, RunIs
<1>3. p + n = e /\ e \in Nat /\ p <= e /\ e <= Len(s)
  BY <1>1, <1>2, DigitEndIs
<1> HIDE DEF n, e
<1>4. InNumber(v) /\ Len(v) = Place(u)
  BY <1>2, <1>3, RunReads
<1>5. Begins(v, w)
  BY <1>1, <1>2, <1>3, <1>4, NumberEnds
<1>6. Kept(u, v)
  BY <1>3, Later
<1>7. EndVal(s, p) = Val(v)
  BY DEF EndVal, e
<1> HIDE DEF u, v, w
<1>8. /\ u \in Seq(TokenType) /\ v \in Seq(TokenType) /\ w \in Seq(TokenType)
      /\ Len(u) \in Nat /\ Len(v) \in Nat /\ Len(w) \in Nat /\ Len(v) <= Len(w)
  BY <1>5, <1>6 DEF Begins, Kept
<1>9. Len(v) \in Nat \ {0} /\ IsDigit(v[Len(v)].first) /\ Val(v) = v[Len(v)].value
  BY <1>4, <1>8 DEF InNumber, Val, Last
<1>10. ASSUME NEW i \in 1 .. Len(v) - 1 PROVE w[i] = u[i]
  <2>1. w[i] = v[i]
    BY <1>5, <1>8 DEF Begins
  <2>2. i \in 1 .. Len(u) /\ (i < Len(u) \/ ~ InNumber(u))
    BY <1>4, <1>8 DEF Place
  <2>3. v[i] = u[i]
    BY <1>6, <2>2 DEF Kept
  <2> QED
    BY <2>1, <2>3
<1>11. w[Len(v)] = v[Len(v)]
  BY <1>5, <1>9 DEF Begins
<1> QED
  BY <1>4, <1>7, <1>8, <1>9, <1>10, <1>11 DEF u, w

-------------------------------------------------------------------------------
(***************************************************************************)
(* Comparing lists of tokens.                                               *)
(***************************************************************************)
\* One list comes before the other, whichever is asked first.
Below(u, v) == CmpTokenLists(u, v) = "Less" /\ CmpTokenLists(v, u) = "Greater"

LEMMA SmallerSame ==
  ASSUME NEW m \in Nat, NEW n \in Nat
  PROVE  /\ Smaller(m, n) \in Nat /\ Smaller(m, n) = Smaller(n, m)
         /\ \A k \in Nat : k < m /\ k < n => k < Smaller(m, n)
         /\ m <= n => Smaller(m, n) = m
BY DEF Smaller

LEMMA FirstTokenDecides ==
  ASSUME NEW u \in Seq(TokenType), NEW v \in Seq(TokenType),
         NEW x \in Nat \ {0}, x <= Len(u), x <= Len(v),
         \A i \in 1 .. x - 1 : u[i] = v[i], u[x] # v[x]
  PROVE  CmpTokenLists(u, v) = CmpTokens(u[x], v[x])
<1> DEFINE n == Smaller(Len(u), Len(v))
           k == x - 1
<1>1. Len(u) \in Nat /\ Len(v) \in Nat /\ k \in Nat /\ k < Len(u) /\ k < Len(v) /\ k + 1 = x
  OBVIOUS
<1>2. n \in Nat /\ k < n
  BY <1>1, SmallerSame
<1> HIDE DEF n
<1>3. SameRun(u, 0, v, 0, k)
  <2> SUFFICES ASSUME NEW i \in 0 .. k - 1 PROVE At(u, 0 + i) = At(v, 0 + i)
    BY DEF SameRun
  <2>1. i + 1 \in 1 .. x - 1 /\ 0 + i = i
    BY <1>1
  <2> QED
    BY <2>1 DEF At
<1>4. At(u, 0 + k) # At(v, 0 + k) /\ At(u, k) = u[x] /\ At(v, k) = v[x]
  BY <1>1 DEF At
<1> HIDE DEF k
<1>5. EqualBytes(u, 0, v, 0, n) = k
  <2>1. k \in 0 .. n /\ 0 \in Nat
    BY <1>1, <1>2
  <2> QED
    BY <1>2, <1>3, <1>4, <2>1, EqualBytesUnique
<1> QED
  BY <1>1, <1>2, <1>4, <1>5 DEF CmpTokenLists, n

LEMMA SameTokens ==
  ASSUME NEW u \in Seq(TokenType)
  PROVE  CmpTokenLists(u, u) = "Equal"
<1>1. Len(u) \in Nat /\ Smaller(Len(u), Len(u)) = Len(u)
  BY DEF Smaller
<1>2. EqualBytes(u, 0, u, 0, Len(u)) = Len(u)
  <2>1. SameRun(u, 0, u, 0, Len(u)) /\ Len(u) \in 0 .. Len(u)
    BY <1>1 DEF SameRun
  <2> QED
    BY <1>1, <2>1, EqualBytesUnique
<1> QED
  BY <1>1, <1>2, CmpIs DEF CmpTokenLists

\* A proper prefix.
LEMMA PrefixBelow ==
  ASSUME NEW u \in Seq(TokenType), NEW v, Begins(u, v), Len(u) < Len(v)
  PROVE  Below(u, v)
<1> DEFINE n == Len(u)
<1>1. /\ n \in Nat /\ Len(v) \in Nat /\ Smaller(n, Len(v)) = n /\ Smaller(Len(v), n) = n
  BY DEF Smaller, Begins
<1>2. SameRun(u, 0, v, 0, n) /\ SameRun(v, 0, u, 0, n)
  <2> SUFFICES ASSUME NEW i \in 0 .. n - 1 PROVE At(u, 0 + i) = At(v, 0 + i)
    BY DEF SameRun
  <2>1. i + 1 \in 1 .. n /\ 0 + i = i
    BY <1>1
  <2> QED
    BY <2>1 DEF At, Begins
<1>3. EqualBytes(u, 0, v, 0, n) = n /\ EqualBytes(v, 0, u, 0, n) = n
  <2>1. n \in 0 .. n /\ 0 \in Nat
    BY <1>1
  <2> QED
    BY <1>1, <1>2, <2>1, EqualBytesUnique
<1>4. Cmp(n, Len(v)) = "Less" /\ Cmp(Len(v), n) = "Greater"
  BY <1>1 DEF Cmp
<1> QED
  BY <1>1, <1>3, <1>4 DEF Below, CmpTokenLists

\* Two numbers at the same place.
LEMMA ValueDecides ==
  ASSUME NEW u \in Seq(TokenType), NEW v \in Seq(TokenType),
         NEW x \in Nat \ {0}, x <= Len(u), x <= Len(v),
         \A i \in 1 .. x - 1 : u[i] = v[i],
         IsDigit(u[x].first), IsDigit(v[x].first), u[x].value < v[x].value
  PROVE  Below(u, v)
<1>1. u[x] \in TokenType /\ v[x] \in TokenType
  OBVIOUS
<1>2. u[x].value \in Nat /\ v[x].value \in Nat /\ u[x] # v[x]
  BY <1>1 DEF TokenType
<1>3. CmpTokens(u[x], v[x]) = "Less" /\ CmpTokens(v[x], u[x]) = "Greater"
  BY <1>2 DEF CmpTokens, Cmp
<1> QED
  BY <1>2, <1>3, FirstTokenDecides DEF Below

\* Two tokens at the same place, not both numbers.
LEMMA ByteDecides ==
  ASSUME NEW u \in Seq(TokenType), NEW v \in Seq(TokenType),
         NEW x \in Nat \ {0}, x <= Len(u), x <= Len(v),
         \A i \in 1 .. x - 1 : u[i] = v[i],
         ~ (IsDigit(u[x].first) /\ IsDigit(v[x].first)), u[x].first < v[x].first
  PROVE  Below(u, v)
<1>1. u[x] \in TokenType /\ v[x] \in TokenType
  OBVIOUS
<1>2. u[x].first \in Int /\ v[x].first \in Int
  <2>1. u[x].first \in Byte /\ v[x].first \in Byte
    BY <1>1 DEF TokenType
  <2>2. Byte \subseteq Int
    BY DEF Byte
  <2> QED
    BY <2>1, <2>2
<1>2a. u[x] # v[x]
  <2>1. u[x].first # v[x].first
    BY <1>2
  <2> QED
    BY <2>1
<1>3. CmpTokens(u[x], v[x]) = "Less" /\ CmpTokens(v[x], u[x]) = "Greater"
  BY <1>2 DEF CmpTokens, Cmp
<1> QED
  BY <1>2a, <1>3, FirstTokenDecides DEF Below

-------------------------------------------------------------------------------
(***************************************************************************)
(* The values along a run of digits.                                        *)
(***************************************************************************)
Values(s, p, n) == [i \in 0 .. n |-> Val(Reading(s)[p + i])]

LEMMA ValuesGrow ==
  ASSUME NEW s \in Seq(Byte), NEW p \in Nat, NEW n \in Nat, p + n <= Len(s),
         \A i \in 0 .. n - 1 : DigitAt(s, p + i)
  PROVE  /\ Grows(Values(s, p, n), n)
         /\ \A i \in 0 .. n - 1 :
              Values(s, p, n)[i + 1] = 10 * Values(s, p, n)[i] + (At(s, p + i) - Zero)
<1>1. Len(s) \in Nat
  OBVIOUS
<1>2. ASSUME NEW u \in Seq(TokenType) PROVE Val(u) \in Nat
  <2>1. CASE InNumber(u)
    <3>1. Len(u) \in 1 .. Len(u)
      BY <2>1 DEF InNumber
    <3>2. Last(u) \in TokenType
      BY <3>1 DEF Last
    <3> QED
      BY <2>1, <3>2 DEF Val, TokenType
  <2>2. CASE ~ InNumber(u)
    BY <2>2 DEF Val
  <2> QED
    BY <2>1, <2>2
<1>3. ASSUME NEW i \in 0 .. n PROVE Values(s, p, n)[i] \in Nat
  <2>1. p + i \in 0 .. Len(s)
    BY <1>1
  <2> QED
    BY <1>2, <2>1, ReadType DEF Values
<1>4. ASSUME NEW i \in 0 .. n - 1
      PROVE  /\ Values(s, p, n)[i + 1] = 10 * Values(s, p, n)[i] + (At(s, p + i) - Zero)
             /\ At(s, p + i) - Zero \in 0 .. 9
  <2>1. p + i \in Nat /\ (p + i) + 1 = p + (i + 1) /\ i \in 0 .. n /\ i + 1 \in 0 .. n
    BY <1>1
  <2>2. p + i < Len(s) /\ IsDigit(At(s, p + i))
    BY <2>1 DEF DigitAt
  <2>3. Val(Reading(s)[(p + i) + 1]) = 10 * Val(Reading(s)[p + i]) + (At(s, p + i) - Zero)
    BY <2>1, <2>2, ReadAt, ReadDigit
  <2>4. At(s, p + i) - Zero \in 0 .. 9
    BY <2>2 DEF IsDigit, Zero
  <2> QED
    BY <2>1, <2>3, <2>4 DEF Values
<1>5. ASSUME NEW i \in 0 .. n - 1
      PROVE  /\ 10 * Values(s, p, n)[i] <= Values(s, p, n)[i + 1]
             /\ Values(s, p, n)[i + 1] <= 10 * Values(s, p, n)[i] + 9
  <2> DEFINE f == Values(s, p, n)
             d == At(s, p + i) - Zero
  <2>1. i \in 0 .. n
    OBVIOUS
  <2>2. f[i] \in Nat /\ d \in 0 .. 9 /\ f[i + 1] = 10 * f[i] + d
    BY <1>3, <1>4, <2>1
  <2> HIDE DEF f, d
  <2>3. 10 * f[i] <= f[i + 1] /\ f[i + 1] <= 10 * f[i] + 9
    BY <2>2
  <2> QED
    BY <2>3 DEF f
<1> QED
  BY <1>3, <1>4, <1>5 DEF Grows

-------------------------------------------------------------------------------
(***************************************************************************)
(* What settles the comparison.  The same tokens have been read of s before *)
(* p as of t before q.                                                      *)
(***************************************************************************)
SameRead(s, p, t, q) ==
  /\ s \in Seq(Byte) /\ t \in Seq(Byte) /\ Plain(s) /\ Plain(t)
  /\ p \in 0 .. Len(s) /\ q \in 0 .. Len(t)
  /\ Reading(s)[p] = Reading(t)[q]

LEMMA SameReadIs ==
  ASSUME NEW s, NEW p, NEW t, NEW q, SameRead(s, p, t, q)
  PROVE  /\ s \in Seq(Byte) /\ t \in Seq(Byte) /\ Plain(s) /\ Plain(t)
         /\ p \in Nat /\ q \in Nat /\ Len(s) \in Nat /\ Len(t) \in Nat
         /\ p \in 0 .. Len(s) /\ q \in 0 .. Len(t)
         /\ Reading(s)[p] = Reading(t)[q] /\ Reading(s)[p] \in Seq(TokenType)
         /\ DigitBefore(s, p) <=> DigitBefore(t, q)
         /\ InNumber(Reading(s)[p]) <=> DigitBefore(s, p)
         /\ SameRead(t, q, s, p)
<1>1. /\ s \in Seq(Byte) /\ t \in Seq(Byte) /\ Plain(s) /\ Plain(t)
      /\ Len(s) \in Nat /\ Len(t) \in Nat
      /\ p \in 0 .. Len(s) /\ q \in 0 .. Len(t)
      /\ Reading(s)[p] = Reading(t)[q]
  BY DEF SameRead
<1>2. /\ InNumber(Reading(s)[p]) <=> DigitBefore(s, p)
      /\ InNumber(Reading(t)[q]) <=> DigitBefore(t, q)
  BY <1>1, NumberUnderWay
<1>3. p \in Nat /\ q \in Nat /\ Reading(s)[p] \in Seq(TokenType)
  BY <1>1, ReadType
<1> QED
  BY <1>1, <1>2, <1>3 DEF SameRead

LEMMA ReadingReads ==
  ASSUME NEW s \in Seq(Byte)
  PROVE  Reads(Reading(s), s, Take)
<1>1. Len(s) \in Nat /\ \A n \in 1 .. Len(s) : s[n] \in Byte
  OBVIOUS
<1>2. ASSUME NEW n \in 1 .. Len(s)
      PROVE  Reading(s)[n] = IF IsWs(s[n]) THEN Reading(s)[n - 1]
                             ELSE Take[<<Reading(s)[n - 1], s[n]>>]
  <2>1. n - 1 \in 0 .. Len(s) /\ s[n] \in Byte
    BY <1>1
  <2>2. Reading(s)[n - 1] \in Seq(TokenType)
    BY <2>1, ReadType
  <2>3. Reading(s)[n] = ReadByte(Reading(s)[n - 1], s[n])
    BY ReadingIs
  <2>4. Take[<<Reading(s)[n - 1], s[n]>>] = ReadByte(Reading(s)[n - 1], s[n])
    BY <2>1, <2>2 DEF Take
  <2> QED
    BY <2>3, <2>4, ReadSpace
<1> QED
  BY <1>2 DEF Reads

\* Numbers that are at one place in both lists of tokens.
LEMMA RunsBelow ==
  ASSUME NEW s, NEW p, NEW t, NEW q, SameRead(s, p, t, q), DigitAt(s, p), DigitAt(t, q),
         EndVal(s, p) < EndVal(t, q)
  PROVE  Below(Tokens(s), Tokens(t))
<1> DEFINE x == Place(Reading(s)[p])
           v == Tokens(s)
           w == Tokens(t)
<1>1. /\ x \in Nat \ {0} /\ x <= Len(v) /\ v \in Seq(TokenType)
      /\ \A i \in 1 .. x - 1 : v[i] = Reading(s)[p][i]
      /\ IsDigit(v[x].first) /\ v[x].value = EndVal(s, p)
  BY SameReadIs, RunToken
<1>2. /\ x <= Len(w) /\ w \in Seq(TokenType)
      /\ \A i \in 1 .. x - 1 : w[i] = Reading(s)[p][i]
      /\ IsDigit(w[x].first) /\ w[x].value = EndVal(t, q)
  BY SameReadIs, RunToken
<1> HIDE DEF x, v, w
<1>3. \A i \in 1 .. x - 1 : v[i] = w[i]
  BY <1>1, <1>2
<1>4. Below(v, w)
  BY <1>1, <1>2, <1>3, ValueDecides
<1> QED
  BY <1>4 DEF v, w

\* A run of m digits: its values, and the value at its end.
Numeral(s, p, m) ==
  /\ m \in Nat \ {0} /\ p + m <= Len(s)
  /\ \A i \in 0 .. m - 1 : DigitAt(s, p + i)
  /\ Grows(Values(s, p, m), m)
  /\ \A i \in 0 .. m - 1 :
       Values(s, p, m)[i + 1] = 10 * Values(s, p, m)[i] + (At(s, p + i) - Zero)
  /\ Values(s, p, m)[0] = Val(Reading(s)[p])
  /\ Values(s, p, m)[m] = EndVal(s, p)

LEMMA RunValues ==
  ASSUME NEW s \in Seq(Byte), NEW p \in Nat, DigitAt(s, p)
  PROVE  Numeral(s, p, DigitEnd(s, p) - p)
<1> DEFINE m == DigitEnd(s, p) - p
<1>1. p < Len(s) /\ IsDigit(At(s, p)) /\ Len(s) \in Nat
  BY DEF DigitAt
<1>2. /\ m \in Nat \ {0} /\ p + m <= Len(s)
      /\ \A i \in 0 .. m - 1 : DigitAt(s, p + i)
      /\ ~ DigitAt(s, p + m)
  BY <1>1, RunIs
<1>3. p + m = DigitEnd(s, p)
  BY <1>1, DigitEndIs
<1>4. Values(s, p, m)[0] = Val(Reading(s)[p]) /\ Values(s, p, m)[m] = EndVal(s, p)
  <2>1. EndVal(s, p) = Val(Reading(s)[p + m])
    BY <1>3 DEF EndVal
  <2> HIDE DEF m
  <2>2. 0 \in 0 .. m /\ m \in 0 .. m /\ p + 0 = p
    BY <1>2
  <2> QED
    BY <2>1, <2>2 DEF Values
<1> HIDE DEF m
<1>5. /\ Grows(Values(s, p, m), m)
      /\ \A i \in 0 .. m - 1 :
           Values(s, p, m)[i + 1] = 10 * Values(s, p, m)[i] + (At(s, p + i) - Zero)
  BY <1>2, ValuesGrow
<1>6. Numeral(s, p, m)
  BY <1>2, <1>4, <1>5 DEF Numeral
<1> QED
  BY <1>6 DEF m

LEMMA DigitIs ==
  ASSUME NEW s \in Seq(Byte), NEW p \in Nat, DigitAt(s, p)
  PROVE  At(s, p) \in Int /\ At(s, p) >= Zero /\ Zero \in Int /\ p < Len(s)
BY AtByte DEF DigitAt, IsDigit, Zero, Byte

\* The longer run is the greater number, unless it begins with a zero.
LEMMA LongerBelow ==
  ASSUME NEW s, NEW p, NEW t, NEW q, SameRead(s, p, t, q), DigitAt(s, p), DigitAt(t, q),
         DigitEnd(s, p) - p < DigitEnd(t, q) - q,
         DigitBefore(t, q) \/ At(t, q) # Zero
  PROVE  Below(Tokens(s), Tokens(t))
<1> DEFINE m == DigitEnd(s, p) - p
           n == DigitEnd(t, q) - q
           f == Values(s, p, m)
           g == Values(t, q, n)
<1>0. Numeral(s, p, m) /\ Numeral(t, q, n) /\ m < n
  BY SameReadIs, RunValues
<1> HIDE DEF m, n
<1>1. m \in Nat \ {0} /\ Grows(f, m) /\ f[0] = Val(Reading(s)[p]) /\ f[m] = EndVal(s, p)
  BY <1>0 DEF Numeral
<1>2. /\ n \in Nat \ {0} /\ Grows(g, n) /\ g[0] = Val(Reading(t)[q]) /\ g[n] = EndVal(t, q)
      /\ \A i \in 0 .. n - 1 : g[i + 1] = 10 * g[i] + (At(t, q + i) - Zero)
  BY <1>0 DEF Numeral
<1>3. DigitBefore(t, q) => Val(Reading(t)[q]) >= 1
  BY SameReadIs, Positive
<1>4. At(t, q) \in Int /\ At(t, q) >= Zero /\ Zero \in Int
  BY SameReadIs, DigitIs
<1>5. Reading(s)[p] = Reading(t)[q] /\ q \in Nat
  BY SameReadIs
<1> HIDE DEF f, g
<1>7. g[1] = 10 * g[0] + (At(t, q) - Zero) /\ g[0] \in Nat
  <2>1. 0 \in 0 .. n - 1 /\ 0 \in 0 .. n /\ 0 + 1 = 1 /\ q + 0 = q
    BY <1>2, <1>5
  <2> QED
    BY <1>2, <2>1 DEF Grows
<1>8. f[0] < g[1]
  <2>1. f[0] = g[0]
    BY <1>1, <1>2, <1>5
  <2>2. g[0] >= 1 \/ At(t, q) # Zero
    BY <1>2, <1>3
  <2> DEFINE d == At(t, q) - Zero
  <2>3. d \in Nat /\ (At(t, q) # Zero => d >= 1) /\ g[1] = 10 * g[0] + d
    BY <1>4, <1>7
  <2> HIDE DEF d
  <2> QED
    BY <1>7, <2>1, <2>2, <2>3
<1>9. f[m] < g[n]
  BY <1>0, <1>1, <1>2, <1>8, LongerIsGreater
<1> QED
  BY <1>1, <1>2, <1>9, RunsBelow

\* Of two runs of one length the first difference decides.
LEMMA FirstDigitBelow ==
  ASSUME NEW s, NEW p, NEW t, NEW q, SameRead(s, p, t, q), DigitAt(s, p), DigitAt(t, q),
         DigitEnd(s, p) - p = DigitEnd(t, q) - q,
         NEW j \in 0 .. DigitEnd(s, p) - p - 1, SameRun(s, p, t, q, j),
         At(s, p + j) < At(t, q + j)
  PROVE  Below(Tokens(s), Tokens(t))
<1> DEFINE m == DigitEnd(s, p) - p
           f == Values(s, p, m)
           g == Values(t, q, m)
<1>0. Numeral(s, p, m) /\ Numeral(t, q, m) /\ j \in 0 .. m - 1
  BY SameReadIs, RunValues
<1> HIDE DEF m
<1>1. /\ m \in Nat \ {0} /\ Grows(f, m) /\ f[m] = EndVal(s, p) /\ p + m <= Len(s)
      /\ \A i \in 0 .. m - 1 : f[i + 1] = 10 * f[i] + (At(s, p + i) - Zero)
      /\ \A i \in 0 .. m - 1 : DigitAt(s, p + i)
  BY <1>0 DEF Numeral
<1>2. /\ Grows(g, m) /\ g[m] = EndVal(t, q) /\ q + m <= Len(t)
      /\ \A i \in 0 .. m - 1 : g[i + 1] = 10 * g[i] + (At(t, q + i) - Zero)
      /\ \A i \in 0 .. m - 1 : DigitAt(t, q + i)
  BY <1>0 DEF Numeral
<1>3. j \in Nat /\ j < m /\ j \in 0 .. m - 1 /\ j \in 0 .. m
  BY <1>0, <1>1
<1>4. /\ s \in Seq(Byte) /\ t \in Seq(Byte) /\ p \in Nat /\ q \in Nat
      /\ Len(s) \in Nat /\ Len(t) \in Nat /\ Reading(s)[p] = Reading(t)[q]
  BY SameReadIs
<1>5. Reading(s)[p + j] = Reading(t)[q + j]
  <2>1. Stretch(s, p, t, q, j)
    BY <1>1, <1>2, <1>3, <1>4 DEF Stretch
  <2> QED
    BY <1>4, <2>1, ReadRun, ReadingReads
<1>6. f[j] = g[j]
  BY <1>3, <1>5 DEF Values
<1>7. At(s, p + j) \in Int /\ At(t, q + j) \in Int /\ Zero \in Int
  <2>1. DigitAt(s, p + j) /\ DigitAt(t, q + j)
    BY <1>1, <1>2, <1>3
  <2>2. p + j \in Nat /\ q + j \in Nat
    BY <1>3, <1>4
  <2> QED
    BY <1>4, <2>1, <2>2, DigitIs
<1> HIDE DEF f, g
<1>8. f[j + 1] < g[j + 1]
  <2>1. f[j] \in Nat /\ g[j] \in Nat
    BY <1>1, <1>2, <1>3 DEF Grows
  <2>2. f[j + 1] = 10 * f[j] + (At(s, p + j) - Zero) /\ g[j + 1] = 10 * g[j] + (At(t, q + j) - Zero)
    BY <1>1, <1>2, <1>3
  <2> QED
    BY <1>6, <1>7, <2>1, <2>2
<1>9. f[(j + 1) + (m - (j + 1))] < g[(j + 1) + (m - (j + 1))]
  <2>1. j + 1 \in 0 .. m /\ m - (j + 1) \in Nat /\ (j + 1) + (m - (j + 1)) <= m
    BY <1>1, <1>3
  <2> QED
    BY <1>1, <1>2, <1>8, <2>1, LessStays
<1>10. (j + 1) + (m - (j + 1)) = m
  BY <1>1, <1>3
<1> QED
  BY <1>1, <1>2, <1>9, <1>10, RunsBelow

\* A zero that begins a number is that number.
LEMMA ZeroBelow ==
  ASSUME NEW s, NEW p, NEW t, NEW q, SameRead(s, p, t, q), DigitAt(s, p), DigitAt(t, q),
         At(s, p) = Zero, ~ DigitBefore(s, p), At(t, q) # Zero
  PROVE  Below(Tokens(s), Tokens(t))
<1> DEFINE m == DigitEnd(s, p) - p
           n == DigitEnd(t, q) - q
<1>1. /\ s \in Seq(Byte) /\ t \in Seq(Byte) /\ p \in Nat /\ q \in Nat /\ Plain(s)
  BY SameReadIs
<1>2. Numeral(s, p, m) /\ Numeral(t, q, n)
  BY <1>1, RunValues
<1>3. /\ m \in Nat \ {0} /\ \A i \in 0 .. m - 1 : DigitAt(s, p + i)
      /\ n \in Nat \ {0}
  BY <1>2 DEF Numeral
<1>4. ~ DigitAt(s, p + 1)
  <2>1. p < Len(s)
    BY <1>1, DigitIs
  <2> QED
    BY <1>1, <2>1, PlainIs
<1> HIDE DEF m, n
<1>5. m = 1
  BY <1>3, <1>4
<1>6. CASE n = 1
  <2>1. 0 \in 0 .. m - 1 /\ p + 0 = p /\ q + 0 = q /\ m = n
    BY <1>1, <1>5, <1>6
  <2>2. SameRun(s, p, t, q, 0)
    BY DEF SameRun
  <2>3. At(s, p + 0) < At(t, q + 0)
    BY <1>1, <2>1, DigitIs
  <2> QED
    BY <2>1, <2>2, <2>3, FirstDigitBelow DEF m, n
<1>7. CASE n # 1
  <2>1. m < n
    BY <1>3, <1>5, <1>7
  <2> QED
    BY <2>1, LongerBelow DEF m, n
<1> QED
  BY <1>6, <1>7

\* What the two paths say of two runs of one length.
LEMMA WordsBelow ==
  ASSUME NEW s, NEW p, NEW t, NEW q, SameRead(s, p, t, q), DigitAt(s, p), DigitAt(t, q),
         NEW m, m = DigitEnd(s, p) - p, m = DigitEnd(t, q) - q
  PROVE  /\ CompareWords(s, p, t, q, m) = "Less" => Below(Tokens(s), Tokens(t))
         /\ CompareWords(s, p, t, q, m) = "Greater" => Below(Tokens(t), Tokens(s))
<1> DEFINE j == EqualBytes(s, p, t, q, m)
<1>1. /\ s \in Seq(Byte) /\ t \in Seq(Byte) /\ p \in Nat /\ q \in Nat
      /\ SameRead(t, q, s, p)
  BY SameReadIs
<1>2. Numeral(s, p, m) /\ Numeral(t, q, m)
  BY <1>1, RunValues
<1>3. /\ m \in Nat \ {0} /\ \A i \in 0 .. m - 1 : DigitAt(s, p + i)
      /\ \A i \in 0 .. m - 1 : DigitAt(t, q + i)
  BY <1>2 DEF Numeral
<1>4. j \in 0 .. m /\ SameRun(s, p, t, q, j) /\ (j # m => At(s, p + j) # At(t, q + j))
  BY <1>1, <1>3, EqualBytesIs
<1>5. CompareWords(s, p, t, q, m) = IF j = m THEN "Undecided" ELSE Cmp(At(s, p + j), At(t, q + j))
  BY DEF CompareWords
<1> HIDE DEF j
<1>6. CASE j = m
  BY <1>5, <1>6
<1>7. CASE j # m
  <2>1. j \in 0 .. m - 1 /\ p + j \in Nat /\ q + j \in Nat
    BY <1>1, <1>3, <1>4, <1>7
  <2>2. DigitAt(s, p + j) /\ DigitAt(t, q + j)
    BY <1>3, <2>1
  <2>3. At(s, p + j) \in Int /\ At(t, q + j) \in Int
    BY <1>1, <2>1, <2>2, DigitIs
  <2>4. SameRun(t, q, s, p, j)
    BY <1>4 DEF SameRun
  <2>5. ASSUME At(s, p + j) < At(t, q + j) PROVE Below(Tokens(s), Tokens(t))
    BY <1>4, <2>1, <2>5, FirstDigitBelow
  <2>6. ASSUME At(t, q + j) < At(s, p + j) PROVE Below(Tokens(t), Tokens(s))
    BY <1>1, <2>1, <2>4, <2>6, FirstDigitBelow
  <2>7. /\ Cmp(At(s, p + j), At(t, q + j)) = "Less" => At(s, p + j) < At(t, q + j)
        /\ Cmp(At(s, p + j), At(t, q + j)) = "Greater" => At(t, q + j) < At(s, p + j)
    BY <2>3 DEF Cmp
  <2> QED
    BY <1>5, <1>7, <2>5, <2>6, <2>7
<1> QED
  BY <1>6, <1>7

\* handle_digit_case says of two runs what their values say.
LEMMA DigitsBelow ==
  ASSUME NEW s, NEW p, NEW t, NEW q, SameRead(s, p, t, q), DigitAt(s, p), DigitAt(t, q)
  PROVE  /\ HandleDigits(s, p, t, q).order = "Less" => Below(Tokens(s), Tokens(t))
         /\ HandleDigits(s, p, t, q).order = "Greater" => Below(Tokens(t), Tokens(s))
<1> DEFINE m == DigitEnd(s, p) - p
           n == DigitEnd(t, q) - q
           order == HandleDigits(s, p, t, q).order
<1>1. /\ s \in Seq(Byte) /\ t \in Seq(Byte) /\ p \in Nat /\ q \in Nat
      /\ Len(s) \in Nat /\ Len(t) \in Nat
      /\ Plain(s) /\ Plain(t) /\ SameRead(t, q, s, p)
      /\ DigitBefore(s, p) <=> DigitBefore(t, q)
  BY SameReadIs
<1>2. /\ At(s, p) \in Int /\ At(s, p) >= Zero /\ p < Len(s) /\ Zero \in Int
      /\ At(t, q) \in Int /\ At(t, q) >= Zero /\ q < Len(t)
  BY <1>1, DigitIs
<1>3. AtDigits(s, p, t, q)
  BY <1>1 DEF AtDigits, DigitAt
<1>4. Numeral(s, p, m) /\ Numeral(t, q, n)
  BY <1>1, RunValues
<1>5. m \in Nat \ {0} /\ n \in Nat \ {0}
  BY <1>4 DEF Numeral
<1>6. LeadingZero(s, p) <=> At(s, p) = Zero /\ ~ DigitBefore(s, p)
  BY <1>1 DEF LeadingZero, DigitBefore
<1>7. LeadingZero(t, q) <=> At(t, q) = Zero /\ ~ DigitBefore(t, q)
  BY <1>1 DEF LeadingZero, DigitBefore
<1>8. CASE ~ LeadingZero(s, p) /\ ~ LeadingZero(t, q)
  <2>1. order = RightLong(s, p, t, q).order
    BY <1>3, <1>8, RightPathsAgree DEF HandleDigits, RightAligned
  <2>2. RightLong(s, p, t, q).order = IF m # n THEN Cmp(m, n) ELSE CompareWords(s, p, t, q, m)
    BY DEF RightLong, Outcome
  <2>3. DigitBefore(s, p) \/ At(s, p) # Zero
    BY <1>6, <1>8
  <2>4. DigitBefore(t, q) \/ At(t, q) # Zero
    BY <1>7, <1>8
  <2>5. CASE m = n
    BY <2>1, <2>2, <2>5, WordsBelow
  <2>6. CASE m < n
    <3>1. order = "Less"
      BY <1>5, <2>1, <2>2, <2>6 DEF Cmp
    <3>2. Below(Tokens(s), Tokens(t))
      BY <2>4, <2>6, LongerBelow
    <3> QED
      BY <3>1, <3>2
  <2>7. CASE n < m
    <3>1. order = "Greater"
      BY <1>5, <2>1, <2>2, <2>7 DEF Cmp
    <3>2. Below(Tokens(t), Tokens(s))
      BY <1>1, <2>3, <2>7, LongerBelow
    <3> QED
      BY <3>1, <3>2
  <2> QED
    BY <1>5, <2>5, <2>6, <2>7
<1>9. CASE LeadingZero(s, p) \/ LeadingZero(t, q)
  <2> DEFINE k == Smaller(m, n)
             head == CompareWords(s, p, t, q, k)
  <2>1. order = LeftLong(s, p, t, q).order
    BY <1>3, <1>9, LeftPathsAgree DEF HandleDigits, LeftAligned
  <2>2. LeftLong(s, p, t, q).order =
          CASE head # "Undecided" -> head
            [] head = "Undecided" /\ m # n -> Cmp(m, n)
            [] head = "Undecided" /\ m = n -> "Undecided"
    BY DEF LeftLong, Outcome
  <2>3. ~ DigitBefore(s, p) /\ ~ DigitBefore(t, q) /\ (At(s, p) = Zero \/ At(t, q) = Zero)
    BY <1>1, <1>6, <1>7, <1>9
  <2>4. CASE At(s, p) = At(t, q)
    <3>1. ~ DigitAt(s, p + 1) /\ ~ DigitAt(t, q + 1)
      BY <1>1, <1>2, <2>3, <2>4, PlainIs
    <3>2. /\ \A i \in 0 .. m - 1 : DigitAt(s, p + i)
          /\ \A i \in 0 .. n - 1 : DigitAt(t, q + i)
      BY <1>4 DEF Numeral
    <3>3. m = 1 /\ n = 1
      <4> HIDE DEF m, n
      <4> QED
        BY <1>5, <3>1, <3>2
    <3>4. k = m
      BY <3>3 DEF Smaller
    <3>5. order = head \/ order = "Undecided"
      <4> HIDE DEF head, m, n, order, k
      <4> QED
        BY <2>1, <2>2, <3>3
    <3> QED
      BY <3>3, <3>4, <3>5, WordsBelow
  <2>5. CASE At(s, p) # At(t, q)
    <3>1. k \in Nat \ {0}
      <4> HIDE DEF m, n
      <4> QED
        BY <1>5 DEF Smaller
    <3>2. EqualBytes(s, p, t, q, k) = 0
      <4> HIDE DEF k
      <4>1. 0 \in 0 .. k /\ p + 0 = p /\ q + 0 = q /\ SameRun(s, p, t, q, 0)
        BY <1>1, <3>1 DEF SameRun
      <4> QED
        BY <1>1, <2>5, <3>1, <4>1, EqualBytesUnique
    <3>3. head = Cmp(At(s, p), At(t, q))
      <4>1. 0 # k /\ p + 0 = p /\ q + 0 = q
        BY <1>1, <3>1
      <4> HIDE DEF k
      <4> QED
        BY <3>2, <4>1 DEF CompareWords
    <3>4. order = Cmp(At(s, p), At(t, q))
      <4>1. head # "Undecided"
        BY <1>2, <2>5, <3>3, CmpUnequal DEF Unequal
      <4> HIDE DEF head, m, n, order, k
      <4> QED
        BY <2>1, <2>2, <3>3, <4>1
    <3>5. CASE At(s, p) < At(t, q)
      <4>1. Below(Tokens(s), Tokens(t))
        BY <1>2, <2>3, <3>5, ZeroBelow
      <4> QED
        BY <1>2, <3>4, <3>5, <4>1 DEF Cmp
    <3>6. CASE At(t, q) < At(s, p)
      <4>1. Below(Tokens(t), Tokens(s))
        BY <1>1, <1>2, <2>3, <3>6, ZeroBelow
      <4> QED
        BY <1>2, <3>4, <3>6, <4>1 DEF Cmp
    <3> QED
      BY <1>2, <2>5, <3>5, <3>6
  <2> QED
    BY <2>4, <2>5
<1> QED
  BY <1>8, <1>9

\* Of two numbers under way the one that goes on is the greater.
LEMMA GoesOnBelow ==
  ASSUME NEW s, NEW p, NEW t, NEW q, SameRead(s, p, t, q), DigitBefore(s, p),
         ~ DigitAt(s, p), DigitAt(t, q)
  PROVE  Below(Tokens(s), Tokens(t))
<1> DEFINE u == Reading(s)[p]
           n == DigitEnd(t, q) - q
           g == Values(t, q, n)
           f == [i \in 0 .. 0 |-> Val(u)]
           v == Tokens(s)
           w == Tokens(t)
           x == Place(u)
<1>1. /\ s \in Seq(Byte) /\ t \in Seq(Byte) /\ p \in Nat /\ q \in Nat
      /\ p \in 0 .. Len(s) /\ Len(t) \in Nat
      /\ Plain(s) /\ Plain(t) /\ Reading(t)[q] = u /\ u \in Seq(TokenType)
      /\ InNumber(u) /\ DigitBefore(t, q)
  BY SameReadIs
<1>2. Begins(u, v)
  BY <1>1, NumberEnds
<1>3. Val(u) >= 1
  BY <1>1, Positive
<1>4. Numeral(t, q, n)
  BY <1>1, RunValues
<1> HIDE DEF n
<1>5. /\ n \in Nat \ {0} /\ Grows(g, n) /\ g[0] = Val(u) /\ g[n] = EndVal(t, q)
      /\ \A i \in 0 .. n - 1 : g[i + 1] = 10 * g[i] + (At(t, q + i) - Zero)
  BY <1>1, <1>4 DEF Numeral
<1> HIDE DEF g
<1>6. g[1] = 10 * Val(u) + (At(t, q) - Zero) /\ Val(u) \in Nat
  <2>1. 0 \in 0 .. n - 1 /\ 0 \in 0 .. n /\ 0 + 1 = 1 /\ q + 0 = q
    BY <1>1, <1>5
  <2> QED
    BY <1>5, <2>1 DEF Grows
<1>7. At(t, q) \in Int /\ At(t, q) >= Zero /\ Zero \in Int
  BY <1>1, DigitIs
<1>8. Grows(f, 0) /\ f[0] = Val(u)
  BY <1>6 DEF Grows
<1>9. f[0] < g[1]
  BY <1>3, <1>6, <1>7, <1>8
<1> HIDE DEF f
<1>10. Val(u) < EndVal(t, q)
  <2>1. 0 < n
    BY <1>5
  <2>2. f[0] < g[n]
    BY <1>5, <1>8, <1>9, <2>1, LongerIsGreater
  <2> QED
    BY <1>5, <1>8, <2>2
<1>11. /\ x \in Nat \ {0} /\ x <= Len(w) /\ w \in Seq(TokenType)
       /\ \A i \in 1 .. x - 1 : w[i] = u[i]
       /\ IsDigit(w[x].first) /\ w[x].value = EndVal(t, q)
  BY <1>1, RunToken
<1>12. x = Len(u)
  BY <1>1 DEF Place
<1> HIDE DEF u, v, w, x
<1>13. /\ v \in Seq(TokenType) /\ x <= Len(v) /\ Len(u) \in Nat
       /\ \A i \in 1 .. Len(u) : v[i] = u[i]
  BY <1>2, <1>12 DEF Begins
<1>14. IsDigit(v[x].first) /\ v[x].value = Val(u)
  <2>1. v[x] = u[x]
    BY <1>11, <1>12, <1>13
  <2> QED
    BY <1>1, <1>12, <2>1 DEF InNumber, Val, Last, u
<1>15. \A i \in 1 .. x - 1 : v[i] = w[i]
  BY <1>11, <1>12, <1>13
<1>16. Below(v, w)
  BY <1>10, <1>11, <1>13, <1>14, <1>15, ValueDecides
<1> QED
  BY <1>16 DEF v, w

\* Of two strings of which one is exhausted the one that goes on is the greater.
LEMMA EndBelow ==
  ASSUME NEW s, NEW p, NEW t, NEW q, SameRead(s, p, t, q), p = Len(s), q < Len(t)
  PROVE  Below(Tokens(s), Tokens(t))
<1>1. /\ s \in Seq(Byte) /\ t \in Seq(Byte) /\ p \in Nat /\ q \in Nat /\ Len(s) \in Nat
      /\ Plain(t) /\ Reading(s)[p] = Reading(t)[q]
      /\ InNumber(Reading(s)[p]) <=> DigitBefore(s, p)
  BY SameReadIs
<1>2. CASE DigitAt(t, q) /\ DigitBefore(s, p)
  <2>1. ~ DigitAt(s, p)
    BY <1>1 DEF DigitAt
  <2> QED
    BY <1>2, <2>1, GoesOnBelow
<1>3. CASE ~ (DigitAt(t, q) /\ DigitBefore(s, p))
  <2>1. /\ Begins(Reading(t)[q], Tokens(t))
        /\ Len(Reading(t)[q]) < Len(Tokens(t))
    BY <1>1, <1>3, MoreTokens
  <2>2. Tokens(s) = Reading(t)[q]
    BY <1>1 DEF Tokens
  <2>3. Reading(t)[q] \in Seq(TokenType)
    BY <2>1 DEF Begins
  <2> QED
    BY <2>1, <2>2, <2>3, PrefixBelow
<1> QED
  BY <1>2, <1>3

\* Two bytes that begin tokens, not both of them numbers.
LEMMA BytesBelow ==
  ASSUME NEW s, NEW p, NEW t, NEW q, SameRead(s, p, t, q), p < Len(s), q < Len(t),
         ~ IsWs(At(s, p)), ~ IsWs(At(t, q)),
         ~ (IsDigit(At(s, p)) /\ IsDigit(At(t, q))),
         DigitBefore(s, p) => ~ IsDigit(At(s, p)) /\ ~ IsDigit(At(t, q)),
         At(s, p) < At(t, q)
  PROVE  Below(Tokens(s), Tokens(t))
<1> DEFINE u == Reading(s)[p]
           v == Tokens(s)
           w == Tokens(t)
<1>1. /\ s \in Seq(Byte) /\ t \in Seq(Byte) /\ p \in Nat /\ q \in Nat
      /\ u = Reading(t)[q] /\ (InNumber(u) <=> DigitBefore(s, p)) /\ u \in Seq(TokenType)
  BY SameReadIs
<1>2. Begins(u, v) /\ Len(u) < Len(v) /\ v[Len(u) + 1].first = At(s, p)
  BY <1>1, TokenBegins
<1>3. Begins(u, w) /\ Len(u) < Len(w) /\ w[Len(u) + 1].first = At(t, q)
  BY <1>1, TokenBegins
<1> HIDE DEF u, v, w
<1>4. /\ v \in Seq(TokenType) /\ w \in Seq(TokenType) /\ Len(u) \in Nat
      /\ \A i \in 1 .. Len(u) : v[i] = u[i] /\ w[i] = u[i]
  BY <1>1, <1>2, <1>3 DEF Begins
<1> DEFINE x == Len(u) + 1
<1>5. /\ x \in Nat \ {0} /\ x <= Len(v) /\ x <= Len(w) /\ \A i \in 1 .. x - 1 : v[i] = w[i]
      /\ v[x].first = At(s, p) /\ w[x].first = At(t, q)
  <2>1. Len(v) \in Nat /\ Len(w) \in Nat
    BY <1>4
  <2> QED
    BY <1>2, <1>3, <1>4, <2>1
<1> HIDE DEF x
<1>6. Below(v, w)
  BY <1>4, <1>5, ByteDecides
<1> QED
  BY <1>6 DEF v, w

-------------------------------------------------------------------------------
(***************************************************************************)
(* The result.                                                              *)
(***************************************************************************)
\* In the loop the same tokens have been read of both strings.
LEMMA InSyncReads ==
  ASSUME IInv, InSync, pc = "loop", Plain(a), Plain(b)
  PROVE  SameRead(a, pa, b, pb)
<1>1. /\ a \in Seq(Byte) /\ b \in Seq(Byte) /\ Len(a) \in Nat /\ Len(b) \in Nat
      /\ pa \in Nat /\ pa <= Len(a) /\ pb \in Nat /\ pb <= Len(b)
  BY Lengths DEF IInv
<1>2. /\ Reads(Reading(a), a, Take) /\ Reads(Reading(b), b, Take)
      /\ Reading(a)[0] = Reading(b)[0]
  BY <1>1, ReadingReads, ReadingIs
<1>3. Reading(a)[pa] = Reading(b)[pb]
  BY <1>2 DEF InSync, ReadAlike
<1> QED
  BY <1>1, <1>3 DEF SameRead

\* An order that the tokens bear out.
Borne(order) ==
  /\ order = "Less" => Below(Tokens(a), Tokens(b))
  /\ order = "Greater" => Below(Tokens(b), Tokens(a))
  /\ order = "Equal" => Tokens(a) = Tokens(b)

LEMMA BorneOut ==
  ASSUME TypeOK, NEW order \in Orders, Borne(order)
  PROVE  order = NaturalCmp(a, b)
<1>1. a \in Seq(Byte) /\ Len(a) \in 0 .. Len(a) /\ b \in Seq(Byte)
  BY Lengths
<1>2. Tokens(a) \in Seq(TokenType)
  BY <1>1, ReadType DEF Tokens
<1>3. CASE order = "Less"
  BY <1>3 DEF Borne, Below, NaturalCmp
<1>4. CASE order = "Greater"
  BY <1>4 DEF Borne, Below, NaturalCmp
<1>5. CASE order = "Equal"
  BY <1>2, <1>5, SameTokens DEF Borne, NaturalCmp
<1> QED
  BY <1>3, <1>4, <1>5 DEF Orders

\* Whatever settles the comparison of plain strings is borne out by the tokens.
LEMMA SettleNatural ==
  ASSUME IInv, InSync, Plain(a), Plain(b), NEW order,
         Settle(order),
         SamePointer \/ End \/ DigitsSettle \/ Boundary \/ Mismatch
  PROVE  order \in Orders /\ Borne(order)
<1>1. /\ TypeOK /\ Len(a) \in Nat /\ Len(b) \in Nat
      /\ pa \in Nat /\ pa <= Len(a) /\ pb \in Nat /\ pb <= Len(b)
  BY Lengths DEF IInv
<1>2. CASE SamePointer
  <2>1. order = "Equal" /\ a = b
    BY <1>2 DEF SamePointer, Settle
  <2> QED
    BY <2>1 DEF Borne, Orders
<1>3. CASE End
  <2>1. order = Cmp(Len(a) - pa, Len(b) - pb) /\ AtEnd
    BY <1>3 DEF End, Settle
  <2>2. SameRead(a, pa, b, pb)
    BY <1>3, InSyncReads DEF End
  <2>3. SameRead(b, pb, a, pa) /\ Reading(a)[pa] = Reading(b)[pb]
    BY <2>2, SameReadIs
  <2>4. CASE pa = Len(a) /\ pb = Len(b)
    <3>1. order = "Equal"
      BY <1>1, <2>1, <2>4 DEF Cmp
    <3>2. Tokens(a) = Tokens(b)
      BY <2>3, <2>4 DEF Tokens
    <3> QED
      BY <3>1, <3>2 DEF Borne, Orders
  <2>5. CASE pa = Len(a) /\ pb < Len(b)
    <3>1. order = "Less"
      BY <1>1, <2>1, <2>5 DEF Cmp
    <3>2. Below(Tokens(a), Tokens(b))
      BY <2>2, <2>5, EndBelow
    <3> QED
      BY <3>1, <3>2 DEF Borne, Orders
  <2>6. CASE pa < Len(a) /\ pb = Len(b)
    <3>1. order = "Greater"
      BY <1>1, <2>1, <2>6 DEF Cmp
    <3>2. Below(Tokens(b), Tokens(a))
      BY <2>3, <2>6, EndBelow
    <3> QED
      BY <3>1, <3>2 DEF Borne, Orders
  <2> QED
    BY <1>1, <2>1, <2>4, <2>5, <2>6 DEF AtEnd
<1>4. CASE DigitsSettle
  <2>1. /\ InLoop /\ BothDigits /\ pc = "loop"
        /\ order = HandleDigits(a, pa, b, pb).order /\ order # "Undecided"
    BY <1>4 DEF DigitsSettle, Settle, InLoop
  <2>2. SameRead(a, pa, b, pb) /\ AtDigits(a, pa, b, pb)
    BY <1>1, <2>1, InSyncReads, Looping
  <2>3. DigitAt(a, pa) /\ DigitAt(b, pb)
    BY <2>2 DEF AtDigits, DigitAt
  <2>4. order \in Unequal
    BY <2>1, <2>2, HandleDigitsFine DEF Fine
  <2>5. /\ order = "Less" => Below(Tokens(a), Tokens(b))
        /\ order = "Greater" => Below(Tokens(b), Tokens(a))
    BY <2>1, <2>2, <2>3, DigitsBelow
  <2> QED
    BY <2>4, <2>5 DEF Borne, Unequal, Orders
<1>5. CASE Boundary
  <2>1. /\ InLoop /\ pc = "loop" /\ AtBoundary
        /\ order = IF IsDigit(ca) THEN "Greater" ELSE "Less"
    BY <1>5 DEF Boundary, Settle, InLoop, Differ
  <2>2. SameRead(a, pa, b, pb) /\ pa < Len(a) /\ pb < Len(b)
    BY <1>1, <2>1, InSyncReads, Looping
  <2>2a. DigitBefore(a, pa) /\ (IsDigit(ca) <=> ~ IsDigit(cb))
    <3>1. IsDigit(ca) \in BOOLEAN /\ IsDigit(cb) \in BOOLEAN
      BY DEF IsDigit
    <3> QED
      BY <2>1, <3>1 DEF AtBoundary, DigitBefore
  <2>3. /\ SameRead(b, pb, a, pa) /\ DigitBefore(b, pb)
        /\ DigitAt(a, pa) <=> ~ DigitAt(b, pb)
        /\ DigitAt(a, pa) <=> IsDigit(ca)
    <3>1. SameRead(b, pb, a, pa) /\ DigitBefore(b, pb)
      BY <2>2, <2>2a, SameReadIs
    <3> QED
      BY <2>2, <2>2a, <3>1 DEF DigitAt, ca, cb
  <2>4. CASE IsDigit(ca)
    <3>1. Below(Tokens(b), Tokens(a))
      BY <2>2, <2>3, <2>4, GoesOnBelow
    <3> QED
      BY <2>1, <2>4, <3>1 DEF Borne, Orders
  <2>5. CASE ~ IsDigit(ca)
    <3>1. ~ DigitAt(a, pa) /\ DigitAt(b, pb)
      BY <2>3, <2>5
    <3>2. Below(Tokens(a), Tokens(b))
      BY <2>2, <2>2a, <3>1, GoesOnBelow
    <3> QED
      BY <2>1, <2>5, <3>2 DEF Borne, Orders
  <2> QED
    BY <2>4, <2>5
<1>6. CASE Mismatch
  <2>1. /\ InLoop /\ pc = "loop" /\ ~ BothDigits /\ ca # cb /\ ~ IsWs(ca) /\ ~ IsWs(cb)
        /\ ~ AtBoundary /\ order = Cmp(ca, cb)
    BY <1>6 DEF Mismatch, Settle, InLoop, Differ
  <2>2. /\ SameRead(a, pa, b, pb) /\ pa < Len(a) /\ pb < Len(b)
        /\ ca \in Int /\ cb \in Int
    BY <1>1, <2>1, InSyncReads, Looping
  <2>3. SameRead(b, pb, a, pa) /\ (DigitBefore(a, pa) <=> DigitBefore(b, pb))
    BY <2>2, SameReadIs
  <2>4. DigitBefore(a, pa) => ~ IsDigit(ca) /\ ~ IsDigit(cb)
    BY <2>1 DEF AtBoundary, BothDigits, DigitBefore
  <2>5. CASE ca < cb
    <3>1. Below(Tokens(a), Tokens(b))
      BY <2>1, <2>2, <2>4, <2>5, BytesBelow DEF BothDigits, ca, cb
    <3> QED
      BY <2>1, <2>2, <2>5, <3>1 DEF Borne, Orders, Cmp
  <2>6. CASE cb < ca
    <3>1. Below(Tokens(b), Tokens(a))
      BY <2>1, <2>2, <2>3, <2>4, <2>6, BytesBelow DEF BothDigits, ca, cb
    <3> QED
      BY <2>1, <2>2, <2>6, <3>1 DEF Borne, Orders, Cmp
  <2> QED
    BY <2>1, <2>2, <2>5, <2>6
<1> QED
  BY <1>2, <1>3, <1>4, <1>5, <1>6

LEMMA NaturalInductive ==
  IInv /\ InSync /\ NaturalOnPlain /\ [Next]_vars => NaturalOnPlain'
<1> SUFFICES ASSUME IInv, InSync, NaturalOnPlain, [Next]_vars, (res # "Undecided")',
                    Plain(a)', Plain(b)'
             PROVE  (res = NaturalCmp(a, b))'
  BY DEF NaturalOnPlain
<1>1. TypeOK /\ Open
  BY DEF IInv
<1>2. ASSUME NEW order, Settle(order),
             SamePointer \/ End \/ DigitsSettle \/ Boundary \/ Mismatch
      PROVE  (res = NaturalCmp(a, b))'
  <2>1. res' = order /\ a' = a /\ b' = b
    BY <1>2 DEF Settle
  <2>2. order \in Orders /\ Borne(order)
    BY <1>2, <2>1, SettleNatural
  <2>3. order = NaturalCmp(a, b)
    BY <1>1, <2>2, BorneOut
  <2> QED
    BY <2>1, <2>3
<1>3. ASSUME NEW x, NEW y, Consume(x, y), pc # "done" PROVE FALSE
  BY <1>1, <1>3 DEF Consume, Open
<1>4. CASE SamePointer \/ End \/ DigitsSettle \/ Boundary \/ Mismatch
  <2>1. \E order : Settle(order)
    BY <1>4 DEF SamePointer, End, DigitsSettle, Boundary, Mismatch
  <2> QED
    BY <1>2, <1>4, <2>1
<1>5. CASE New \/ DigitsContinue \/ SkipWs \/ Advance
  <2>1. pc # "done" /\ \E x, y : Consume(x, y)
    BY <1>5 DEF New, DigitsContinue, SkipWs, Advance, InLoop
  <2> QED
    BY <1>3, <2>1
<1>6. CASE UNCHANGED vars
  BY <1>6 DEF vars, NaturalOnPlain
<1> QED
  BY <1>4, <1>5, <1>6 DEF Next, Step, Iterate, Idle

\* On plain strings of any length `compare` is the natural order: it reads numbers by
\* value, without computing one, and lets the first difference decide.
THEOREM IsNaturalOrder == Spec => []NaturalOnPlain
<1>1. Init => NaturalOnPlain
  BY DEF Init, NaturalOnPlain
<1> QED
  BY <1>1, NaturalInductive, ReadInSync, PTL DEF Spec
==============================================================================

--------------------------- MODULE NormalizerProofs ---------------------------
(***************************************************************************)
(* The comparison that folds on arbitrary bytes, UTF-8 or not: the pointers *)
(* stay within their slices.  Then a normalizer on two texts: their bytes   *)
(* are cut into characters in one way, and pointers that went by bytes are  *)
(* equally far into characters that begin alike; so characters are decoded  *)
(* where they begin, the comparison is antisymmetric step by step, and what *)
(* is left to `compare` comes out in the natural order of the normal forms. *)
(* Then what `normalize` returns, and when it makes a new string.  Last,    *)
(* the comparison that folds as it goes: it finds the natural order of the  *)
(* folded texts, which it never builds.                                     *)
(***************************************************************************)
EXTENDS Normalizer, NaturalOrderProofs

\* Strictly inside the call NatCompare's own invariant of the pointers holds.
FoldInv ==
  /\ FoldTypeOK
  /\ pc # "panicked" => TypeOK

LEMMA FoldSettleKeeps ==
  ASSUME TypeOK, NEW order \in Orders, Settle(order)
  PROVE  FoldInv'
<1>1. /\ res' = order /\ pc' = "done" /\ a' = a /\ b' = b /\ pa' = pa /\ pb' = pb
  BY DEF Settle
<1>2. TypeOK'
  BY <1>1 DEF TypeOK
<1>3. (a \in Seq(Byte))' /\ (b \in Seq(Byte))'
  BY <1>1, Lengths
<1> QED
  BY <1>1, <1>2, <1>3 DEF FoldInv, FoldTypeOK, TypeOK

LEMMA FoldConsumeKeeps ==
  ASSUME TypeOK, NEW x \in 0 .. Len(a), NEW y \in 0 .. Len(b), Consume(x, y)
  PROVE  FoldInv'
<1>1. /\ pa' = x /\ pb' = y /\ pc' = "loop" /\ a' = a /\ b' = b /\ res' = res
  BY DEF Consume
<1>2. TypeOK'
  BY <1>1 DEF TypeOK
<1>3. (a \in Seq(Byte))' /\ (b \in Seq(Byte))'
  BY <1>1, Lengths
<1> QED
  BY <1>1, <1>2, <1>3 DEF FoldInv, FoldTypeOK, TypeOK

LEMMA FoldInitInv == FoldInit => FoldInv
<1> SUFFICES ASSUME FoldInit PROVE FoldInv
  OBVIOUS
<1>1. TypeOK
  BY InitInv DEF FoldInit, IInv
<1> QED
  BY <1>1, Lengths DEF FoldInv, FoldTypeOK, TypeOK

\* A slice that is not cut short holds the whole of what the first byte announces.
LEMMA SliceWhole ==
  ASSUME TypeOK, BothWide, ~ Cut(a, pa), ~ Cut(b, pb)
  PROVE  pa + CharLen(ca) \in 0 .. Len(a) /\ pb + CharLen(cb) \in 0 .. Len(b)
<1>1. \A c \in Int : CharLen(c) \in 1 .. 4
  <2> SUFFICES ASSUME NEW c \in Int PROVE CharLen(c) \in 1 .. 4
    OBVIOUS
  <2>1. CASE c < 128
    BY <2>1 DEF CharLen
  <2>2. CASE c \in 128 .. 223
    BY <2>2 DEF CharLen
  <2>3. CASE c \in 224 .. 239
    BY <2>3 DEF CharLen
  <2>4. CASE ~ (c < 128) /\ c \notin 128 .. 223 /\ c \notin 224 .. 239
    BY <2>4 DEF CharLen
  <2> QED
    BY <2>1, <2>2, <2>3, <2>4
<1>2. ca \in Int /\ cb \in Int
  BY Looping DEF BothWide, Letters, Differ
<1>3. /\ Len(a) \in Nat /\ Len(b) \in Nat /\ pa \in Nat /\ pb \in Nat
  BY Lengths
<1>4. pa + CharLen(ca) <= Len(a) /\ pb + CharLen(cb) <= Len(b)
  <2>1. CharLen(ca) \in 1 .. 4 /\ CharLen(cb) \in 1 .. 4
    BY <1>1, <1>2
  <2> QED
    BY <1>3, <2>1 DEF Cut, ca, cb
<1> QED
  BY <1>1, <1>2, <1>3, <1>4

LEMMA FoldInductive == FoldInv /\ [FoldNext]_foldVars => FoldInv'
<1> SUFFICES ASSUME FoldInv, [FoldNext]_foldVars PROVE FoldInv'
  OBVIOUS
<1>1. CASE pc = "panicked"
  <2>1. UNCHANGED foldVars
    BY <1>1 DEF FoldNext, FoldIdle, FoldStep, SamePointer, New, FoldIterate, End, DigitsSettle,
       DigitsContinue, SkipWs, Boundary, Advance, DigitMismatch, FoldEqual, FoldDiffer,
       OneWide, Panic, WideDiffer, WideEqual, Decode, BothWide, BothNarrow, Letters, Differ, InLoop
  <2> QED
    BY <2>1 DEF foldVars, vars, FoldInv, FoldTypeOK, TypeOK
<1>2. CASE pc # "panicked"
  <2>1. TypeOK
    BY <1>2 DEF FoldInv
  <2>2. /\ Len(a) \in Nat /\ Len(b) \in Nat
        /\ pa \in Nat /\ pa <= Len(a) /\ pb \in Nat /\ pb <= Len(b)
    BY <2>1, Lengths
  <2>3. CASE SamePointer
    BY <2>1, <2>3, FoldSettleKeeps DEF SamePointer, Orders
  <2>4. CASE New
    BY <2>1, <2>4, StartIs, FoldConsumeKeeps DEF New
  <2>5. CASE End
    <3>1. Cmp(Len(a) - pa, Len(b) - pb) \in Orders
      BY <2>2, CmpIs
    <3> QED
      BY <2>1, <2>5, <3>1, FoldSettleKeeps DEF End
  <2>6. ASSUME InLoop, BothDigits PROVE Fine(a, pa, b, pb, HandleDigits(a, pa, b, pb))
    BY <2>1, <2>6, Looping, HandleDigitsFine
  <2>7. CASE DigitsSettle
    <3>1. HandleDigits(a, pa, b, pb).order \in Orders
      BY <2>6, <2>7 DEF DigitsSettle, Fine, Unequal, Orders
    <3> QED
      BY <2>1, <2>7, <3>1, FoldSettleKeeps DEF DigitsSettle
  <2>8. CASE DigitsContinue
    <3> DEFINE by == HandleDigits(a, pa, b, pb).by
    <3>1. Consume(pa + by, pb + by)
      BY <2>8 DEF DigitsContinue
    <3>2. by \in Nat /\ pa + by <= Len(a) /\ pb + by <= Len(b)
      BY <2>6, <2>8 DEF DigitsContinue, Fine
    <3> HIDE DEF by
    <3>3. pa + by \in 0 .. Len(a) /\ pb + by \in 0 .. Len(b)
      BY <2>2, <3>2
    <3> QED
      BY <2>1, <3>1, <3>3, FoldConsumeKeeps
  <2>9. CASE SkipWs
    <3>1. WsEnd(a, pa) \in pa .. Len(a) /\ WsEnd(b, pb) \in pb .. Len(b)
      BY <2>1, <2>2, Lengths, WsEndIs
    <3>2. WsEnd(a, pa) \in 0 .. Len(a) /\ WsEnd(b, pb) \in 0 .. Len(b)
      BY <2>2, <3>1
    <3> QED
      BY <2>1, <2>9, <3>2, FoldConsumeKeeps DEF SkipWs
  <2>10. CASE Boundary
    <3>1. Settle("Greater") \/ Settle("Less")
      BY <2>10 DEF Boundary
    <3> QED
      BY <2>1, <3>1, FoldSettleKeeps DEF Orders
  <2>11. CASE Advance \/ FoldEqual
    <3>1. InLoop /\ Consume(pa + 1, pb + 1)
      BY <2>11 DEF Advance, FoldEqual, BothNarrow, Letters, Differ
    <3>2. pa + 1 \in 0 .. Len(a) /\ pb + 1 \in 0 .. Len(b)
      BY <2>1, <2>2, <3>1, Looping
    <3> QED
      BY <2>1, <3>1, <3>2, FoldConsumeKeeps
  <2>12. CASE DigitMismatch \/ OneWide
    <3>1. InLoop /\ Settle(Cmp(ca, cb))
      BY <2>12 DEF DigitMismatch, OneWide, Letters, Differ
    <3>2. Cmp(ca, cb) \in Orders
      BY <2>1, <3>1, Looping, CmpIs
    <3> QED
      BY <2>1, <3>1, <3>2, FoldSettleKeeps
  <2>13. CASE FoldDiffer
    <3>1. InLoop /\ Settle(Cmp(LowerAscii(ca), LowerAscii(cb)))
      BY <2>13 DEF FoldDiffer, BothNarrow, Letters, Differ
    <3>2. LowerAscii(ca) \in Int /\ LowerAscii(cb) \in Int
      BY <2>1, <3>1, Looping DEF LowerAscii
    <3> QED
      BY <2>1, <3>1, <3>2, CmpIs, FoldSettleKeeps
  <2>14. CASE Panic
    <3>1. pc' = "panicked" /\ UNCHANGED <<a, b, pa, pb, res>>
      BY <2>14 DEF Panic
    <3> QED
      BY <3>1 DEF FoldInv, FoldTypeOK
  <2>15. CASE WideDiffer
    <3>1. Settle("Less") \/ Settle("Greater")
      BY <2>15 DEF WideDiffer
    <3> QED
      BY <2>1, <3>1, FoldSettleKeeps DEF Orders
  <2>16. CASE WideEqual
    <3>1. BothWide /\ ~ Cut(a, pa) /\ ~ Cut(b, pb)
      BY <2>16 DEF WideEqual, Decode
    <3> QED
      BY <2>1, <2>16, <3>1, SliceWhole, FoldConsumeKeeps DEF WideEqual
  <2>17. CASE UNCHANGED foldVars
    BY <2>17 DEF foldVars, vars, FoldInv, FoldTypeOK, TypeOK
  <2> QED
    BY <2>3, <2>4, <2>5, <2>7, <2>8, <2>9, <2>10, <2>11, <2>12, <2>13, <2>14, <2>15,
       <2>16, <2>17 DEF FoldNext, FoldStep, FoldIterate, FoldIdle
<1> QED
  BY <1>1, <1>2

-------------------------------------------------------------------------------

\* The folding comparison reads and slices within bounds on any bytes: where it cannot,
\* it has panicked and reads no more.
THEOREM FoldTypeCorrect == FoldSpec => []FoldTypeOK
<1>1. FoldInv => FoldTypeOK
  BY DEF FoldInv
<1> QED
  BY <1>1, FoldInitInv, FoldInductive, PTL DEF FoldSpec

-------------------------------------------------------------------------------
(***************************************************************************)
(* Texts and their bytes.                                                   *)
(***************************************************************************)
\* The parts joined so far, for every number of them.
Joins(g, x, T) ==
  /\ g \in [0 .. Len(x) -> Seq(T)]
  /\ g[0] = <<>>
  /\ \A n \in 1 .. Len(x) : g[n] = g[n - 1] \o x[n]

LEMMA JoinsExist ==
  ASSUME NEW T, NEW x \in Seq(Seq(T))
  PROVE  \E g : Joins(g, x, T)
<1> DEFINE m == Len(x)
           join == [v \in Seq(T) \X (1 .. m) |-> v[1] \o x[v[2]]]
<1>1. m \in Nat /\ \A n \in 1 .. m : x[n] \in Seq(T)
  OBVIOUS
<1>2. <<>> \in Seq(T)
  OBVIOUS
<1> HIDE DEF m
<1>3. ASSUME NEW u \in Seq(T), NEW n \in 1 .. m
      PROVE  u \o x[n] \in Seq(T) /\ join[<<u, n>>] = u \o x[n]
  <2>1. x[n] \in Seq(T)
    BY <1>1
  <2>2. u \o x[n] \in Seq(T)
    BY <2>1, ConcatProperties
  <2> QED
    BY <2>2
<1>4. join \in [Seq(T) \X (1 .. m) -> Seq(T)]
  BY <1>1
<1> HIDE DEF join
<1>5. Stepping(Seq(T), <<>>, m, join)
  BY <1>1, <1>2, <1>4 DEF Stepping
<1>6. PICK g : Steps(g, Seq(T), <<>>, m, join)
  BY <1>5, Recursion
<1>7. /\ g \in [0 .. m -> Seq(T)] /\ g[0] = <<>>
      /\ \A n \in 1 .. m : g[n] = join[<<g[n - 1], n>>]
  BY <1>6 DEF Steps
<1>8. ASSUME NEW n \in 1 .. m PROVE g[n - 1] \in Seq(T)
  BY <1>1, <1>7
<1>9. \A n \in 1 .. m : g[n] = g[n - 1] \o x[n]
  BY <1>3, <1>7, <1>8
<1> QED
  BY <1>7, <1>9 DEF Joins, m

\* FlattenSeq joins them all.
LEMMA FlattenIs ==
  ASSUME NEW T, NEW x \in Seq(Seq(T)), NEW g, Joins(g, x, T)
  PROVE  Seqs!FlattenSeq(x) = g[Len(x)]
<1> DEFINE m == Len(x)
           Body(f) == [i \in 1 .. Len(x) |-> IF i = 1 THEN x[i] ELSE f[i - 1] \o x[i]]
<1>1. m \in Nat /\ \A n \in 1 .. m : x[n] \in Seq(T)
  OBVIOUS
<1>2. /\ g \in [0 .. m -> Seq(T)] /\ g[0] = <<>>
      /\ \A n \in 1 .. m : g[n] = g[n - 1] \o x[n]
  BY DEF Joins
<1>3. CASE m = 0
  <2>1. x = <<>>
    BY <1>3, EmptySeq
  <2> QED
    BY <1>2, <1>3, <2>1 DEF Seqs!FlattenSeq
<1>4. CASE m # 0
  <2> DEFINE h == [i \in 1 .. Len(x) |-> g[i]]
             flat == CHOOSE f : f = Body(f)
  <2>1. Seqs!FlattenSeq(x) = flat[Len(x)]
    BY <1>4 DEF Seqs!FlattenSeq
  <2>2. g[1] = x[1]
    <3>1. g[1] = <<>> \o x[1] /\ x[1] \in Seq(T)
      <4>1. 1 \in 1 .. m /\ 1 - 1 = 0
        BY <1>1, <1>4
      <4> QED
        BY <1>1, <1>2, <4>1
    <3> QED
      BY <3>1, ConcatEmptySeq
  <2>3. h = Body(h)
    <3>1. ASSUME NEW i \in 1 .. m PROVE h[i] = Body(h)[i]
      <4>1. CASE i = 1
        BY <2>2, <4>1
      <4>2. CASE i # 1
        <5>1. i - 1 \in 1 .. m
          BY <1>1, <4>2
        <5> QED
          BY <1>2, <4>2, <5>1
      <4> QED
        BY <4>1, <4>2
    <3> QED
      BY <3>1
  <2>4. flat = Body(flat)
    <3> HIDE DEF Body
    <3> QED
      BY <2>3
  <2> HIDE DEF flat
  <2>5. \A i \in 1 .. m : flat[i] = IF i = 1 THEN x[i] ELSE flat[i - 1] \o x[i]
    BY <2>4
  <2> DEFINE S == {n \in Nat : n + 1 <= m => flat[n + 1] = g[n + 1]}
  <2>6. 0 \in S
    BY <1>1, <1>4, <2>2, <2>5
  <2>7. ASSUME NEW n \in Nat, n \in S PROVE n + 1 \in S
    <3>1. SUFFICES ASSUME (n + 1) + 1 <= m PROVE flat[(n + 1) + 1] = g[(n + 1) + 1]
      OBVIOUS
    <3>2. (n + 1) + 1 \in 1 .. m /\ (n + 1) + 1 # 1 /\ ((n + 1) + 1) - 1 = n + 1
      BY <1>1, <3>1
    <3>3. flat[n + 1] = g[n + 1]
      BY <1>1, <2>7, <3>1
    <3>4. flat[(n + 1) + 1] = flat[n + 1] \o x[(n + 1) + 1]
      BY <2>5, <3>2
    <3>5. g[(n + 1) + 1] = g[n + 1] \o x[(n + 1) + 1]
      BY <1>2, <3>2
    <3> QED
      BY <3>3, <3>4, <3>5
  <2>8. m - 1 \in S /\ (m - 1) + 1 = m
    <3>1. m - 1 \in Nat /\ (m - 1) + 1 = m
      BY <1>1, <1>4
    <3> HIDE DEF S
    <3> QED
      BY <2>6, <2>7, <3>1, Induction
  <2> QED
    BY <1>1, <2>1, <2>8
<1> QED
  BY <1>3, <1>4

\* The bytes of the first n characters of a text, for every n.
Prefixes(g, text) ==
  /\ g \in [0 .. Len(text) -> Seq(Byte)]
  /\ g[0] = <<>>
  /\ \A n \in 1 .. Len(text) : g[n] = g[n - 1] \o Encode(text[n])
  /\ g[Len(text)] = Bytes(text)

\* A number and its last digit to the base 64.
LEMMA LastDigit ==
  ASSUME NEW c \in Nat
  PROVE  /\ c \div 64 \in Nat /\ c % 64 \in Nat /\ c % 64 < 64
         /\ c = (c \div 64) * 64 + (c % 64)
OBVIOUS

LEMMA DivTwice == \A c \in Nat : (c \div 64) \div 64 = c \div 4096
OBVIOUS

LEMMA DivThrice == \A c \in Nat : (c \div 4096) \div 64 = c \div 262144
OBVIOUS

\* What a lead byte and a continuation byte hold.
LEMMA Payload ==
  /\ \A x \in 0 .. 63 : (128 + x) % 64 = x
  /\ \A x \in 0 .. 31 : (192 + x) % 32 = x
  /\ \A x \in 0 .. 15 : (224 + x) % 16 = x
  /\ \A x \in 0 .. 7 : (240 + x) % 8 = x
OBVIOUS

LEMMA CharLenIs ==
  ASSUME NEW c \in Nat
  PROVE  /\ c < 128 => CharLen(c) = 1
         /\ c \in 128 .. 223 => CharLen(c) = 2
         /\ c \in 224 .. 239 => CharLen(c) = 3
         /\ c >= 240 => CharLen(c) = 4
         /\ CharLen(c) \in 1 .. 4
         /\ Continuation(c) <=> c >= 128 /\ c < 192
<1>1. Continuation(c) <=> c >= 128 /\ c < 192
  BY DEF Continuation
<1>2. CASE c < 128
  BY <1>1, <1>2 DEF CharLen
<1>3. CASE c \in 128 .. 223
  BY <1>1, <1>3 DEF CharLen
<1>4. CASE c \in 224 .. 239
  BY <1>1, <1>4 DEF CharLen
<1>5. CASE c >= 240
  BY <1>1, <1>5 DEF CharLen
<1> QED
  BY <1>2, <1>3, <1>4, <1>5

LEMMA ByteIs ==
  ASSUME NEW s \in Seq(Byte), NEW k \in Nat, k < Len(s)
  PROVE  At(s, k) \in Nat /\ At(s, k) < 256 /\ CharLen(At(s, k)) \in 1 .. 4
<1>1. At(s, k) \in Byte
  BY AtByte
<1>2. \A c \in Byte : c \in Nat /\ c < 256
  BY DEF Byte
<1> QED
  BY <1>1, <1>2, CharLenIs

\* A character takes as many bytes as its first byte says; the others continue it, and
\* decoding them gives the character.
Encodes(u, c) ==
  /\ u \in Seq(Byte)
  /\ Len(u) \in 1 .. 4 /\ Len(u) = CharLen(At(u, 0))
  /\ ~ Continuation(At(u, 0))
  /\ \A k \in 1 .. Len(u) - 1 : Continuation(At(u, k))
  /\ CharAt(u, 0) = c

LEMMA EncodeIs ==
  ASSUME NEW c \in CodePoint
  PROVE  Encodes(Encode(c), c)
<1>1. c \in Nat /\ c <= 1114111
  <2>1. LastChar = 1114111
    BY DEF LastChar
  <2>2. LastChar \in Nat
    BY <2>1
  <2>3. c \in Nat /\ c <= LastChar
    BY <2>2 DEF CodePoint
  <2> QED
    BY <2>1, <2>3
<1> DEFINE d0 == c % 64
           d1 == (c \div 64) % 64
           d2 == (c \div 4096) % 64
           h1 == c \div 64
           h2 == c \div 4096
           h3 == c \div 262144
<1>2. /\ d0 \in 0 .. 63 /\ d1 \in 0 .. 63 /\ d2 \in 0 .. 63
      /\ h1 \in Nat /\ h2 \in Nat /\ h3 \in Nat
      /\ c = h1 * 64 + d0 /\ h1 = h2 * 64 + d1 /\ h2 = h3 * 64 + d2
  <2>1. h1 \in Nat /\ d0 \in Nat /\ d0 < 64 /\ c = h1 * 64 + d0
    BY <1>1, LastDigit
  <2>2. h1 \div 64 \in Nat /\ d1 \in Nat /\ d1 < 64 /\ h1 = (h1 \div 64) * 64 + d1
    BY <2>1, LastDigit
  <2>3. h1 \div 64 = h2
    BY <1>1, DivTwice
  <2>4. h2 \in Nat
    BY <2>2, <2>3
  <2>4a. h2 \div 64 \in Nat /\ d2 \in Nat /\ d2 < 64 /\ h2 = (h2 \div 64) * 64 + d2
    BY <2>4, LastDigit
  <2>5. h2 \div 64 = h3
    BY <1>1, DivThrice
  <2> HIDE DEF d0, d1, d2, h1, h2, h3
  <2> QED
    BY <2>1, <2>2, <2>3, <2>4, <2>4a, <2>5
<1>3. Encode(c) = IF c < 128 THEN <<c>>
                  ELSE IF c < 2048 THEN <<192 + h1, 128 + d0>>
                  ELSE IF c < 65536 THEN <<224 + h2, 128 + d1, 128 + d0>>
                  ELSE <<240 + h3, 128 + d2, 128 + d1, 128 + d0>>
  <2> HIDE DEF d0, d1, d2, h1, h2, h3
  <2>1. CASE c < 128
    BY <1>1, <2>1 DEF Encode
  <2>2. CASE c >= 128 /\ c < 2048
    BY <1>1, <2>2 DEF Encode, h1, d0
  <2>3. CASE c >= 2048 /\ c < 65536
    BY <1>1, <2>3 DEF Encode, h2, d1, d0
  <2>4. CASE c >= 65536
    BY <1>1, <2>4 DEF Encode, h3, d2, d1, d0
  <2> QED
    BY <1>1, <2>1, <2>2, <2>3, <2>4
<1> HIDE DEF d0, d1, d2, h1, h2, h3
<1>4. CASE c < 128
  <2>1. Encode(c) = <<c>> /\ c \in Byte
    BY <1>1, <1>3, <1>4 DEF Byte
  <2> QED
    BY <1>1, <1>4, <2>1 DEF Encodes, CharLen, CharAt, At, Continuation
<1>5. CASE c >= 128 /\ c < 2048
  <2>1. Encode(c) = <<192 + h1, 128 + d0>>
    BY <1>1, <1>3, <1>5
  <2>2. h1 \in 0 .. 31 /\ h1 >= 2
    BY <1>1, <1>2, <1>5
  <2>3. (192 + h1) % 32 = h1 /\ (128 + d0) % 64 = d0
    BY <1>2, <2>2, Payload
  <2>4. 192 + h1 \in Byte /\ 128 + d0 \in Byte
    BY <1>2, <2>2 DEF Byte
  <2>5. CharLen(192 + h1) = 2 /\ ~ Continuation(192 + h1) /\ Continuation(128 + d0)
    BY <1>2, <2>2, CharLenIs
  <2> DEFINE u == Encode(c)
  <2>6. /\ u \in Seq(Byte) /\ Len(u) = 2 /\ At(u, 0) = 192 + h1 /\ At(u, 1) = 128 + d0
        /\ At(u, 0 + 1) = 128 + d0
    BY <2>1, <2>4 DEF At
  <2>7. CharAt(u, 0) = ((192 + h1) % 32) * 64 + ((128 + d0) % 64)
    BY <2>5, <2>6 DEF CharAt
  <2>8. CharAt(u, 0) = c
    BY <1>2, <2>3, <2>7
  <2> QED
    BY <2>5, <2>6, <2>8 DEF Encodes
<1>6. CASE c >= 2048 /\ c < 65536
  <2>1. Encode(c) = <<224 + h2, 128 + d1, 128 + d0>>
    BY <1>1, <1>3, <1>6
  <2>2. h2 \in 0 .. 15
    BY <1>1, <1>2, <1>6
  <2>3. (224 + h2) % 16 = h2 /\ (128 + d1) % 64 = d1 /\ (128 + d0) % 64 = d0
    BY <1>2, <2>2, Payload
  <2>4. 224 + h2 \in Byte /\ 128 + d1 \in Byte /\ 128 + d0 \in Byte
    BY <1>2, <2>2 DEF Byte
  <2>5. /\ CharLen(224 + h2) = 3 /\ ~ Continuation(224 + h2)
        /\ Continuation(128 + d1) /\ Continuation(128 + d0)
    BY <1>2, <2>2, CharLenIs
  <2> DEFINE u == Encode(c)
  <2>6. /\ u \in Seq(Byte) /\ Len(u) = 3
        /\ At(u, 0) = 224 + h2 /\ At(u, 1) = 128 + d1 /\ At(u, 2) = 128 + d0
        /\ At(u, 0 + 1) = 128 + d1 /\ At(u, 0 + 2) = 128 + d0
    BY <2>1, <2>4 DEF At
  <2>7. CharAt(u, 0) = ((224 + h2) % 16) * 4096 + ((128 + d1) % 64) * 64 + ((128 + d0) % 64)
    BY <2>5, <2>6 DEF CharAt
  <2>8. CharAt(u, 0) = c
    BY <1>2, <2>3, <2>7
  <2>9. \A k \in 1 .. Len(u) - 1 : Continuation(At(u, k))
    <3>1. \A k \in 1 .. Len(u) - 1 : k = 1 \/ k = 2
      BY <2>6
    <3> QED
      BY <2>5, <2>6, <3>1
  <2> QED
    BY <2>5, <2>6, <2>8, <2>9 DEF Encodes
<1>7. CASE c >= 65536
  <2>1. Encode(c) = <<240 + h3, 128 + d2, 128 + d1, 128 + d0>>
    BY <1>1, <1>3, <1>7
  <2>2. h3 \in 0 .. 7
    BY <1>1, <1>2
  <2>3. /\ (240 + h3) % 8 = h3 /\ (128 + d2) % 64 = d2
        /\ (128 + d1) % 64 = d1 /\ (128 + d0) % 64 = d0
    BY <1>2, <2>2, Payload
  <2>4. 240 + h3 \in Byte /\ 128 + d2 \in Byte /\ 128 + d1 \in Byte /\ 128 + d0 \in Byte
    BY <1>2, <2>2 DEF Byte
  <2>5. /\ CharLen(240 + h3) = 4 /\ ~ Continuation(240 + h3)
        /\ Continuation(128 + d2) /\ Continuation(128 + d1) /\ Continuation(128 + d0)
    BY <1>2, <2>2, CharLenIs
  <2> DEFINE u == Encode(c)
  <2>6. /\ u \in Seq(Byte) /\ Len(u) = 4
        /\ At(u, 0) = 240 + h3 /\ At(u, 1) = 128 + d2 /\ At(u, 2) = 128 + d1
        /\ At(u, 3) = 128 + d0
        /\ At(u, 0 + 1) = 128 + d2 /\ At(u, 0 + 2) = 128 + d1 /\ At(u, 0 + 3) = 128 + d0
    BY <2>1, <2>4 DEF At
  <2>7. CharAt(u, 0) = ((240 + h3) % 8) * 262144 + ((128 + d2) % 64) * 4096
                         + ((128 + d1) % 64) * 64 + ((128 + d0) % 64)
    BY <2>5, <2>6 DEF CharAt
  <2>8. CharAt(u, 0) = c
    BY <1>2, <2>3, <2>7
  <2>9. \A k \in 1 .. Len(u) - 1 : Continuation(At(u, k))
    <3>1. \A k \in 1 .. Len(u) - 1 : k = 1 \/ k = 2 \/ k = 3
      BY <2>6
    <3> QED
      BY <2>5, <2>6, <3>1
  <2> QED
    BY <2>5, <2>6, <2>8, <2>9 DEF Encodes
<1> QED
  BY <1>1, <1>4, <1>5, <1>6, <1>7

-------------------------------------------------------------------------------
(***************************************************************************)
(* Well-formed UTF-8, of which every str is made: where a character begins  *)
(* the whole of it is there, and every other byte is a part of one.         *)
(***************************************************************************)
Whole(s, i) ==
  /\ i + CharLen(At(s, i)) <= Len(s)
  /\ \A k \in 1 .. CharLen(At(s, i)) - 1 : Continuation(At(s, i + k))
  /\ CharAt(s, i) \in CodePoint

Covers(s, i, k) == i < k /\ k < i + CharLen(At(s, i))

WellFormed(s) ==
  /\ \A i \in Starts(s) : Whole(s, i)
  /\ \A k \in 0 .. Len(s) - 1 : Continuation(At(s, k)) => \E i \in Starts(s) : Covers(s, i, k)

\* The n bytes of s from p are those of t from q (SameRun), and they hold a character.
LEMMA SameChar ==
  ASSUME NEW s \in Seq(Byte), NEW t \in Seq(Byte), NEW p \in Nat, NEW q \in Nat, p < Len(s),
         SameRun(s, p, t, q, CharLen(At(s, p)))
  PROVE  At(s, p) = At(t, q) /\ CharAt(s, p) = CharAt(t, q)
<1> DEFINE c == At(s, p)
           n == CharLen(c)
<1>1. c \in Nat /\ n \in 1 .. 4
  BY ByteIs
<1>2. n \in 1 .. 4
  BY <1>1
<1> HIDE DEF n
<1>3. \A k \in 0 .. n - 1 : At(s, p + k) = At(t, q + k)
  BY DEF SameRun, n
<1>4. At(t, q) = c
  <2>1. 0 \in 0 .. n - 1 /\ p + 0 = p /\ q + 0 = q
    BY <1>2
  <2> QED
    BY <1>3, <2>1
<1>5. n >= 2 => At(s, p + 1) = At(t, q + 1)
  BY <1>2, <1>3
<1>6. n >= 3 => At(s, p + 2) = At(t, q + 2)
  BY <1>2, <1>3
<1>7. n >= 4 => At(s, p + 3) = At(t, q + 3)
  BY <1>2, <1>3
<1>8. CASE n = 1
  BY <1>4, <1>8 DEF CharAt, n
<1>9. CASE n = 2
  BY <1>4, <1>5, <1>9 DEF CharAt, n
<1>10. CASE n = 3
  BY <1>4, <1>5, <1>6, <1>10 DEF CharAt, n
<1>11. CASE n = 4
  BY <1>4, <1>5, <1>6, <1>7, <1>11 DEF CharAt, n
<1> QED
  BY <1>2, <1>4, <1>8, <1>9, <1>10, <1>11

LEMMA JoinAt ==
  ASSUME NEW s \in Seq(Byte), NEW u \in Seq(Byte)
  PROVE  /\ s \o u \in Seq(Byte) /\ Len(s \o u) = Len(s) + Len(u)
         /\ Len(s) \in Nat /\ Len(u) \in Nat
         /\ \A k \in 0 .. Len(s) - 1 : At(s \o u, k) = At(s, k)
         /\ \A k \in 0 .. Len(u) - 1 : At(s \o u, Len(s) + k) = At(u, k)
<1>1. Len(s) \in Nat /\ Len(u) \in Nat
  OBVIOUS
<1>2. /\ s \o u \in Seq(Byte) /\ Len(s \o u) = Len(s) + Len(u)
      /\ \A i \in 1 .. Len(s) + Len(u) :
           (s \o u)[i] = IF i <= Len(s) THEN s[i] ELSE u[i - Len(s)]
  BY ConcatProperties
<1>3. ASSUME NEW k \in 0 .. Len(s) - 1 PROVE At(s \o u, k) = At(s, k)
  <2>1. k + 1 \in 1 .. Len(s) + Len(u) /\ k + 1 <= Len(s)
    BY <1>1
  <2> QED
    BY <1>2, <2>1 DEF At
<1>4. ASSUME NEW k \in 0 .. Len(u) - 1 PROVE At(s \o u, Len(s) + k) = At(u, k)
  <2>1. /\ (Len(s) + k) + 1 \in 1 .. Len(s) + Len(u) /\ ~ ((Len(s) + k) + 1 <= Len(s))
        /\ ((Len(s) + k) + 1) - Len(s) = k + 1
    BY <1>1
  <2> QED
    BY <1>2, <2>1 DEF At
<1> QED
  BY <1>1, <1>2, <1>3, <1>4

\* One more character leaves it well-formed.
LEMMA JoinedWellFormed ==
  ASSUME NEW s \in Seq(Byte), WellFormed(s), NEW c \in CodePoint, NEW u, Encodes(u, c)
  PROVE  s \o u \in Seq(Byte) /\ WellFormed(s \o u)
<1> DEFINE t == s \o u
           m == Len(s)
           n == Len(u)
<1>1. /\ u \in Seq(Byte) /\ n \in 1 .. 4 /\ n = CharLen(At(u, 0)) /\ ~ Continuation(At(u, 0))
      /\ \A k \in 1 .. n - 1 : Continuation(At(u, k))
      /\ CharAt(u, 0) = c
  BY DEF Encodes
<1>2. /\ t \in Seq(Byte) /\ Len(t) = m + n /\ m \in Nat
      /\ \A k \in 0 .. m - 1 : At(t, k) = At(s, k)
      /\ \A k \in 0 .. n - 1 : At(t, m + k) = At(u, k)
  BY <1>1, JoinAt
<1>3. \A k \in 0 .. m + n - 1 : k \in 0 .. m - 1 \/ \E j \in 0 .. n - 1 : k = m + j
  <2> SUFFICES ASSUME NEW k \in 0 .. m + n - 1, k \notin 0 .. m - 1
               PROVE  k - m \in 0 .. n - 1 /\ k = m + (k - m)
    OBVIOUS
  <2> QED
    BY <1>1, <1>2
<1> HIDE DEF t, m, n
<1>4. At(t, m) = At(u, 0)
  <2>1. 0 \in 0 .. n - 1 /\ m + 0 = m
    BY <1>1, <1>2
  <2> QED
    BY <1>2, <2>1
<1>5. Starts(t) = Starts(s) \union {m}
  <2>1. ASSUME NEW k \in Starts(s) PROVE k \in Starts(t)
    <3>1. k \in 0 .. m - 1 /\ ~ Continuation(At(s, k))
      BY DEF Starts, m
    <3>2. k \in 0 .. Len(t) - 1
      BY <1>1, <1>2, <3>1
    <3> QED
      BY <1>2, <3>1, <3>2 DEF Starts
  <2>2. m \in Starts(t)
    <3>1. m \in 0 .. Len(t) - 1
      BY <1>1, <1>2
    <3> QED
      BY <1>1, <1>4, <3>1 DEF Starts
  <2>3. ASSUME NEW k \in Starts(t), k \notin Starts(s) PROVE k = m
    <3>1. k \in 0 .. m + n - 1 /\ ~ Continuation(At(t, k))
      <4>1. k \in 0 .. Len(t) - 1 /\ ~ Continuation(At(t, k))
        BY <2>3 DEF Starts
      <4> QED
        BY <1>1, <1>2, <4>1
    <3>2. k \notin 0 .. m - 1
      BY <1>2, <2>3, <3>1 DEF Starts, m
    <3>3. PICK j \in 0 .. n - 1 : k = m + j
      BY <1>3, <3>1, <3>2
    <3>4. ~ Continuation(At(u, j))
      BY <1>2, <3>1, <3>3
    <3>5. j = 0
      BY <1>1, <3>4
    <3> QED
      BY <1>2, <3>3, <3>5
  <2> QED
    BY <2>1, <2>2, <2>3
<1>6. ASSUME NEW i \in Starts(t) PROVE Whole(t, i)
  <2>1. CASE i \in Starts(s)
    <3>1. i \in 0 .. m - 1 /\ i \in Nat /\ i < Len(s)
      BY <2>1, <1>2 DEF Starts, m
    <3>2. Whole(s, i) /\ At(t, i) = At(s, i)
      BY <1>2, <2>1, <3>1 DEF WellFormed
    <3> DEFINE l == CharLen(At(s, i))
    <3>3. l \in 1 .. 4
      BY <3>1, ByteIs
    <3>4. i + l <= m
      BY <3>2 DEF Whole, m
    <3>5. \A k \in 0 .. l - 1 : At(s, i + k) = At(t, i + k)
      <4> SUFFICES ASSUME NEW k \in 0 .. l - 1 PROVE At(s, i + k) = At(t, i + k)
        OBVIOUS
      <4>1. i + k \in 0 .. m - 1
        BY <1>2, <3>1, <3>3, <3>4
      <4> QED
        BY <1>2, <4>1
    <3>6. CharAt(t, i) = CharAt(s, i)
      BY <1>2, <3>1, <3>5, SameChar DEF SameRun
    <3>7. \A k \in 1 .. l - 1 : Continuation(At(t, i + k))
      BY <3>2, <3>3, <3>5 DEF Whole
    <3>8. i + l <= Len(t)
      BY <1>1, <1>2, <3>1, <3>3, <3>4
    <3> QED
      BY <3>2, <3>6, <3>7, <3>8 DEF Whole
  <2>2. CASE i = m
    <3>1. \A k \in 0 .. n - 1 : At(u, 0 + k) = At(t, m + k)
      BY <1>2
    <3>2. CharAt(t, m) = CharAt(u, 0)
      <4>1. 0 \in Nat /\ 0 < Len(u) /\ SameRun(u, 0, t, m, CharLen(At(u, 0)))
        BY <1>1, <3>1 DEF SameRun, n
      <4> QED
        BY <1>1, <1>2, <4>1, SameChar
    <3>3. CharLen(At(t, m)) = n
      BY <1>1, <1>4
    <3>4. \A k \in 1 .. n - 1 : Continuation(At(t, m + k))
      BY <1>1, <1>2
    <3> QED
      BY <1>1, <1>2, <2>2, <3>2, <3>3, <3>4 DEF Whole
  <2> QED
    BY <1>5, <2>1, <2>2
<1>7. ASSUME NEW k \in 0 .. Len(t) - 1, Continuation(At(t, k))
      PROVE  \E i \in Starts(t) : Covers(t, i, k)
  <2>1. CASE k \in 0 .. m - 1
    <3>1. Continuation(At(s, k))
      BY <1>2, <1>7, <2>1
    <3>2. PICK i \in Starts(s) : Covers(s, i, k)
      BY <2>1, <3>1 DEF WellFormed, m
    <3>3. i \in 0 .. m - 1
      BY <3>2 DEF Starts, m
    <3> QED
      BY <1>2, <1>5, <3>2, <3>3 DEF Covers
  <2>2. CASE k \notin 0 .. m - 1
    <3>0. k \in 0 .. m + n - 1
      BY <1>1, <1>2
    <3>1. PICK j \in 0 .. n - 1 : k = m + j
      BY <1>3, <2>2, <3>0
    <3>2. Continuation(At(u, j))
      BY <1>2, <1>7, <3>1
    <3>3. j # 0
      BY <1>1, <3>2
    <3>4. CharLen(At(t, m)) = n
      BY <1>1, <1>4
    <3>5. Covers(t, m, k)
      BY <1>1, <1>2, <3>1, <3>3, <3>4 DEF Covers
    <3> QED
      BY <1>5, <3>5
  <2> QED
    BY <2>1, <2>2
<1> QED
  BY <1>2, <1>6, <1>7 DEF WellFormed, t

LEMMA PrefixesExist ==
  ASSUME NEW text \in Seq(CodePoint)
  PROVE  \E g : Prefixes(g, text)
<1> DEFINE x == [k \in 1 .. Len(text) |-> Encode(text[k])]
<1>1. Len(text) \in Nat /\ \A k \in 1 .. Len(text) : text[k] \in CodePoint
  OBVIOUS
<1>2. \A k \in 1 .. Len(text) : Encode(text[k]) \in Seq(Byte)
  BY <1>1, EncodeIs DEF Encodes
<1>3. x \in Seq(Seq(Byte)) /\ Len(x) = Len(text)
  BY <1>1, <1>2
<1>4. \A k \in 1 .. Len(text) : x[k] = Encode(text[k])
  OBVIOUS
<1>5. Bytes(text) = Seqs!FlattenSeq(x)
  BY DEF Bytes
<1> HIDE DEF x
<1>6. PICK g : Joins(g, x, Byte)
  BY <1>3, JoinsExist
<1>7. Bytes(text) = g[Len(text)]
  BY <1>3, <1>5, <1>6, FlattenIs
<1> QED
  BY <1>3, <1>4, <1>6, <1>7 DEF Joins, Prefixes

\* The bytes of a text are well-formed.
LEMMA PrefixesWellFormed ==
  ASSUME NEW text \in Seq(CodePoint), NEW g, Prefixes(g, text), NEW n \in 0 .. Len(text)
  PROVE  g[n] \in Seq(Byte) /\ WellFormed(g[n])
<1> DEFINE S == {k \in Nat : k <= Len(text) => WellFormed(g[k])}
<1>1. Len(text) \in Nat /\ \A k \in 1 .. Len(text) : text[k] \in CodePoint
  OBVIOUS
<1>2. /\ g \in [0 .. Len(text) -> Seq(Byte)] /\ g[0] = <<>>
      /\ \A k \in 1 .. Len(text) : g[k] = g[k - 1] \o Encode(text[k])
  BY DEF Prefixes
<1>3. 0 \in S
  <2>1. WellFormed(<<>>)
    BY DEF WellFormed, Starts
  <2> QED
    BY <1>2, <2>1
<1>4. ASSUME NEW k \in Nat, k \in S PROVE k + 1 \in S
  <2>1. SUFFICES ASSUME k + 1 <= Len(text) PROVE WellFormed(g[k + 1])
    OBVIOUS
  <2>2. k + 1 \in 1 .. Len(text) /\ (k + 1) - 1 = k /\ k \in 0 .. Len(text)
    BY <1>1, <2>1
  <2>3. g[k] \in Seq(Byte) /\ WellFormed(g[k])
    BY <1>2, <1>4, <2>2
  <2>4. text[k + 1] \in CodePoint /\ Encodes(Encode(text[k + 1]), text[k + 1])
    BY <1>1, <2>2, EncodeIs
  <2>5. WellFormed(g[k] \o Encode(text[k + 1]))
    BY <2>3, <2>4, JoinedWellFormed
  <2> QED
    BY <1>2, <2>2, <2>5
<1>5. n \in S
  <2> HIDE DEF S
  <2> QED
    BY <1>3, <1>4, Induction
<1> QED
  BY <1>1, <1>2, <1>5

LEMMA BytesWellFormed ==
  ASSUME NEW text \in Seq(CodePoint)
  PROVE  Bytes(text) \in Seq(Byte) /\ WellFormed(Bytes(text))
<1>1. PICK g : Prefixes(g, text)
  BY PrefixesExist
<1>2. g[Len(text)] = Bytes(text) /\ Len(text) \in 0 .. Len(text)
  BY <1>1 DEF Prefixes
<1> QED
  BY <1>1, <1>2, PrefixesWellFormed

-------------------------------------------------------------------------------
(***************************************************************************)
(* Where the two pointers are.  The prefix skip and the step over equal     *)
(* bytes go by bytes, so a pointer may come to rest within a character; but *)
(* both are then behind the same bytes of characters that begin alike.      *)
(***************************************************************************)
\* No character goes on at k.
Between(s, k) == k = Len(s) \/ ~ Continuation(At(s, k))

LEMMA CharEnds ==
  ASSUME NEW s \in Seq(Byte), WellFormed(s), NEW i \in Starts(s)
  PROVE  /\ i + CharLen(At(s, i)) \in 0 .. Len(s)
         /\ Between(s, i + CharLen(At(s, i)))
<1> DEFINE e == i + CharLen(At(s, i))
<1>1. i \in Nat /\ i < Len(s) /\ Len(s) \in Nat /\ ~ Continuation(At(s, i))
  BY DEF Starts
<1>2. CharLen(At(s, i)) \in 1 .. 4
  BY <1>1, ByteIs
<1>3. e \in 0 .. Len(s)
  BY <1>1, <1>2 DEF WellFormed, Whole
<1>4. ASSUME e # Len(s), Continuation(At(s, e)) PROVE FALSE
  <2>1. e \in 0 .. Len(s) - 1
    BY <1>1, <1>3, <1>4
  <2>2. PICK j \in Starts(s) : Covers(s, j, e)
    BY <1>4, <2>1 DEF WellFormed
  <2>3. j \in Nat /\ j < Len(s) /\ ~ Continuation(At(s, j)) /\ CharLen(At(s, j)) \in 1 .. 4
    BY <1>1, ByteIs DEF Starts
  <2>4. j < e /\ e < j + CharLen(At(s, j))
    BY <2>2 DEF Covers
  <2>5. CASE j < i
    <3>1. i - j \in 1 .. CharLen(At(s, j)) - 1 /\ j + (i - j) = i
      BY <1>1, <1>2, <2>3, <2>4, <2>5
    <3> QED
      BY <1>1, <3>1 DEF WellFormed, Whole
  <2>6. CASE j = i
    BY <1>1, <1>2, <2>4, <2>6
  <2>7. CASE j > i
    <3>1. j - i \in 1 .. CharLen(At(s, i)) - 1 /\ i + (j - i) = j
      BY <1>1, <1>2, <2>3, <2>4, <2>7
    <3> QED
      BY <2>3, <3>1 DEF WellFormed, Whole
  <2> QED
    BY <1>1, <2>3, <2>5, <2>6, <2>7
<1> QED
  BY <1>3, <1>4 DEF Between

\* A character below 128 is one byte.
LEMMA NarrowEnds ==
  ASSUME NEW s \in Seq(Byte), WellFormed(s), NEW i \in Nat, i < Len(s), At(s, i) < 128
  PROVE  i + 1 \in 0 .. Len(s) /\ Between(s, i + 1)
<1>1. At(s, i) \in Nat /\ CharLen(At(s, i)) = 1 /\ ~ Continuation(At(s, i))
  BY ByteIs, CharLenIs
<1>2. i \in Starts(s)
  BY <1>1 DEF Starts
<1> QED
  BY <1>1, <1>2, CharEnds

\* Two texts in which characters that begin with the same byte are the same.
TwoTexts(s, t) ==
  /\ s \in Seq(Byte) /\ t \in Seq(Byte) /\ WellFormed(s) /\ WellFormed(t)
  /\ \A i \in Starts(s), j \in Starts(t) : At(s, i) = At(t, j) => CharAt(s, i) = CharAt(t, j)

AlignedBy(s, x, t, y, k) ==
  /\ k <= x /\ k <= y
  /\ Between(s, x - k) /\ Between(t, y - k)
  /\ SameRun(s, x - k, t, y - k, k)
  /\ k > 0 => k < CharLen(At(s, x - k))

Aligned(s, x, t, y) ==
  /\ x \in 0 .. Len(s) /\ y \in 0 .. Len(t)
  /\ \E k \in 0 .. 3 : AlignedBy(s, x, t, y, k)

LEMMA BetweenAligned ==
  ASSUME NEW s, NEW t, NEW x \in 0 .. Len(s), NEW y \in 0 .. Len(t), Between(s, x), Between(t, y)
  PROVE  Aligned(s, x, t, y)
<1>1. x - 0 = x /\ y - 0 = y
  OBVIOUS
<1>2. AlignedBy(s, x, t, y, 0)
  BY <1>1 DEF AlignedBy, SameRun
<1> QED
  BY <1>2 DEF Aligned

LEMMA AlignedStep ==
  ASSUME NEW s, NEW t, TwoTexts(s, t), NEW x, NEW y, Aligned(s, x, t, y),
         x < Len(s), y < Len(t), At(s, x) = At(t, y)
  PROVE  Aligned(s, x + 1, t, y + 1)
<1>1. /\ s \in Seq(Byte) /\ t \in Seq(Byte) /\ WellFormed(s) /\ WellFormed(t)
      /\ Len(s) \in Nat /\ Len(t) \in Nat /\ x \in Nat /\ y \in Nat
      /\ x + 1 \in 0 .. Len(s) /\ y + 1 \in 0 .. Len(t)
  BY DEF TwoTexts, Aligned
<1>2. PICK k \in 0 .. 3 : AlignedBy(s, x, t, y, k)
  BY DEF Aligned
<1> DEFINE i == x - k
           j == y - k
           l == CharLen(At(s, i))
<1>3. /\ i \in Nat /\ j \in Nat /\ i < Len(s) /\ j < Len(t) /\ i + k = x /\ j + k = y
      /\ ~ Continuation(At(s, i)) /\ ~ Continuation(At(t, j)) /\ SameRun(s, i, t, j, k)
      /\ k > 0 => k < l
  BY <1>1, <1>2 DEF AlignedBy, Between
<1>4. l \in 1 .. 4 /\ i \in Starts(s) /\ j \in Starts(t)
  BY <1>1, <1>3, ByteIs DEF Starts
<1>5. k < l
  BY <1>3, <1>4
<1>6. SameRun(s, i, t, j, k + 1)
  <2>1. ASSUME NEW n \in 0 .. (k + 1) - 1 PROVE At(s, i + n) = At(t, j + n)
    <3>1. n = k \/ n \in 0 .. k - 1
      OBVIOUS
    <3> QED
      BY <1>3, <3>1 DEF SameRun
  <2> QED
    BY <2>1 DEF SameRun
<1>7. At(s, i) = At(t, j)
  <2>1. 0 \in 0 .. (k + 1) - 1 /\ i + 0 = i /\ j + 0 = j
    BY <1>3
  <2> QED
    BY <1>6, <2>1 DEF SameRun
<1>8. (x + 1) - (k + 1) = i /\ (y + 1) - (k + 1) = j /\ k + 1 <= x + 1 /\ k + 1 <= y + 1
  BY <1>1, <1>3
<1>9. CASE k + 1 < l
  <2>1. k + 1 \in 0 .. 3
    BY <1>4, <1>9
  <2>2. AlignedBy(s, x + 1, t, y + 1, k + 1)
    BY <1>3, <1>6, <1>8, <1>9 DEF AlignedBy, Between
  <2> QED
    BY <1>1, <2>1, <2>2 DEF Aligned
<1>10. CASE k + 1 = l
  <2>1. i + l = x + 1 /\ j + l = y + 1
    BY <1>1, <1>3, <1>10
  <2>2. Between(s, x + 1)
    BY <1>1, <1>4, <2>1, CharEnds
  <2>3. Between(t, y + 1)
    BY <1>1, <1>4, <1>7, <2>1, CharEnds
  <2> QED
    BY <1>1, <2>2, <2>3, BetweenAligned
<1> QED
  BY <1>4, <1>5, <1>9, <1>10

LEMMA AlignedRun ==
  ASSUME NEW s, NEW t, TwoTexts(s, t), NEW x, NEW y, Aligned(s, x, t, y), NEW n \in Nat,
         x + n <= Len(s), y + n <= Len(t), SameRun(s, x, t, y, n)
  PROVE  Aligned(s, x + n, t, y + n)
<1> DEFINE S == {k \in Nat : k <= n => Aligned(s, x + k, t, y + k)}
<1>1. Len(s) \in Nat /\ Len(t) \in Nat /\ x \in Nat /\ y \in Nat
  BY DEF TwoTexts, Aligned
<1>2. 0 \in S
  BY <1>1
<1>3. ASSUME NEW k \in Nat, k \in S PROVE k + 1 \in S
  <2>1. SUFFICES ASSUME k + 1 <= n PROVE Aligned(s, x + (k + 1), t, y + (k + 1))
    OBVIOUS
  <2>2. Aligned(s, x + k, t, y + k) /\ x + k < Len(s) /\ y + k < Len(t)
    BY <1>1, <1>3, <2>1
  <2>3. At(s, x + k) = At(t, y + k)
    BY <2>1 DEF SameRun
  <2>4. Aligned(s, (x + k) + 1, t, (y + k) + 1)
    BY <2>2, <2>3, AlignedStep
  <2>5. (x + k) + 1 = x + (k + 1) /\ (y + k) + 1 = y + (k + 1)
    BY <1>1
  <2> QED
    BY <2>4, <2>5
<1>4. n \in S
  <2> HIDE DEF S
  <2> QED
    BY <1>2, <1>3, Induction
<1> QED
  BY <1>4

\* What a continuation byte holds determines it.
LEMMA PayloadOf ==
  \A c \in Nat : Continuation(c) => c % 64 = c - 128 /\ c % 64 \in Nat /\ c % 64 < 64
<1>1. \A c \in 128 .. 191 : c % 64 = c - 128
  OBVIOUS
<1>2. ASSUME NEW c \in Nat, Continuation(c) PROVE c % 64 = c - 128 /\ c % 64 \in Nat /\ c % 64 < 64
  <2>1. c \in 128 .. 191
    BY <1>2 DEF Continuation
  <2>2. c % 64 = c - 128
    BY <1>1, <2>1
  <2> QED
    BY <2>1, <2>2
<1> QED
  BY <1>2

\* Numbers of two and three digits to the base 64, behind the same head.
EqualTwo(h, x1, x2, y1, y2) ==
  /\ h \in Int /\ x1 \in Nat /\ x2 \in Nat /\ y1 \in Nat /\ y2 \in Nat
  /\ x2 < 64 /\ y2 < 64
  /\ h + x1 * 64 + x2 = h + y1 * 64 + y2

EqualThree(h, x1, x2, x3, y1, y2, y3) ==
  /\ h \in Int /\ x1 \in Nat /\ x2 \in Nat /\ x3 \in Nat
  /\ y1 \in Nat /\ y2 \in Nat /\ y3 \in Nat
  /\ x2 < 64 /\ x3 < 64 /\ y2 < 64 /\ y3 < 64
  /\ h + x1 * 4096 + x2 * 64 + x3 = h + y1 * 4096 + y2 * 64 + y3

LEMMA SameTwo ==
  ASSUME NEW h, NEW x1, NEW x2, NEW y1, NEW y2, EqualTwo(h, x1, x2, y1, y2)
  PROVE  x1 = y1 /\ x2 = y2
BY DEF EqualTwo

LEMMA SameThree ==
  ASSUME NEW h, NEW x1, NEW x2, NEW x3, NEW y1, NEW y2, NEW y3,
         EqualThree(h, x1, x2, x3, y1, y2, y3)
  PROVE  x1 = y1 /\ x2 = y2 /\ x3 = y3
BY DEF EqualThree

LEMMA ByteSame ==
  ASSUME NEW c \in Nat, NEW d \in Nat, Continuation(c), Continuation(d), c % 64 = d % 64
  PROVE  c = d
<1>1. c % 64 = c - 128 /\ d % 64 = d - 128
  BY PayloadOf
<1> DEFINE x == c % 64
           y == d % 64
<1>2. x = c - 128 /\ y = d - 128 /\ x = y
  BY <1>1
<1> HIDE DEF x, y
<1> QED
  BY <1>2

\* The same character in two texts is the same bytes.
LEMMA CharBytes ==
  ASSUME NEW s \in Seq(Byte), NEW t \in Seq(Byte), NEW i \in Nat, NEW j \in Nat,
         i < Len(s), j < Len(t), Whole(s, i), Whole(t, j),
         At(s, i) = At(t, j), CharAt(s, i) = CharAt(t, j)
  PROVE  SameRun(s, i, t, j, CharLen(At(s, i)))
<1> DEFINE l == CharLen(At(s, i))
           c == At(s, i)
           x(k) == At(s, i + k) % 64
           y(k) == At(t, j + k) % 64
<1>1. l \in 1 .. 4 /\ c \in Nat /\ CharLen(At(t, j)) = l
  BY ByteIs
<1>2. ASSUME NEW k \in 1 .. l - 1
      PROVE  /\ Continuation(At(s, i + k)) /\ Continuation(At(t, j + k))
             /\ At(s, i + k) \in Nat /\ At(t, j + k) \in Nat
             /\ x(k) \in Nat /\ x(k) < 64 /\ y(k) \in Nat /\ y(k) < 64
             /\ x(k) = y(k) => At(s, i + k) = At(t, j + k)
  <2>1. Continuation(At(s, i + k)) /\ Continuation(At(t, j + k))
    BY <1>1 DEF Whole
  <2>2. At(s, i + k) \in Nat /\ At(t, j + k) \in Nat
    <3>1. Len(s) \in Nat /\ Len(t) \in Nat /\ i + l <= Len(s) /\ j + l <= Len(t)
      BY <1>1 DEF Whole
    <3>2. i + k \in Nat /\ i + k < Len(s) /\ j + k \in Nat /\ j + k < Len(t)
      BY <1>1, <3>1
    <3> QED
      BY <3>2, ByteIs
  <2> QED
    BY <2>1, <2>2, PayloadOf, ByteSame
<1>3. At(s, i + 0) = At(t, j + 0)
  OBVIOUS
<1> DEFINE h2 == (c % 32) * 64
           h3 == (c % 16) * 4096
           h4 == (c % 8) * 262144
<1>4. h2 \in Int /\ h3 \in Int /\ h4 \in Int
  BY <1>1
<1> HIDE DEF l, x, y, h2, h3, h4
<1>5. \A k \in 1 .. l - 1 : x(k) = y(k)
  <2>1. CASE l = 1
    BY <2>1
  <2>2. CASE l = 2
    <3>1. 1 \in 1 .. l - 1 /\ \A k \in 1 .. l - 1 : k = 1
      BY <2>2
    <3>2. CharAt(s, i) = h2 + x(1) /\ CharAt(t, j) = h2 + y(1)
      BY <1>1, <2>2 DEF CharAt, l, x, y, h2
    <3>3. h2 + x(1) = h2 + y(1)
      BY <3>2, Zenon
    <3>4. x(1) \in Nat /\ y(1) \in Nat
      BY <1>2, <3>1
    <3>5. x(1) = y(1)
      BY <1>4, <3>3, <3>4
    <3> QED
      BY <3>1, <3>5
  <2>3. CASE l = 3
    <3>1. 1 \in 1 .. l - 1 /\ 2 \in 1 .. l - 1 /\ \A k \in 1 .. l - 1 : k = 1 \/ k = 2
      BY <2>3
    <3>2. CharAt(s, i) = h3 + x(1) * 64 + x(2) /\ CharAt(t, j) = h3 + y(1) * 64 + y(2)
      BY <1>1, <2>3 DEF CharAt, l, x, y, h3
    <3>3. h3 + x(1) * 64 + x(2) = h3 + y(1) * 64 + y(2)
      BY <3>2, Zenon
    <3>4. /\ x(1) \in Nat /\ y(1) \in Nat /\ x(2) \in Nat /\ y(2) \in Nat
          /\ x(2) < 64 /\ y(2) < 64
      BY <1>2, <3>1
    <3>5. EqualTwo(h3, x(1), x(2), y(1), y(2))
      BY <1>4, <3>3, <3>4 DEF EqualTwo
    <3>6. x(1) = y(1) /\ x(2) = y(2)
      BY <3>5, SameTwo
    <3> QED
      BY <3>1, <3>6
  <2>4. CASE l = 4
    <3>1. /\ 1 \in 1 .. l - 1 /\ 2 \in 1 .. l - 1 /\ 3 \in 1 .. l - 1
          /\ \A k \in 1 .. l - 1 : k = 1 \/ k = 2 \/ k = 3
      BY <2>4
    <3> DEFINE e == h4 + x(1) * 4096 + x(2) * 64 + x(3)
               f == h4 + y(1) * 4096 + y(2) * 64 + y(3)
    <3>2. CharAt(s, i) = e /\ CharAt(t, j) = f
      BY <1>1, <2>4 DEF CharAt, l, x, y, h4
    <3>3. e = f
      <4> HIDE DEF e, f
      <4> QED
        BY <3>2
    <3>4. /\ x(1) \in Nat /\ y(1) \in Nat /\ x(2) \in Nat /\ y(2) \in Nat
          /\ x(3) \in Nat /\ y(3) \in Nat
          /\ x(2) < 64 /\ y(2) < 64 /\ x(3) < 64 /\ y(3) < 64
      BY <1>2, <3>1
    <3>5. EqualThree(h4, x(1), x(2), x(3), y(1), y(2), y(3))
      BY <1>4, <3>3, <3>4 DEF EqualThree
    <3>6. x(1) = y(1) /\ x(2) = y(2) /\ x(3) = y(3)
      BY <3>5, SameThree
    <3> QED
      BY <3>1, <3>6
  <2> QED
    BY <1>1, <2>1, <2>2, <2>3, <2>4
<1>6. \A k \in 1 .. l - 1 : At(s, i + k) = At(t, j + k)
  BY <1>2, <1>5
<1>7. \A k \in 0 .. l - 1 : k = 0 \/ k \in 1 .. l - 1
  BY <1>1
<1>8. \A k \in 0 .. l - 1 : At(s, i + k) = At(t, j + k)
  BY <1>3, <1>6, <1>7
<1> QED
  BY <1>8 DEF SameRun, l

\* Within characters the two bytes are equal continuation bytes: where they are not, a
\* character begins on both sides.
LEMMA CharsBegin ==
  ASSUME NEW s, NEW t, TwoTexts(s, t), NEW x, NEW y, Aligned(s, x, t, y),
         x < Len(s), y < Len(t),
         \/ At(s, x) # At(t, y) \/ ~ Continuation(At(s, x)) \/ ~ Continuation(At(t, y))
  PROVE  x \in Starts(s) /\ y \in Starts(t)
<1>1. /\ s \in Seq(Byte) /\ t \in Seq(Byte) /\ WellFormed(s) /\ WellFormed(t)
      /\ Len(s) \in Nat /\ Len(t) \in Nat /\ x \in Nat /\ y \in Nat
  BY DEF TwoTexts, Aligned
<1>2. PICK k \in 0 .. 3 : AlignedBy(s, x, t, y, k)
  BY DEF Aligned
<1> DEFINE i == x - k
           j == y - k
           l == CharLen(At(s, i))
<1>3. /\ i \in Nat /\ j \in Nat /\ i < Len(s) /\ j < Len(t) /\ i + k = x /\ j + k = y
      /\ ~ Continuation(At(s, i)) /\ ~ Continuation(At(t, j)) /\ SameRun(s, i, t, j, k)
      /\ k > 0 => k < l
  BY <1>1, <1>2 DEF AlignedBy, Between
<1>4. i \in Starts(s) /\ j \in Starts(t)
  BY <1>1, <1>3 DEF Starts
<1>5. CASE k = 0
  BY <1>1, <1>3, <1>4, <1>5
<1>6. CASE k > 0
  <2>1. At(s, i) = At(t, j)
    <3>1. 0 \in 0 .. k - 1 /\ i + 0 = i /\ j + 0 = j
      BY <1>3, <1>6
    <3> QED
      BY <1>3, <3>1 DEF SameRun
  <2>2. CharAt(s, i) = CharAt(t, j) /\ Whole(s, i) /\ Whole(t, j)
    BY <1>1, <1>4, <2>1 DEF TwoTexts, WellFormed
  <2>3. SameRun(s, i, t, j, l)
    BY <1>1, <1>3, <2>1, <2>2, CharBytes
  <2>4. l \in 1 .. 4
    BY <1>1, <1>3, ByteIs
  <2>5. k \in 0 .. l - 1 /\ k \in 1 .. l - 1
    BY <1>3, <1>6, <2>4
  <2>6. At(s, x) = At(t, y)
    BY <1>3, <2>3, <2>5 DEF SameRun
  <2>7. Continuation(At(s, x)) /\ Continuation(At(t, y))
    BY <1>3, <2>1, <2>2, <2>5 DEF Whole
  <2> QED
    BY <2>6, <2>7
<1> QED
  BY <1>5, <1>6

\* A text begins with a character.
LEMMA TextBegins ==
  ASSUME NEW s \in Seq(Byte), WellFormed(s)
  PROVE  Between(s, 0)
<1>1. Len(s) \in Nat
  OBVIOUS
<1>2. ASSUME Len(s) # 0, Continuation(At(s, 0)) PROVE FALSE
  <2>1. 0 \in 0 .. Len(s) - 1
    BY <1>1, <1>2
  <2>2. PICK i \in Starts(s) : Covers(s, i, 0)
    BY <1>2, <2>1 DEF WellFormed
  <2>3. i \in Nat /\ i < 0
    BY <2>2 DEF Starts, Covers
  <2> QED
    BY <2>3
<1> QED
  BY <1>2 DEF Between

\* Behind white space a character begins, if one began before it.
LEMMA WsEndBetween ==
  ASSUME NEW s \in Seq(Byte), WellFormed(s), NEW p \in Starts(s)
  PROVE  WsEnd(s, p) \in 0 .. Len(s) /\ Between(s, WsEnd(s, p))
<1> DEFINE stops == {k \in 0 .. Len(s) - 1 : ~ IsWs(At(s, k))}
           e == FirstStop(p, Len(s), stops)
<1>1. p \in Nat /\ p < Len(s) /\ Len(s) \in Nat /\ ~ Continuation(At(s, p))
  BY DEF Starts
<1>2. e \in p .. Len(s) /\ \A k \in p .. Len(s) : k < e => k \notin stops
  <2> HIDE DEF stops
  <2> QED
    BY <1>1, FirstStopIs
<1>3. WsEnd(s, p) = e
  BY DEF WsEnd
<1> HIDE DEF e
<1>4. CASE e = p
  BY <1>1, <1>3, <1>4 DEF Between
<1>5. CASE e # p
  <2>1. e - 1 \in p .. Len(s) /\ e - 1 < e /\ e - 1 \in 0 .. Len(s) - 1 /\ (e - 1) + 1 = e
    BY <1>1, <1>2, <1>5
  <2>2. IsWs(At(s, e - 1))
    BY <1>2, <2>1
  <2>3. At(s, e - 1) < 128
    BY <2>2 DEF IsWs
  <2>4. e - 1 \in Nat /\ e - 1 < Len(s)
    BY <1>1, <2>1
  <2> QED
    BY <1>3, <2>1, <2>3, <2>4, NarrowEnds
<1> QED
  BY <1>4, <1>5

\* The loop at the byte the pointers are at: unless it is one byte on both sides that
\* goes on with a character, a character begins on both.
LEMMA CharsBeginHere ==
  ASSUME TypeOK, TwoTexts(a, b), InLoop, Aligned(a, pa, b, pb),
         ca # cb \/ ca < 128 \/ cb < 128
  PROVE  pa \in Starts(a) /\ pb \in Starts(b)
<1>1. pa < Len(a) /\ pb < Len(b) /\ ca \in Nat /\ cb \in Nat
  <2>1. pa < Len(a) /\ pb < Len(b) /\ ca \in Byte /\ cb \in Byte
    BY Looping
  <2> QED
    BY <2>1 DEF Byte
<1>2. ca < 128 => ~ Continuation(ca)
  BY <1>1, CharLenIs
<1>3. cb < 128 => ~ Continuation(cb)
  BY <1>1, CharLenIs
<1> QED
  BY <1>1, <1>2, <1>3, CharsBegin DEF ca, cb

LEMMA WideWhole ==
  ASSUME TypeOK, TwoTexts(a, b), BothWide, Aligned(a, pa, b, pb)
  PROVE  /\ ~ Cut(a, pa) /\ ~ Cut(b, pb) /\ ~ Continuation(ca) /\ ~ Continuation(cb)
         /\ pa \in Starts(a) /\ pb \in Starts(b)
<1>1. InLoop /\ ca # cb
  BY DEF BothWide, Letters, Differ
<1>2. pa \in Starts(a) /\ pb \in Starts(b)
  BY <1>1, CharsBeginHere
<1>3. Whole(a, pa) /\ Whole(b, pb)
  BY <1>2 DEF TwoTexts, WellFormed
<1>4. /\ pa \in Nat /\ pb \in Nat /\ pa < Len(a) /\ pb < Len(b)
      /\ Len(a) \in Nat /\ Len(b) \in Nat
  BY <1>1, Lengths, Looping
<1>5. CharLen(At(a, pa)) \in 1 .. 4 /\ CharLen(At(b, pb)) \in 1 .. 4
  BY <1>4, Lengths, ByteIs
<1>6. ~ Cut(a, pa) /\ ~ Cut(b, pb)
  BY <1>3, <1>4, <1>5 DEF Cut, Whole
<1> QED
  BY <1>2, <1>6 DEF Starts, ca, cb

\* A step of either comparison leaves the pointers so.
AlignedStays ==
  /\ pc' # "panicked" /\ a' = a /\ b' = b
  /\ pc' = "loop" => Aligned(a, pa', b, pb')

LEMMA StepAligned ==
  ASSUME TypeOK, TwoTexts(a, b), pc = "loop" => Aligned(a, pa, b, pb),
         SamePointer \/ New \/ Iterate \/ FoldIterate
  PROVE  AlignedStays
<1>1. /\ Len(a) \in Nat /\ Len(b) \in Nat /\ a \in Seq(Byte) /\ b \in Seq(Byte)
      /\ pa \in Nat /\ pa <= Len(a) /\ pb \in Nat /\ pb <= Len(b)
      /\ WellFormed(a) /\ WellFormed(b)
  BY Lengths DEF TwoTexts
<1>2. ASSUME NEW order, Settle(order) PROVE AlignedStays
  BY <1>2 DEF Settle, AlignedStays
<1>3. ASSUME NEW x, NEW y, Consume(x, y), Aligned(a, x, b, y) PROVE AlignedStays
  BY <1>3 DEF Consume, AlignedStays
<1>4. CASE SamePointer \/ End \/ DigitsSettle \/ Boundary \/ Mismatch \/ DigitMismatch
             \/ FoldDiffer \/ OneWide \/ WideDiffer
  BY <1>2, <1>4 DEF SamePointer, End, DigitsSettle, Boundary, Mismatch, DigitMismatch,
     FoldDiffer, OneWide, WideDiffer
<1>5. CASE New
  <2>1. /\ Start(a, b) \in 0 .. Len(a) /\ Start(a, b) \in 0 .. Len(b)
        /\ \A i \in 0 .. Start(a, b) - 1 : At(a, i) = At(b, i)
    BY StartIs
  <2>2. Aligned(a, 0, b, 0)
    BY <1>1, TextBegins, BetweenAligned
  <2>3. SameRun(a, 0, b, 0, Start(a, b))
    BY <2>1 DEF SameRun
  <2>4. /\ Start(a, b) \in Nat /\ 0 + Start(a, b) = Start(a, b)
        /\ Start(a, b) <= Len(a) /\ Start(a, b) <= Len(b)
    BY <1>1, <2>1
  <2>5. Aligned(a, Start(a, b), b, Start(a, b))
    <3>1. Aligned(a, 0 + Start(a, b), b, 0 + Start(a, b))
      BY <2>2, <2>3, <2>4, AlignedRun
    <3> QED
      BY <2>4, <3>1
  <2> QED
    BY <1>3, <1>5, <2>5 DEF New
<1>6. CASE DigitsContinue
  <2> DEFINE by == HandleDigits(a, pa, b, pb).by
  <2>1. /\ InLoop /\ pc = "loop" /\ BothDigits /\ HandleDigits(a, pa, b, pb).order = "Undecided"
        /\ Consume(pa + by, pb + by)
    BY <1>6 DEF DigitsContinue, InLoop
  <2>2. Fine(a, pa, b, pb, HandleDigits(a, pa, b, pb))
    BY <2>1, Looping, HandleDigitsFine
  <2>3. by \in Nat /\ pa + by <= Len(a) /\ pb + by <= Len(b) /\ SameRun(a, pa, b, pb, by)
    BY <2>1, <2>2 DEF Fine
  <2> HIDE DEF by
  <2>4. Aligned(a, pa + by, b, pb + by)
    BY <2>1, <2>3, AlignedRun
  <2> QED
    BY <1>3, <2>1, <2>4
<1>7. CASE SkipWs
  <2>1. InLoop /\ pc = "loop" /\ Consume(WsEnd(a, pa), WsEnd(b, pb)) /\ (ca < 128 \/ cb < 128)
    BY <1>7 DEF SkipWs, InLoop, IsWs
  <2>2. pa \in Starts(a) /\ pb \in Starts(b)
    BY <2>1, CharsBeginHere
  <2>3. Aligned(a, WsEnd(a, pa), b, WsEnd(b, pb))
    BY <1>1, <2>2, WsEndBetween, BetweenAligned
  <2> QED
    BY <1>3, <2>1, <2>3
<1>8. CASE Advance
  <2>1. InLoop /\ pc = "loop" /\ Consume(pa + 1, pb + 1) /\ At(a, pa) = At(b, pb)
    BY <1>8 DEF Advance, InLoop, ca, cb
  <2>2. Aligned(a, pa + 1, b, pb + 1)
    BY <2>1, Looping, AlignedStep
  <2> QED
    BY <1>3, <2>1, <2>2
<1>9. CASE FoldEqual
  <2>1. InLoop /\ pc = "loop" /\ Consume(pa + 1, pb + 1) /\ ca < 128 /\ cb < 128
    BY <1>9 DEF FoldEqual, BothNarrow, Letters, Differ, InLoop
  <2>2. pa < Len(a) /\ pb < Len(b)
    BY <2>1, Looping
  <2>3. Aligned(a, pa + 1, b, pb + 1)
    BY <1>1, <2>1, <2>2, NarrowEnds, BetweenAligned DEF ca, cb
  <2> QED
    BY <1>3, <2>1, <2>3
<1>10. CASE WideEqual
  <2>1. BothWide /\ pc = "loop" /\ Consume(pa + CharLen(ca), pb + CharLen(cb))
    BY <1>10 DEF WideEqual, Decode, BothWide, Letters, Differ, InLoop
  <2>2. pa \in Starts(a) /\ pb \in Starts(b)
    BY <2>1, WideWhole
  <2>3. Aligned(a, pa + CharLen(ca), b, pb + CharLen(cb))
    BY <1>1, <2>2, CharEnds, BetweenAligned DEF ca, cb
  <2> QED
    BY <1>3, <2>1, <2>3
<1>11. CASE Panic
  <2>1. BothWide /\ pc = "loop" /\ (Cut(a, pa) \/ Cut(b, pb))
    BY <1>11 DEF Panic, BothWide, Letters, Differ, InLoop
  <2> QED
    BY <2>1, WideWhole
<1> QED
  BY <1>4, <1>5, <1>6, <1>7, <1>8, <1>9, <1>10, <1>11 DEF Iterate, FoldIterate

-------------------------------------------------------------------------------
(***************************************************************************)
(* What `normalize` returns is a text.                                      *)
(***************************************************************************)
LEMMA LowerAsciiIs ==
  ASSUME NEW c \in CodePoint
  PROVE  LowerAscii(c) \in CodePoint
<1>1. LastChar \in Nat /\ LastChar > 122
  BY DEF LastChar
<1>2. c \in Nat /\ c <= LastChar
  BY <1>1 DEF CodePoint
<1>3. CASE c \in 65 .. 90
  BY <1>1, <1>3 DEF LowerAscii, CodePoint
<1>4. CASE c \notin 65 .. 90
  BY <1>4 DEF LowerAscii
<1> QED
  BY <1>3, <1>4

\* The cases of the configuration.
Configured ==
  /\ feature \in BOOLEAN /\ form \in Forms /\ caseMode \in CaseModes
  /\ left \in Texts /\ right \in Texts
  /\ mode \in {"Unset"} \union CaseModes

IsText(cow) == cow.text \in Seq(CodePoint)

LEMMA ApplyNormalizationIs ==
  ASSUME Configured, NEW text \in Texts
  PROVE  /\ IsText(ApplyNormalization(text))
         /\ ApplyNormalization(text).text
              = IF form = "None" \/ IsAscii(text) THEN text ELSE Normalized(text)
<1>1. text \in Seq(CodePoint)
  BY TextsAssumption
<1>2. form # "None" => Normalized(text) \in Seq(CodePoint)
  BY <1>1, NormalAssumption DEF Normalized, Configured
<1>3. CASE form = "None" \/ IsAscii(text)
  BY <1>1, <1>3 DEF ApplyNormalization, Borrowed, IsText
<1>4. CASE ~ (form = "None" \/ IsAscii(text)) /\ Normalized(text) = text
  BY <1>1, <1>4 DEF ApplyNormalization, Borrowed, IsText
<1>5. CASE ~ (form = "None" \/ IsAscii(text)) /\ Normalized(text) # text
  BY <1>2, <1>5 DEF ApplyNormalization, Owned, IsText
<1> QED
  BY <1>3, <1>4, <1>5

LEMMA ReplacedIs ==
  ASSUME NEW cow, NEW folded
  PROVE  Replaced(cow, folded).text = folded
BY DEF Replaced, Owned

LEMMA FoldAsciiIs ==
  ASSUME NEW cow, IsText(cow)
  PROVE  IsText(FoldAscii(cow))
<1>1. Len(cow.text) \in Nat /\ \A k \in 1 .. Len(cow.text) : LowerAscii(cow.text[k]) \in CodePoint
  BY LowerAsciiIs DEF IsText
<1>2. [k \in 1 .. Len(cow.text) |-> LowerAscii(cow.text[k])] \in Seq(CodePoint)
  BY <1>1
<1> QED
  BY <1>2, ReplacedIs DEF FoldAscii, IsText

LEMMA CaseFoldIs == \A c \in CodePoint : CaseFold(c) \in CodePoint
BY FoldingAssumption

LEMMA FoldUnicodeIs ==
  ASSUME NEW cow, IsText(cow)
  PROVE  IsText(FoldUnicode(cow))
<1>1. Len(cow.text) \in Nat /\ \A k \in 1 .. Len(cow.text) : CaseFold(cow.text[k]) \in CodePoint
  BY CaseFoldIs DEF IsText
<1>2. [k \in 1 .. Len(cow.text) |-> CaseFold(cow.text[k])] \in Seq(CodePoint)
  BY <1>1
<1> QED
  BY <1>2, ReplacedIs DEF FoldUnicode, IsText

\* What FlattenSeq joins are characters again.
LEMMA FlattenType ==
  ASSUME NEW T, NEW x \in Seq(Seq(T))
  PROVE  Seqs!FlattenSeq(x) \in Seq(T)
<1>1. PICK g : Joins(g, x, T)
  BY JoinsExist
<1>2. Seqs!FlattenSeq(x) = g[Len(x)]
  BY <1>1, FlattenIs
<1>3. Len(x) \in 0 .. Len(x)
  OBVIOUS
<1> QED
  BY <1>1, <1>2, <1>3 DEF Joins

LEMMA LowerEachIs ==
  ASSUME NEW cow, IsText(cow)
  PROVE  IsText(LowerEach(cow))
<1> DEFINE lower == [k \in 1 .. Len(cow.text) |-> Lowercase(cow.text[k])]
<1>1. /\ Len(cow.text) \in Nat
      /\ \A k \in 1 .. Len(cow.text) : Lowercase(cow.text[k]) \in Seq(CodePoint)
  BY LowercaseAssumption DEF IsText
<1>2. lower \in Seq(Seq(CodePoint))
  BY <1>1
<1>3. Seqs!FlattenSeq(lower) \in Seq(CodePoint)
  <2> HIDE DEF lower
  <2> QED
    BY <1>2, FlattenType
<1>4. LowerEach(cow) = Owned(Seqs!FlattenSeq(lower)) \/ LowerEach(cow) = cow
  BY DEF LowerEach
<1> QED
  BY <1>3, <1>4 DEF IsText, Owned

LEMMA ApplyCaseIs ==
  ASSUME Configured, NEW cow, IsText(cow)
  PROVE  IsText(ApplyCase(cow))
<1>1. IsText(FoldFull(cow))
  <2>1. feature = TRUE \/ feature = FALSE
    BY DEF Configured
  <2>2. \/ FoldFull(cow) = FoldAscii(cow) \/ FoldFull(cow) = FoldUnicode(cow)
        \/ FoldFull(cow) = LowerEach(cow)
    <3>1. CASE IsAscii(cow.text)
      BY <3>1 DEF FoldFull
    <3>2. CASE ~ IsAscii(cow.text) /\ feature
      BY <3>2 DEF FoldFull
    <3>3. CASE ~ IsAscii(cow.text) /\ ~ feature
      BY <3>3 DEF FoldFull
    <3> QED
      BY <2>1, <3>1, <3>2, <3>3
  <2> QED
    BY <2>2, FoldAsciiIs, FoldUnicodeIs, LowerEachIs
<1>2. caseMode = "Sensitive" \/ caseMode = "AsciiOnly" \/ caseMode = "Fold"
  BY DEF Configured, CaseModes, FoldModes
<1>3. ApplyCase(cow) = cow \/ ApplyCase(cow) = FoldAscii(cow) \/ ApplyCase(cow) = FoldFull(cow)
  BY <1>2 DEF ApplyCase
<1> QED
  BY <1>1, <1>3, FoldAsciiIs

LEMMA NormalizeIs ==
  ASSUME Configured, NEW text \in Texts
  PROVE  /\ Normalize(text).text \in Seq(CodePoint)
         /\ ~ Active /\ caseMode = "Sensitive" => Normalize(text).text = text
<1>1. text \in Seq(CodePoint)
  BY TextsAssumption
<1>2. IsText(ApplyCase(ApplyNormalization(text)))
  BY ApplyNormalizationIs, ApplyCaseIs
<1>3. Normalize(text).text \in Seq(CodePoint)
  BY <1>1, <1>2 DEF Normalize, Borrowed, IsText
<1>4. ASSUME ~ Active, caseMode = "Sensitive" PROVE Normalize(text).text = text
  <2>1. CASE form = "None"
    BY <1>4, <2>1 DEF Normalize, Borrowed
  <2>2. CASE form # "None"
    <3>1. Normalized(text) = text
      BY <1>4, <2>2 DEF Active, Normalized
    <3>2. ApplyNormalization(text).text = text
      BY <3>1, ApplyNormalizationIs
    <3>3. Normalize(text) = ApplyNormalization(text)
      BY <1>4, <2>2 DEF Normalize, ApplyCase
    <3> QED
      BY <3>2, <3>3
  <2> QED
    BY <2>1, <2>2
<1> QED
  BY <1>3, <1>4

-------------------------------------------------------------------------------
(***************************************************************************)
(* The inductive invariant of a normalizer and its call.                    *)
(***************************************************************************)
\* Before the call nothing has been read.
Fresh ==
  /\ a \in Seq(Byte) /\ b \in Seq(Byte) /\ pa = 0 /\ pb = 0
  /\ pc = "new" /\ res = "Undecided"

\* What is compared.
Subjects ==
  /\ mode = "Unset" => Fresh /\ a = <<>> /\ b = <<>>
  /\ mode = "Sensitive" =>
       a = Bytes(Normalize(left).text) /\ b = Bytes(Normalize(right).text)
  /\ mode \in FoldModes =>
       a = Bytes(left) /\ b = Bytes(right) /\ mode = caseMode /\ ~ Active

\* NatCompare's own invariants, where it is NatCompare that runs.
Plainly == IInv /\ InSync /\ NaturalOnPlain

\* The pointers, on texts in which characters that begin alike are the same.
Together ==
  TwoTexts(a, b) => pc # "panicked" /\ (pc = "loop" => Aligned(a, pa, b, pb))

NInv ==
  /\ Configured /\ Subjects
  /\ WellFormed(a) /\ WellFormed(b)
  /\ FoldInv
  /\ mode \notin FoldModes => Plainly
  /\ Together

LEMMA FreshIs == Fresh => FoldInv /\ Plainly /\ Together
<1> SUFFICES ASSUME Fresh PROVE FoldInv /\ Plainly /\ Together
  OBVIOUS
<1>1. Len(a) \in Nat /\ Len(b) \in Nat /\ pa \in 0 .. Len(a) /\ pb \in 0 .. Len(b)
  BY DEF Fresh
<1>2. TypeOK
  BY <1>1 DEF Fresh, TypeOK
<1>3. Open /\ Level
  BY DEF Fresh, Open, Level
<1>4. InSync /\ NaturalOnPlain
  BY DEF Fresh, InSync, NaturalOnPlain
<1>5. FoldInv
  BY <1>1, <1>2 DEF Fresh, FoldInv, FoldTypeOK
<1>6. Together
  BY DEF Fresh, Together
<1> QED
  BY <1>2, <1>3, <1>4, <1>5, <1>6 DEF IInv, Plainly

LEMMA EmptyWellFormed == WellFormed(<<>>)
BY DEF WellFormed, Starts

LEMMA NormInitInv == NormInit => NInv
<1> SUFFICES ASSUME NormInit PROVE NInv
  OBVIOUS
<1>1. Configured
  BY DEF NormInit, Configured, Forms, CaseModes
<1>2. Fresh /\ a = <<>> /\ b = <<>>
  BY DEF NormInit, Fresh
<1>3. Subjects
  BY <1>2 DEF NormInit, Subjects, FoldModes
<1>4. WellFormed(a) /\ WellFormed(b)
  BY <1>2, EmptyWellFormed
<1> QED
  BY <1>1, <1>2, <1>3, <1>4, FreshIs DEF NInv

\* The configuration stays what it is while the call goes on, and so does what
\* `normalize` makes of a text.
SameConfiguration ==
  feature' = feature /\ form' = form /\ caseMode' = caseMode /\ left' = left /\ right' = right

LEMMA SameNormalize ==
  ASSUME SameConfiguration
  PROVE  /\ (Normalize(left).text)' = Normalize(left).text
         /\ (Normalize(right).text)' = Normalize(right).text
         /\ Active' <=> Active
BY DEF SameConfiguration, Normalize, ApplyCase, ApplyNormalization, FoldFull, FoldAscii, FoldUnicode,
   LowerEach, Replaced, Normalized, Borrowed, Owned, Active

LEMMA FreshNext == Fresh' => FoldInv' /\ Plainly' /\ Together'
BY FreshIs, PTL

LEMMA PlainlyInductive == Plainly /\ [Next]_vars => Plainly'
<1> SUFFICES ASSUME Plainly, [Next]_vars PROVE Plainly'
  OBVIOUS
<1>1. IInv /\ InSync /\ NaturalOnPlain
  BY DEF Plainly
<1> QED
  BY <1>1, Inductive, SyncInductive, NaturalInductive DEF Plainly

\* A comparison that has begun.
LEMMA ComparedInv ==
  ASSUME NInv, SameConfiguration, mode' = mode, a' = a, b' = b, mode # "Unset",
         FoldInv', mode \notin FoldModes => Plainly', Together'
  PROVE  NInv'
<1>1. Configured' /\ mode' # "Unset"
  BY DEF NInv, Configured, SameConfiguration
<1>2. Subjects'
  <2>1. /\ mode = "Sensitive" =>
             a = Bytes(Normalize(left).text) /\ b = Bytes(Normalize(right).text)
        /\ mode \in FoldModes =>
             a = Bytes(left) /\ b = Bytes(right) /\ mode = caseMode /\ ~ Active
    BY DEF NInv, Subjects
  <2>2. mode' = "Sensitive" =>
          a' = Bytes((Normalize(left).text)') /\ b' = Bytes((Normalize(right).text)')
    BY <2>1, SameNormalize
  <2>3. mode' \in FoldModes =>
          a' = Bytes(left') /\ b' = Bytes(right') /\ mode' = caseMode' /\ ~ Active'
    BY <2>1, SameNormalize DEF SameConfiguration, FoldModes
  <2> QED
    BY <1>1, <2>2, <2>3 DEF Subjects
<1>3. WellFormed(a)' /\ WellFormed(b)'
  BY DEF NInv
<1>4. mode' \notin FoldModes => Plainly'
  OBVIOUS
<1> QED
  BY <1>1, <1>2, <1>3, <1>4 DEF NInv, FoldModes

LEMMA StepInv == NInv /\ Comparing => NInv'
<1> SUFFICES ASSUME NInv, Comparing PROVE NInv'
  OBVIOUS
<1>1. SameConfiguration
  BY DEF Comparing, SameConfiguration
<1>2. FoldInv /\ Together /\ Configured
  BY DEF NInv
<1>3. CASE SensitiveStep
  <2>1. mode = "Sensitive" /\ Step /\ mode' = mode
    BY <1>3 DEF SensitiveStep
  <2>2. mode \notin FoldModes /\ mode # "Unset"
    BY <2>1 DEF FoldModes
  <2>3. Plainly
    BY <2>2 DEF NInv
  <2>4. TypeOK
    BY <2>3 DEF Plainly, IInv
  <2>5. Plainly'
    BY <2>1, <2>3, PlainlyInductive DEF Next
  <2>6. TypeOK'
    BY <2>5 DEF Plainly, IInv
  <2>7. FoldInv'
    BY <2>6 DEF FoldInv, FoldTypeOK, TypeOK
  <2>8. a' = a /\ b' = b
    BY <2>1 DEF Step, SamePointer, New, Iterate, End, DigitsSettle, DigitsContinue, SkipWs,
       Boundary, Mismatch, Advance, Settle, Consume
  <2>9. Together'
    <3>1. ASSUME TwoTexts(a, b) PROVE AlignedStays
      BY <1>2, <2>1, <2>4, <3>1, StepAligned DEF Step, Together
    <3> QED
      BY <2>8, <3>1 DEF AlignedStays, Together
  <2> QED
    BY <1>1, <2>1, <2>2, <2>5, <2>7, <2>8, <2>9, ComparedInv
<1>4. CASE mode \in FoldModes /\ FoldStep
  <2>1. (SamePointer \/ New \/ FoldIterate) /\ mode' = mode /\ mode # "Unset" /\ mode \in FoldModes
    BY <1>4 DEF FoldStep, FoldModes
  <2>2. FoldInv'
    BY <1>2, <1>4, FoldInductive DEF FoldNext
  <2>3. pc # "panicked"
    BY <2>1 DEF SamePointer, New, FoldIterate, End, DigitsSettle,
       DigitsContinue, SkipWs, Boundary, Advance, DigitMismatch, FoldEqual, FoldDiffer,
       OneWide, Panic, WideDiffer, WideEqual, Decode, BothWide, BothNarrow, Letters, Differ, InLoop
  <2>4. TypeOK
    BY <1>2, <2>3 DEF FoldInv
  <2>5. a' = a /\ b' = b
    BY <2>1 DEF SamePointer, New, FoldIterate, End, DigitsSettle, DigitsContinue, SkipWs,
       Boundary, Advance, DigitMismatch, FoldEqual, FoldDiffer, OneWide, Panic, WideDiffer,
       WideEqual, Settle, Consume
  <2>6. Together'
    <3>1. ASSUME TwoTexts(a, b) PROVE AlignedStays
      BY <1>2, <2>1, <2>4, <3>1, StepAligned DEF Together
    <3> QED
      BY <2>5, <3>1 DEF AlignedStays, Together
  <2> QED
    BY <1>1, <2>1, <2>2, <2>5, <2>6, ComparedInv
<1> QED
  BY <1>3, <1>4 DEF Comparing

\* The call begins with two texts.
LEMMA CallInv ==
  ASSUME NInv, NEW comparison \in CaseModes, NEW x \in Seq(CodePoint), NEW y \in Seq(CodePoint),
         Compare(comparison, x, y),
         comparison = "Sensitive" => x = Normalize(left).text /\ y = Normalize(right).text,
         comparison \in FoldModes =>
           x = left /\ y = right /\ comparison = caseMode /\ ~ Active
  PROVE  NInv'
<1>1. /\ mode = "Unset" /\ mode' = comparison /\ a' = Bytes(x) /\ b' = Bytes(y)
      /\ SameConfiguration
      /\ pa' = pa /\ pb' = pb /\ pc' = pc /\ res' = res
  BY DEF Compare, SameConfiguration
<1>2. mode' \in CaseModes /\ mode' # "Unset"
  BY <1>1 DEF CaseModes, FoldModes
<1>3. Configured'
  BY <1>1, <1>2 DEF NInv, Configured, SameConfiguration
<1>4. Fresh
  BY <1>1 DEF NInv, Subjects
<1>5. /\ a' \in Seq(Byte) /\ WellFormed(a') /\ b' \in Seq(Byte) /\ WellFormed(b')
  BY <1>1, BytesWellFormed
<1>6. Fresh'
  BY <1>1, <1>4, <1>5 DEF Fresh
<1>7. Subjects'
  <2>1. mode' = "Sensitive" =>
          a' = Bytes((Normalize(left).text)') /\ b' = Bytes((Normalize(right).text)')
    BY <1>1, SameNormalize
  <2>2. mode' \in FoldModes =>
          a' = Bytes(left') /\ b' = Bytes(right') /\ mode' = caseMode' /\ ~ Active'
    BY <1>1, SameNormalize DEF SameConfiguration, FoldModes
  <2> QED
    BY <1>2, <2>1, <2>2 DEF Subjects
<1> QED
  BY <1>3, <1>5, <1>6, <1>7, FreshNext DEF NInv

LEMMA NormInductive == NInv /\ [NormNext]_normVars => NInv'
<1> SUFFICES ASSUME NInv, [NormNext]_normVars PROVE NInv'
  OBVIOUS
<1>1. Configured /\ Subjects
  BY DEF NInv
<1>2. left \in Seq(CodePoint) /\ right \in Seq(CodePoint) /\ caseMode \in CaseModes
  BY <1>1, TextsAssumption DEF Configured
<1>3. CASE SetForm \/ SetCase
  <2>1. /\ mode = "Unset" /\ UNCHANGED <<foldVars, feature, left, right>>
        /\ form' \in Forms /\ caseMode' \in CaseModes
    BY <1>1, <1>3 DEF SetForm, SetCase, Configuring, Configured
  <2>2. mode' = "Unset" /\ a' = a /\ b' = b /\ pa' = pa /\ pb' = pb /\ pc' = pc /\ res' = res
    BY <2>1 DEF foldVars, vars
  <2>3. Fresh' /\ a' = <<>> /\ b' = <<>>
    BY <1>1, <2>1, <2>2 DEF Subjects, Fresh
  <2>4. Configured'
    BY <1>1, <2>1, <2>2 DEF Configured
  <2>5. Subjects'
    BY <2>2, <2>3 DEF Subjects, FoldModes
  <2>6. WellFormed(a)' /\ WellFormed(b)'
    BY <2>2 DEF NInv
  <2> QED
    BY <2>3, <2>4, <2>5, <2>6, FreshNext DEF NInv
<1>4. CASE CompareDirectly
  <2>1. ~ Active /\ Compare(caseMode, left, right)
    BY <1>4 DEF CompareDirectly
  <2>2. caseMode = "Sensitive" => left = Normalize(left).text /\ right = Normalize(right).text
    BY <1>1, <2>1, NormalizeIs DEF Configured
  <2> QED
    BY <1>2, <2>1, <2>2, CallInv
<1>5. CASE CompareNormalized
  <2>1. Compare("Sensitive", Normalize(left).text, Normalize(right).text)
    BY <1>5 DEF CompareNormalized
  <2>2. Normalize(left).text \in Seq(CodePoint) /\ Normalize(right).text \in Seq(CodePoint)
    BY <1>1, NormalizeIs DEF Configured
  <2>3. "Sensitive" \in CaseModes /\ "Sensitive" \notin FoldModes
    BY DEF CaseModes, FoldModes
  <2> QED
    BY <2>1, <2>2, <2>3, CallInv
<1>6. CASE Comparing
  BY <1>6, StepInv
<1>7. CASE NormIdle \/ UNCHANGED normVars
  <2>1. UNCHANGED normVars
    BY <1>7 DEF NormIdle
  <2>2. UNCHANGED foldVars /\ UNCHANGED vars /\ SameConfiguration /\ mode' = mode
    BY <2>1 DEF normVars, foldVars, SameConfiguration
  <2>3. a' = a /\ b' = b /\ pa' = pa /\ pb' = pb /\ pc' = pc /\ res' = res
    BY <2>2 DEF vars
  <2>4. CASE mode = "Unset"
    <3>1. Fresh' /\ a' = <<>> /\ b' = <<>>
      BY <1>1, <2>3, <2>4 DEF Subjects, Fresh
    <3>2. Configured'
      BY <1>1, <2>2 DEF Configured, SameConfiguration
    <3>3. Subjects'
      BY <2>2, <2>4, <3>1 DEF Subjects, FoldModes
    <3>4. WellFormed(a)' /\ WellFormed(b)'
      BY <2>3 DEF NInv
    <3> QED
      BY <3>1, <3>2, <3>3, <3>4, FreshNext DEF NInv
  <2>5. CASE mode # "Unset"
    <3>1. FoldInv'
      BY <2>2, FoldInductive DEF NInv
    <3>2. mode \notin FoldModes => Plainly'
      BY <2>2, PlainlyInductive DEF NInv
    <3>3. Together'
      BY <2>3 DEF NInv, Together
    <3> QED
      BY <2>2, <2>3, <2>5, <3>1, <3>2, <3>3, ComparedInv
  <2> QED
    BY <2>4, <2>5
<1> QED
  BY <1>3, <1>4, <1>5, <1>6, <1>7 DEF NormNext

THEOREM NormInvariance == NormSpec => []NInv
<1> QED
  BY NormInitInv, NormInductive, PTL DEF NormSpec

\* Whichever comparison a normalizer runs, it reads and slices within bounds.
THEOREM NormTypeCorrect == NormSpec => []FoldTypeOK
<1>1. NInv => FoldTypeOK
  BY DEF NInv, FoldInv
<1> QED
  BY <1>1, NormInvariance, PTL

LEMMA SharedLeadIs ==
  ASSUME NInv, NoSharedLead
  PROVE  TwoTexts(a, b)
BY DEF NInv, FoldInv, FoldTypeOK, NoSharedLead, TwoTexts

\* The prefix skip and the step over equal bytes go by bytes, but where the comparison
\* looks for a character one begins, whole, and the call does not panic: on all texts
\* in which characters that begin with the same byte are the same.
THEOREM CharactersDecoded == NormSpec => []DecodesCharacters
<1>1. NInv => DecodesCharacters
  <2> SUFFICES ASSUME NInv, NoSharedLead
               PROVE  pc # "panicked" /\ (BothWide => ~ Continuation(ca) /\ ~ Continuation(cb))
    BY DEF DecodesCharacters
  <2>1. pc # "panicked" /\ TwoTexts(a, b) /\ (pc = "loop" => Aligned(a, pa, b, pb))
    BY SharedLeadIs DEF NInv, Together
  <2>2. TypeOK
    BY <2>1 DEF NInv, FoldInv
  <2>3. ASSUME BothWide PROVE ~ Continuation(ca) /\ ~ Continuation(cb)
    <3>1. pc = "loop"
      BY <2>3 DEF BothWide, Letters, Differ, InLoop
    <3> QED
      BY <2>1, <2>2, <2>3, <3>1, WideWhole
  <2> QED
    BY <2>1, <2>3
<1> QED
  BY <1>1, NormInvariance, PTL

\* A call that is done has an answer.
Answered == pc = "done" => res \in Orders

LEMMA StepAnswers == ASSUME TypeOK, Step \/ FoldIterate PROVE Answered'
<1>1. ASSUME NEW order \in Orders, Settle(order) PROVE Answered'
  BY <1>1 DEF Settle, Answered
<1>2. ASSUME NEW x, NEW y, Consume(x, y) PROVE Answered'
  BY <1>2 DEF Consume, Answered
<1>3. Settle(Cmp(Len(a) - pa, Len(b) - pb)) => Answered'
  <2>1. Cmp(Len(a) - pa, Len(b) - pb) \in Orders
    BY Lengths, CmpIs
  <2> QED
    BY <1>1, <2>1
<1>4. ASSUME InLoop, Settle(Cmp(ca, cb)) PROVE Answered'
  <2>1. Cmp(ca, cb) \in Orders
    BY <1>4, Looping, CmpIs
  <2> QED
    BY <1>1, <1>4, <2>1
<1>5. CASE DigitsSettle
  <2>1. /\ HandleDigits(a, pa, b, pb).order # "Undecided"
        /\ Settle(HandleDigits(a, pa, b, pb).order)
        /\ Fine(a, pa, b, pb, HandleDigits(a, pa, b, pb))
    BY <1>5, Looping, HandleDigitsFine DEF DigitsSettle
  <2>2. HandleDigits(a, pa, b, pb).order \in Orders
    BY <2>1 DEF Fine, Unequal, Orders
  <2> QED
    BY <1>1, <2>1, <2>2
<1>6. CASE FoldDiffer
  <2>1. Settle(Cmp(LowerAscii(ca), LowerAscii(cb)))
    BY <1>6 DEF FoldDiffer
  <2>2. ca \in Int /\ cb \in Int
    BY <1>6, Looping DEF FoldDiffer, BothNarrow, Letters, Differ
  <2>3. LowerAscii(ca) \in Int /\ LowerAscii(cb) \in Int
    BY <2>2 DEF LowerAscii
  <2>4. Cmp(LowerAscii(ca), LowerAscii(cb)) \in Orders
    BY <2>3, CmpIs
  <2> QED
    BY <1>1, <2>1, <2>4
<1>7. CASE SamePointer \/ Boundary \/ WideDiffer
  BY <1>1, <1>7 DEF SamePointer, Boundary, WideDiffer, Orders
<1>8. CASE New \/ DigitsContinue \/ SkipWs \/ Advance \/ FoldEqual \/ WideEqual
  BY <1>2, <1>8 DEF New, DigitsContinue, SkipWs, Advance, FoldEqual, WideEqual
<1>9. CASE Mismatch \/ DigitMismatch \/ OneWide
  BY <1>4, <1>9 DEF Mismatch, DigitMismatch, OneWide, Letters, Differ
<1>10. CASE Panic
  BY <1>10 DEF Panic, Answered
<1> QED
  BY <1>3, <1>5, <1>6, <1>7, <1>8, <1>9, <1>10 DEF Step, Iterate, FoldIterate, End

LEMMA AnsweredInductive == NInv /\ Answered /\ [NormNext]_normVars => Answered'
<1> SUFFICES ASSUME NInv, Answered, [NormNext]_normVars PROVE Answered'
  OBVIOUS
<1>1. CASE Comparing /\ pc # "panicked"
  <2>1. TypeOK
    BY <1>1 DEF NInv, FoldInv
  <2> QED
    BY <1>1, <2>1, StepAnswers DEF Comparing, SensitiveStep, FoldStep, Step
<1>2. CASE Comparing /\ pc = "panicked"
  <2>1. FALSE
    BY <1>2 DEF Comparing, SensitiveStep, Step, FoldStep, SamePointer, New, Iterate,
       FoldIterate, End, DigitsSettle,
       DigitsContinue, SkipWs, Boundary, Mismatch, Advance, DigitMismatch, FoldEqual, FoldDiffer,
       OneWide, Panic, WideDiffer, WideEqual, Decode, BothWide, BothNarrow, Letters, Differ, InLoop
  <2> QED
    BY <2>1
<1>3. CASE ~ Comparing
  <2>1. pc' = pc /\ res' = res
    BY <1>3 DEF NormNext, SetForm, SetCase, Configuring, CompareDirectly, CompareNormalized,
       Compare, NormIdle, normVars, foldVars, vars
  <2> QED
    BY <2>1 DEF Answered
<1> QED
  BY <1>1, <1>2, <1>3

LEMMA AnsweredAlways == NormSpec => []Answered
<1>1. NormInit => Answered
  BY DEF NormInit, Answered
<1> QED
  BY <1>1, NormInvariance, AnsweredInductive, PTL DEF NormSpec

\* What is left to the case-sensitive comparison comes out in the natural order of the
\* normal forms.
SensitiveOrder ==
  mode = "Sensitive" /\ pc = "done" /\ Plain(a) /\ Plain(b) => res = NormalCmp

THEOREM SensitiveIsNatural == NormSpec => []SensitiveOrder
<1>1. NInv /\ Answered => SensitiveOrder
  <2> SUFFICES ASSUME NInv, Answered, mode = "Sensitive", pc = "done", Plain(a), Plain(b)
               PROVE  res = NormalCmp
    BY DEF SensitiveOrder
  <2>1. Plainly
    BY DEF NInv, FoldModes
  <2>2. a = Bytes(Normalize(left).text) /\ b = Bytes(Normalize(right).text)
    BY DEF NInv, Subjects
  <2> QED
    BY <2>1, <2>2 DEF Plainly, NaturalOnPlain, NormalCmp, Answered, Orders
<1> QED
  BY <1>1, NormInvariance, AnsweredAlways, PTL

-------------------------------------------------------------------------------
(***************************************************************************)
(* The shortcuts of `normalize`.                                            *)
(***************************************************************************)
LEMMA SinglesFlatten ==
  ASSUME NEW x \in Seq(CodePoint)
  PROVE  Seqs!FlattenSeq([k \in 1 .. Len(x) |-> <<x[k]>>]) = x
<1> DEFINE m == Len(x)
           singles == [k \in 1 .. m |-> <<x[k]>>]
           g == [n \in 0 .. m |-> SubSeq(x, 1, n)]
<1>1. m \in Nat /\ \A n \in 1 .. m : x[n] \in CodePoint
  OBVIOUS
<1>2. singles \in Seq(Seq(CodePoint)) /\ Len(singles) = m
  BY <1>1
<1>3. ASSUME NEW n \in 0 .. m PROVE SubSeq(x, 1, n) \in Seq(CodePoint) /\ Len(SubSeq(x, 1, n)) = n
  BY <1>1
<1>4. ASSUME NEW n \in 1 .. m PROVE SubSeq(x, 1, n) = SubSeq(x, 1, n - 1) \o <<x[n]>>
  BY <1>1
<1>5. SubSeq(x, 1, 0) = <<>> /\ SubSeq(x, 1, m) = x
  BY <1>1
<1>6. g \in [0 .. m -> Seq(CodePoint)]
  BY <1>3
<1>7. ASSUME NEW n \in 1 .. m PROVE g[n] = g[n - 1] \o singles[n]
  <2>1. n \in 0 .. m /\ n - 1 \in 0 .. m
    BY <1>1
  <2> QED
    BY <1>4, <2>1
<1>8. g[0] = <<>> /\ g[m] = x
  <2>1. 0 \in 0 .. m /\ m \in 0 .. m
    BY <1>1
  <2> QED
    BY <1>5, <2>1
<1> HIDE DEF g, singles
<1>9. Joins(g, singles, CodePoint)
  BY <1>2, <1>6, <1>7, <1>8 DEF Joins
<1>10. Seqs!FlattenSeq(singles) = x
  BY <1>2, <1>8, <1>9, FlattenIs
<1> QED
  BY <1>10 DEF singles

\* A string of one byte has one character.
Single(s) == Len(s) = 1

LEMMA OneByte ==
  ASSUME NEW u \in Seq(CodePoint), Single(Bytes(u))
  PROVE  Len(u) = 1
<1>1. PICK g : Prefixes(g, u)
  BY PrefixesExist
<1> DEFINE m == Len(u)
           e == [n \in 1 .. m |-> Encode(u[n])]
<1>2. /\ m \in Nat /\ g \in [0 .. m -> Seq(Byte)]
      /\ g[0] = <<>> /\ g[m] = Bytes(u)
      /\ \A n \in 1 .. m : g[n] = g[n - 1] \o e[n]
  BY <1>1 DEF Prefixes
<1>3. ASSUME NEW n \in 1 .. m PROVE e[n] \in Seq(Byte) /\ Len(e[n]) > 0
  <2>1. u[n] \in CodePoint
    OBVIOUS
  <2>2. Encodes(Encode(u[n]), u[n])
    BY <2>1, EncodeIs
  <2>3. Encode(u[n]) \in Seq(Byte) /\ Len(Encode(u[n])) \in 1 .. 4
    BY <2>2 DEF Encodes
  <2> QED
    BY <2>3
<1> HIDE DEF m, e
<1> DEFINE l == [n \in 0 .. m |-> Len(g[n])]
<1>4. l \in [0 .. m -> Nat] /\ l[0] = 0 /\ l[m] = 1
  BY <1>2 DEF Single
<1>5. ASSUME NEW n \in 1 .. m PROVE l[n] > l[n - 1]
  <2>1. e[n] \in Seq(Byte) /\ Len(e[n]) > 0 /\ n - 1 \in 0 .. m /\ n \in 0 .. m
    BY <1>2, <1>3
  <2>2. g[n - 1] \in Seq(Byte) /\ g[n] = g[n - 1] \o e[n]
    BY <1>2, <2>1
  <2>3. Len(g[n]) = Len(g[n - 1]) + Len(e[n])
    BY <2>1, <2>2
  <2>4. l[n] = l[n - 1] + Len(e[n])
    BY <2>1, <2>3
  <2> HIDE DEF l
  <2>5. l[n - 1] \in Nat /\ Len(e[n]) \in Nat
    BY <1>4, <2>1
  <2> QED
    BY <2>1, <2>4, <2>5
<1> HIDE DEF l
<1> DEFINE S == {n \in Nat : n <= m => l[n] >= n}
<1>6. 0 \in S
  BY <1>4
<1>7. ASSUME NEW n \in Nat, n \in S PROVE n + 1 \in S
  <2>1. SUFFICES ASSUME n + 1 <= m PROVE l[n + 1] >= n + 1
    OBVIOUS
  <2>2. n + 1 \in 1 .. m /\ (n + 1) - 1 = n /\ n \in 0 .. m /\ n + 1 \in 0 .. m /\ n <= m
    BY <1>2, <2>1
  <2>3. l[n] \in Nat /\ l[n] >= n /\ l[n + 1] \in Nat
    BY <1>4, <1>7, <2>2
  <2>4. l[n + 1] > l[n]
    BY <1>5, <2>2
  <2> QED
    BY <2>3, <2>4
<1>8. m \in S
  <2> HIDE DEF S
  <2> QED
    BY <1>2, <1>6, <1>7, Induction
<1>9. m <= 1 /\ m # 0
  BY <1>2, <1>4, <1>8
<1> QED
  BY <1>2, <1>9 DEF m

\* LowerEach leaves a text as it is only where every character is its own lower case.
LEMMA LowerEachAll ==
  ASSUME NEW cow, IsText(cow)
  PROVE  LowerEach(cow).text
           = Seqs!FlattenSeq([k \in 1 .. Len(cow.text) |-> Lowercase(cow.text[k])])
<1> DEFINE m == Len(cow.text)
           lower == [k \in 1 .. m |-> Lowercase(cow.text[k])]
           changed == \E k \in 1 .. m : Len(Bytes(lower[k])) # 1 \/ lower[k][1] # cow.text[k]
<1>1. LowerEach(cow) = IF changed THEN Owned(Seqs!FlattenSeq(lower)) ELSE cow
  BY DEF LowerEach
<1>2. CASE changed
  <2> HIDE DEF lower
  <2> QED
    BY <1>1, <1>2 DEF Owned, lower
<1>3. CASE ~ changed
  <2>1. /\ cow.text \in Seq(CodePoint) /\ m \in Nat
        /\ \A k \in 1 .. m : Lowercase(cow.text[k]) \in Seq(CodePoint)
    BY LowercaseAssumption DEF IsText
  <2>2. ASSUME NEW k \in 1 .. m PROVE lower[k] = <<cow.text[k]>>
    <3>1. lower[k] \in Seq(CodePoint)
      BY <2>1
    <3>2. Len(Bytes(lower[k])) = 1 /\ lower[k][1] = cow.text[k]
      BY <1>3
    <3> HIDE DEF lower
    <3>3. Single(Bytes(lower[k]))
      BY <3>2 DEF Single
    <3>4. Len(lower[k]) = 1
      BY <3>1, <3>3, OneByte
    <3> QED
      BY <3>1, <3>2, <3>4
  <2>3. lower = [k \in 1 .. Len(cow.text) |-> <<cow.text[k]>>]
    BY <2>2
  <2>4. Seqs!FlattenSeq(lower) = cow.text
    BY <2>1, <2>3, SinglesFlatten
  <2> QED
    BY <1>1, <1>3, <2>4
<1> QED
  BY <1>2, <1>3

\* A character as the configuration folds it.
Folded(c) ==
  CASE caseMode = "Sensitive" -> <<c>>
    [] caseMode = "AsciiOnly" -> <<LowerAscii(c)>>
    [] caseMode = "Fold"      -> IF feature THEN <<CaseFold(c)>> ELSE Lowercase(c)

FoldedText(text) == Seqs!FlattenSeq([k \in 1 .. Len(text) |-> Folded(text[k])])

LEMMA CodePointIs == \A c \in CodePoint : c \in Nat
<1>1. LastChar \in Nat
  BY DEF LastChar
<1> QED
  BY <1>1 DEF CodePoint

LEMMA AsciiFolds ==
  ASSUME NEW c \in CodePoint, c < 128
  PROVE  CaseFold(c) = LowerAscii(c) /\ Lowercase(c) = <<LowerAscii(c)>>
<1>1. c \in Nat
  BY CodePointIs
<1>2. c \in 0 .. 127
  BY <1>1
<1> QED
  BY <1>2, FoldingAssumption

\* A text folded character by character, to one character each.
LEMMA EachToOne ==
  ASSUME NEW text \in Seq(CodePoint), NEW x \in Seq(CodePoint), Len(x) = Len(text),
         \A k \in 1 .. Len(text) : Folded(text[k]) = <<x[k]>>
  PROVE  FoldedText(text) = x
<1>1. [k \in 1 .. Len(text) |-> Folded(text[k])] = [k \in 1 .. Len(x) |-> <<x[k]>>]
  OBVIOUS
<1> QED
  BY <1>1, SinglesFlatten DEF FoldedText

LEMMA ApplyCaseFolds ==
  ASSUME Configured, NEW cow, IsText(cow)
  PROVE  ApplyCase(cow).text = FoldedText(cow.text)
<1> DEFINE text == cow.text
           ascii == [k \in 1 .. Len(text) |-> LowerAscii(text[k])]
           unicode == [k \in 1 .. Len(text) |-> CaseFold(text[k])]
<1>1. text \in Seq(CodePoint) /\ Len(text) \in Nat /\ \A k \in 1 .. Len(text) : text[k] \in CodePoint
  BY DEF IsText
<1>2. ascii \in Seq(CodePoint) /\ Len(ascii) = Len(text)
  BY <1>1, LowerAsciiIs
<1>3. unicode \in Seq(CodePoint) /\ Len(unicode) = Len(text)
  BY <1>1, CaseFoldIs
<1>4. FoldAscii(cow).text = ascii /\ FoldUnicode(cow).text = unicode
  BY ReplacedIs DEF FoldAscii, FoldUnicode
<1>5. CASE caseMode = "Sensitive"
  <2>1. \A k \in 1 .. Len(text) : Folded(text[k]) = <<text[k]>>
    BY <1>5 DEF Folded
  <2> QED
    BY <1>1, <1>5, <2>1, EachToOne DEF ApplyCase
<1>6. CASE caseMode = "AsciiOnly"
  <2>1. \A k \in 1 .. Len(text) : Folded(text[k]) = <<ascii[k]>>
    BY <1>6 DEF Folded
  <2>2. ApplyCase(cow).text = ascii
    BY <1>4, <1>6 DEF ApplyCase
  <2> HIDE DEF ascii
  <2> QED
    BY <1>1, <1>2, <2>1, <2>2, EachToOne
<1>7. CASE caseMode = "Fold"
  <2>1. ApplyCase(cow) = FoldFull(cow)
    BY <1>7 DEF ApplyCase
  <2>2. CASE IsAscii(text)
    <3>1. FoldFull(cow).text = ascii
      BY <1>4, <2>2 DEF FoldFull
    <3>2. ASSUME NEW k \in 1 .. Len(text) PROVE Folded(text[k]) = <<ascii[k]>>
      <4>1. text[k] \in CodePoint /\ text[k] < 128
        BY <1>1, <2>2 DEF IsAscii
      <4>2. CaseFold(text[k]) = LowerAscii(text[k]) /\ Lowercase(text[k]) = <<LowerAscii(text[k])>>
        BY <4>1, AsciiFolds
      <4> QED
        BY <1>7, <4>2 DEF Folded
    <3> HIDE DEF ascii
    <3> QED
      BY <1>1, <1>2, <2>1, <3>1, <3>2, EachToOne
  <2>3. CASE ~ IsAscii(text) /\ feature
    <3>1. FoldFull(cow).text = unicode
      BY <1>4, <2>3 DEF FoldFull
    <3>2. \A k \in 1 .. Len(text) : Folded(text[k]) = <<unicode[k]>>
      BY <1>7, <2>3 DEF Folded
    <3> HIDE DEF unicode
    <3> QED
      BY <1>1, <1>3, <2>1, <3>1, <3>2, EachToOne
  <2>4. CASE ~ IsAscii(text) /\ ~ feature
    <3>1. FoldFull(cow).text = LowerEach(cow).text
      BY <2>4 DEF FoldFull
    <3>2. \A k \in 1 .. Len(text) : Folded(text[k]) = Lowercase(text[k])
      BY <1>7, <2>4 DEF Folded
    <3>3. [k \in 1 .. Len(text) |-> Folded(text[k])] = [k \in 1 .. Len(text) |-> Lowercase(text[k])]
      BY <3>2
    <3> QED
      BY <2>1, <3>1, <3>3, LowerEachAll DEF FoldedText
  <2> QED
    BY <2>2, <2>3, <2>4
<1> QED
  BY <1>5, <1>6, <1>7 DEF Configured, CaseModes, FoldModes

\* The normal form of a text, ASCII or not.
NormalText(text) == IF form = "None" THEN text ELSE Normalized(text)

LEMMA NormalizeFolds ==
  ASSUME Configured, NEW text \in Texts
  PROVE  Normalize(text).text = FoldedText(NormalText(text))
<1>1. text \in Seq(CodePoint)
  BY TextsAssumption
<1>2. IsText(ApplyNormalization(text)) /\ ApplyNormalization(text).text = NormalText(text)
  <2>1. ASSUME form # "None", IsAscii(text) PROVE Normalized(text) = text
    BY <2>1, NormalAssumption DEF IsAscii, Normalized, Configured
  <2> QED
    BY <2>1, ApplyNormalizationIs DEF NormalText
<1>3. CASE form = "None" /\ caseMode = "Sensitive"
  <2>1. Normalize(text).text = text /\ NormalText(text) = text
    BY <1>3 DEF Normalize, Borrowed, NormalText
  <2>2. \A k \in 1 .. Len(text) : Folded(text[k]) = <<text[k]>>
    BY <1>3 DEF Folded
  <2> QED
    BY <1>1, <2>1, <2>2, EachToOne
<1>4. CASE ~ (form = "None" /\ caseMode = "Sensitive")
  BY <1>2, <1>4, ApplyCaseFolds DEF Normalize
<1> QED
  BY <1>3, <1>4

\* The shortcuts of `normalize` for ASCII, for a text that is normal already and for
\* characters that are their own lower case change nothing: what it returns is the
\* normal form folded character by character.
THEOREM ShortcutsSound == NormSpec => []ShortcutsAgree
<1>1. NInv => ShortcutsAgree
  <2> SUFFICES ASSUME NInv PROVE ShortcutsAgree
    OBVIOUS
  <2>1. Configured /\ left \in Texts
    BY DEF NInv, Configured
  <2>2. Normalize(left).text = FoldedText(NormalText(left))
    BY <2>1, NormalizeFolds
  <2> QED
    BY <2>2 DEF ShortcutsAgree, FoldedText, NormalText, Folded
<1> QED
  BY <1>1, NormInvariance, PTL

-------------------------------------------------------------------------------
(***************************************************************************)
(* The folding comparison with its arguments exchanged.                     *)
(***************************************************************************)
\* What does not speak of the state is the same in the mirror.
LEMMA ReflectedScans ==
  /\ \A x, y : Reflected!Cmp(x, y) = Cmp(x, y)
  /\ \A c : Reflected!IsDigit(c) <=> IsDigit(c)
  /\ \A c : Reflected!IsWs(c) <=> IsWs(c)
  /\ \A s, k : Reflected!DigitAt(s, k) <=> DigitAt(s, k)
  /\ \A s, p : Reflected!DigitEnd(s, p) = DigitEnd(s, p)
  /\ \A x, n, stops : Reflected!FirstStop(x, n, stops) = FirstStop(x, n, stops)
  /\ \A s, p, t, q, n : Reflected!EqualBytes(s, p, t, q, n) = EqualBytes(s, p, t, q, n)
<1>1. \A x, y : Reflected!Cmp(x, y) = Cmp(x, y)
  BY DEF Reflected!Cmp, Cmp
<1>2. \A c : (Reflected!IsDigit(c) <=> IsDigit(c)) /\ (Reflected!IsWs(c) <=> IsWs(c))
  BY DEF Reflected!IsDigit, IsDigit, Reflected!IsWs, IsWs
<1>3. \A s, k : Reflected!DigitAt(s, k) <=> DigitAt(s, k)
  BY DEF Reflected!DigitAt, DigitAt, Reflected!At, At, Reflected!IsDigit, IsDigit
<1>4. \A x, n, stops : Reflected!FirstStop(x, n, stops) = FirstStop(x, n, stops)
  BY DEF Reflected!FirstStop, FirstStop, Reflected!Least, Least
<1>5. \A s, p : Reflected!DigitEnd(s, p) = DigitEnd(s, p)
  BY <1>4 DEF Reflected!DigitEnd, DigitEnd, Reflected!At, At, Reflected!IsDigit, IsDigit
<1>6. \A s, p, t, q, n : Reflected!EqualBytes(s, p, t, q, n) = EqualBytes(s, p, t, q, n)
  BY <1>4 DEF Reflected!EqualBytes, EqualBytes, Reflected!At, At
<1> QED
  BY <1>1, <1>2, <1>3, <1>4, <1>5, <1>6

LEMMA ReflectedWords ==
  /\ \A s, p, t, q, n : Reflected!CompareWords(s, p, t, q, n) = CompareWords(s, p, t, q, n)
  /\ \A s, p, t, q, stops : Reflected!WalkEnd(s, p, t, q, stops) = WalkEnd(s, p, t, q, stops)
  /\ \A s, p, t, q, k : Reflected!BothDigitAt(s, p, t, q, k) <=> BothDigitAt(s, p, t, q, k)
<1>1. \A s, p, t, q, n : Reflected!CompareWords(s, p, t, q, n) = CompareWords(s, p, t, q, n)
  BY ReflectedScans DEF Reflected!CompareWords, CompareWords, Reflected!At, At
<1>2. \A s, p, t, q, stops : Reflected!WalkEnd(s, p, t, q, stops) = WalkEnd(s, p, t, q, stops)
  BY ReflectedScans DEF Reflected!WalkEnd, WalkEnd, Reflected!Smaller, Smaller
<1>3. \A s, p, t, q, k : Reflected!BothDigitAt(s, p, t, q, k) <=> BothDigitAt(s, p, t, q, k)
  BY ReflectedScans DEF Reflected!BothDigitAt, BothDigitAt
<1> QED
  BY <1>1, <1>2, <1>3

LEMMA ReflectedPaths ==
  ASSUME NEW s, NEW p, NEW t, NEW q
  PROVE  /\ Reflected!LeftShort(s, p, t, q) = LeftShort(s, p, t, q)
         /\ Reflected!RightShort(s, p, t, q) = RightShort(s, p, t, q)
         /\ Reflected!LeftLong(s, p, t, q) = LeftLong(s, p, t, q)
         /\ Reflected!RightLong(s, p, t, q) = RightLong(s, p, t, q)
<1>1. Reflected!LeftShort(s, p, t, q) = LeftShort(s, p, t, q)
  BY ReflectedScans, ReflectedWords
  DEF Reflected!LeftShort, LeftShort, Reflected!Outcome, Outcome, Reflected!At, At
<1>2. Reflected!RightShort(s, p, t, q) = RightShort(s, p, t, q)
  BY ReflectedScans, ReflectedWords
  DEF Reflected!RightShort, RightShort, Reflected!Outcome, Outcome
<1>3. Reflected!LeftLong(s, p, t, q) = LeftLong(s, p, t, q)
  BY ReflectedScans, ReflectedWords
  DEF Reflected!LeftLong, LeftLong, Reflected!Outcome, Outcome, Reflected!Smaller, Smaller
<1>4. Reflected!RightLong(s, p, t, q) = RightLong(s, p, t, q)
  BY ReflectedScans, ReflectedWords
  DEF Reflected!RightLong, RightLong, Reflected!Outcome, Outcome
<1> QED
  BY <1>1, <1>2, <1>3, <1>4

LEMMA ReflectedConstants ==
  /\ \A s, p, t, q : Reflected!HandleDigits(s, p, t, q) = HandleDigits(s, p, t, q)
  /\ \A s, t : Reflected!Start(s, t) = Start(s, t)
<1>1. ASSUME NEW s, NEW p, NEW t, NEW q
      PROVE  Reflected!HandleDigits(s, p, t, q) = HandleDigits(s, p, t, q)
  <2>1. Reflected!Short(s, p, t, q) <=> Short(s, p, t, q)
    BY DEF Reflected!Short, Short
  <2>2. /\ Reflected!LeadingZero(s, p) <=> LeadingZero(s, p)
        /\ Reflected!LeadingZero(t, q) <=> LeadingZero(t, q)
    BY ReflectedScans DEF Reflected!LeadingZero, LeadingZero, Reflected!Zero, Zero, Reflected!At, At
  <2>3. Reflected!LeftAligned(s, p, t, q) = LeftAligned(s, p, t, q)
    BY <2>1, ReflectedPaths DEF Reflected!LeftAligned, LeftAligned
  <2>4. Reflected!RightAligned(s, p, t, q) = RightAligned(s, p, t, q)
    BY <2>1, ReflectedPaths DEF Reflected!RightAligned, RightAligned
  <2> QED
    BY <2>2, <2>3, <2>4 DEF Reflected!HandleDigits, HandleDigits
<1>2. ASSUME NEW s, NEW t
      PROVE  Reflected!Start(s, t) = Start(s, t)
  <2>1. Reflected!SkipEqual(s, t) = SkipEqual(s, t)
    BY ReflectedScans DEF Reflected!SkipEqual, SkipEqual, Reflected!Smaller, Smaller
  <2>2. \A k : Reflected!MidRun(s, t, k) <=> MidRun(s, t, k)
    BY ReflectedScans DEF Reflected!MidRun, MidRun, Reflected!Smaller, Smaller, Reflected!At, At
  <2> QED
    BY <2>1, <2>2 DEF Reflected!Start, Start
<1> QED
  BY <1>1, <1>2

LEMMA ReflectedChars ==
  /\ \A c : Reflected!Continuation(c) <=> Continuation(c)
  /\ \A c : Reflected!CharLen(c) = CharLen(c)
  /\ \A s, p : Reflected!Cut(s, p) <=> Cut(s, p)
  /\ \A s, p : Reflected!CharAt(s, p) = CharAt(s, p)
  /\ \A s, p, any : Reflected!Decoded(s, p, any) = Decoded(s, p, any)
  /\ \A c : Reflected!LowerAscii(c) = LowerAscii(c)
  /\ \A u, v : Reflected!CmpSeqs(u, v) = CmpSeqs(u, v)
  /\ \A x, y : Reflected!CmpChars(x, y) = CmpChars(x, y)
<1>1. \A c : Reflected!Continuation(c) <=> Continuation(c)
  BY DEF Reflected!Continuation, Continuation
<1>2. \A c : Reflected!CharLen(c) = CharLen(c)
  BY DEF Reflected!CharLen, CharLen
<1>3. \A s, p : Reflected!Cut(s, p) <=> Cut(s, p)
  BY <1>2 DEF Reflected!Cut, Cut, Reflected!At, At
<1>4. ASSUME NEW s, NEW p PROVE Reflected!CharAt(s, p) = CharAt(s, p)
  <2> DEFINE c0 == s[p + 1]
             n == CharLen(c0)
             m == Reflected!CharLen(c0)
             two == (c0 % 32) * 64 + (s[p + 1 + 1] % 64)
             three == (c0 % 16) * 4096 + (s[p + 1 + 1] % 64) * 64 + (s[p + 2 + 1] % 64)
             four == (c0 % 8) * 262144 + (s[p + 1 + 1] % 64) * 4096 + (s[p + 2 + 1] % 64) * 64
                       + (s[p + 3 + 1] % 64)
  <2>1. CharAt(s, p) = CASE n = 1 -> c0 [] n = 2 -> two [] n = 3 -> three [] n = 4 -> four
    BY DEF CharAt, At
  <2>2. Reflected!CharAt(s, p)
          = CASE m = 1 -> c0 [] m = 2 -> two [] m = 3 -> three [] m = 4 -> four
    BY DEF Reflected!CharAt, Reflected!At
  <2>3. m = n
    BY <1>2
  <2> HIDE DEF c0, n, m, two, three, four
  <2> QED
    BY <2>1, <2>2, <2>3
<1>5. \A s, p, any : Reflected!Decoded(s, p, any) = Decoded(s, p, any)
  BY <1>1, <1>4 DEF Reflected!Decoded, Decoded, Reflected!At, At
<1>6. \A c : Reflected!LowerAscii(c) = LowerAscii(c)
  BY DEF Reflected!LowerAscii, LowerAscii
<1>7. \A u, v : Reflected!CmpSeqs(u, v) = CmpSeqs(u, v)
  BY ReflectedScans DEF Reflected!CmpSeqs, CmpSeqs, Reflected!Smaller, Smaller, Reflected!At, At
<1>8. \A x, y : Reflected!CmpChars(x, y) = CmpChars(x, y)
  BY <1>7, ReflectedScans DEF Reflected!CmpChars, CmpChars
<1> QED
  BY <1>1, <1>2, <1>3, <1>4, <1>5, <1>6, <1>7, <1>8

LEMMA CmpSeqsReversed ==
  ASSUME NEW u \in Seq(CodePoint), NEW v \in Seq(CodePoint)
  PROVE  CmpSeqs(v, u) = Reversed(CmpSeqs(u, v))
<1> DEFINE n == Smaller(Len(u), Len(v))
           k == EqualBytes(u, 0, v, 0, n)
<1>1. /\ Len(u) \in Nat /\ Len(v) \in Nat
      /\ n \in Nat /\ n <= Len(u) /\ n <= Len(v) /\ Smaller(Len(v), Len(u)) = n
  BY DEF Smaller
<1>2. CmpSeqs(u, v) = IF k = n THEN Cmp(Len(u), Len(v)) ELSE Cmp(At(u, k), At(v, k))
  BY DEF CmpSeqs
<1>3. CmpSeqs(v, u) = LET l == EqualBytes(v, 0, u, 0, n)
                      IN  IF l = n THEN Cmp(Len(v), Len(u)) ELSE Cmp(At(v, l), At(u, l))
  BY <1>1 DEF CmpSeqs
<1> HIDE DEF n
<1>4. k \in 0 .. n /\ SameRun(u, 0, v, 0, k) /\ (k # n => At(u, 0 + k) # At(v, 0 + k))
  BY <1>1, EqualBytesIs
<1> HIDE DEF k
<1>5. SameRun(v, 0, u, 0, k) /\ (k # n => At(v, 0 + k) # At(u, 0 + k))
  BY <1>4 DEF SameRun
<1>6. EqualBytes(v, 0, u, 0, n) = k
  BY <1>1, <1>4, <1>5, EqualBytesUnique
<1>7. CASE k = n
  BY <1>1, <1>2, <1>3, <1>6, <1>7, CmpReversed
<1>8. CASE k # n
  <2>1. u[k + 1] \in CodePoint /\ v[k + 1] \in CodePoint
    BY <1>1, <1>4, <1>8
  <2>2. At(u, k) \in Int /\ At(v, k) \in Int
    BY <2>1, CodePointIs DEF At
  <2> QED
    BY <1>2, <1>3, <1>6, <1>8, <2>2, CmpReversed
<1> QED
  BY <1>7, <1>8

LEMMA CmpCharsReversed ==
  ASSUME NEW x \in CodePoint, NEW y \in CodePoint
  PROVE  CmpChars(y, x) = Reversed(CmpChars(x, y))
<1>1. x \in Int /\ y \in Int
  BY CodePointIs
<1>2. Lowercase(x) \in Seq(CodePoint) /\ Lowercase(y) \in Seq(CodePoint)
  BY LowercaseAssumption
<1> QED
  BY <1>1, <1>2, CmpReversed, CmpSeqsReversed DEF CmpChars

\* Folding may leave the pointers apart, but what check_digit_boundary sees of a it
\* would see of b.
Behind ==
  TwoTexts(a, b) /\ WsFree(a) /\ WsFree(b) /\ pc = "loop" =>
    (DigitBefore(a, pa) <=> DigitBefore(b, pb))

LEMMA SameBehind ==
  ASSUME NEW s, NEW t, NEW p \in Nat, NEW q \in Nat, NEW n \in Nat \ {0}, SameRun(s, p, t, q, n)
  PROVE  DigitBefore(s, p + n) <=> DigitBefore(t, q + n)
<1>1. At(s, p + (n - 1)) = At(t, q + (n - 1))
  BY DEF SameRun
<1>2. p + (n - 1) = (p + n) - 1 /\ q + (n - 1) = (q + n) - 1 /\ p + n > 0 /\ q + n > 0
  OBVIOUS
<1> QED
  BY <1>1, <1>2 DEF DigitBefore

LEMMA ContinuationNoDigit == \A c : Continuation(c) => ~ IsDigit(c)
<1> SUFFICES ASSUME NEW c \in 128 .. 191 PROVE c \notin 48 .. 57
  BY DEF Continuation, IsDigit
<1> QED
  OBVIOUS

LEMMA WideNotBehind ==
  ASSUME NEW s \in Seq(Byte), WellFormed(s), NEW p \in Starts(s), At(s, p) >= 128
  PROVE  ~ DigitBefore(s, p + CharLen(At(s, p)))
<1> DEFINE n == CharLen(At(s, p))
<1>1. p \in Nat /\ p < Len(s) /\ Len(s) \in Nat
  BY DEF Starts
<1>2. At(s, p) \in Nat /\ n \in 1 .. 4
  BY <1>1, ByteIs
<1>3. n # 1
  BY <1>1, <1>2, CharLenIs DEF Starts
<1>4. \A k \in 1 .. n - 1 : Continuation(At(s, p + k))
  BY DEF WellFormed, Whole
<1> HIDE DEF n
<1>5. n - 1 \in 1 .. n - 1 /\ p + (n - 1) = (p + n) - 1
  BY <1>1, <1>2, <1>3
<1>6. Continuation(At(s, (p + n) - 1))
  BY <1>4, <1>5
<1>7. ~ IsDigit(At(s, (p + n) - 1))
  BY <1>6, ContinuationNoDigit
<1> QED
  BY <1>7 DEF DigitBefore, n

LEMMA StepBehind ==
  ASSUME TypeOK, TwoTexts(a, b), WsFree(a), WsFree(b),
         pc = "loop" => Aligned(a, pa, b, pb) /\ (DigitBefore(a, pa) <=> DigitBefore(b, pb)),
         SamePointer \/ New \/ Iterate \/ FoldIterate
  PROVE  Behind'
<1>1. /\ Len(a) \in Nat /\ Len(b) \in Nat /\ a \in Seq(Byte) /\ b \in Seq(Byte)
      /\ pa \in Nat /\ pa <= Len(a) /\ pb \in Nat /\ pb <= Len(b)
      /\ WellFormed(a) /\ WellFormed(b)
  BY Lengths DEF TwoTexts
<1>2. ASSUME NEW order, Settle(order) PROVE Behind'
  BY <1>2 DEF Settle, Behind
<1>3. ASSUME NEW x, NEW y, Consume(x, y), DigitBefore(a, x) <=> DigitBefore(b, y) PROVE Behind'
  BY <1>3 DEF Consume, Behind, DigitBefore
<1>4. CASE SamePointer \/ End \/ DigitsSettle \/ Boundary \/ Mismatch \/ DigitMismatch
             \/ FoldDiffer \/ OneWide \/ WideDiffer
  BY <1>2, <1>4 DEF SamePointer, End, DigitsSettle, Boundary, Mismatch, DigitMismatch,
     FoldDiffer, OneWide, WideDiffer
<1>5. CASE New
  <2> DEFINE k == Start(a, b)
  <2>1. k \in 0 .. Len(a) /\ \A i \in 0 .. k - 1 : At(a, i) = At(b, i)
    BY StartIs
  <2>2. Consume(k, k)
    BY <1>5 DEF New
  <2> HIDE DEF k
  <2>3. DigitBefore(a, k) <=> DigitBefore(b, k)
    <3>1. k > 0 => At(a, k - 1) = At(b, k - 1)
      BY <1>1, <2>1
    <3> QED
      BY <3>1 DEF DigitBefore
  <2> QED
    BY <1>3, <2>2, <2>3
<1>6. CASE DigitsContinue
  <2> DEFINE by == HandleDigits(a, pa, b, pb).by
  <2>1. /\ InLoop /\ BothDigits /\ HandleDigits(a, pa, b, pb).order = "Undecided"
        /\ Consume(pa + by, pb + by)
    BY <1>6 DEF DigitsContinue
  <2>2. Fine(a, pa, b, pb, HandleDigits(a, pa, b, pb))
    BY <2>1, Looping, HandleDigitsFine
  <2>3. by \in Nat \ {0} /\ SameRun(a, pa, b, pb, by)
    BY <2>1, <2>2 DEF Fine
  <2> HIDE DEF by
  <2> QED
    BY <1>1, <1>3, <2>1, <2>3, SameBehind
<1>7. CASE SkipWs
  <2>1. InLoop /\ (IsWs(ca) \/ IsWs(cb))
    BY <1>7 DEF SkipWs
  <2>2. pa + 1 \in 1 .. Len(a) /\ pb + 1 \in 1 .. Len(b)
    BY <1>1, <2>1, Looping
  <2> QED
    BY <2>1, <2>2 DEF WsFree, NotWs, ca, cb, At
<1>8. CASE Advance \/ FoldEqual
  <2>1. /\ InLoop /\ Consume(pa + 1, pb + 1)
        /\ ca = cb \/ (~ IsDigit(ca) /\ ~ IsDigit(cb))
    BY <1>8 DEF Advance, FoldEqual, BothNarrow, Letters, Differ
  <2>2. (pa + 1) - 1 = pa /\ (pb + 1) - 1 = pb /\ pa + 1 > 0 /\ pb + 1 > 0
    BY <1>1
  <2>3. DigitBefore(a, pa + 1) <=> DigitBefore(b, pb + 1)
    BY <2>1, <2>2 DEF DigitBefore, ca, cb
  <2> QED
    BY <1>3, <2>1, <2>3
<1>9. CASE WideEqual
  <2>1. BothWide /\ pc = "loop" /\ Consume(pa + CharLen(ca), pb + CharLen(cb))
    BY <1>9 DEF WideEqual, Decode, BothWide, Letters, Differ, InLoop
  <2>2. pa \in Starts(a) /\ pb \in Starts(b) /\ At(a, pa) >= 128 /\ At(b, pb) >= 128
    BY <2>1, WideWhole DEF BothWide, ca, cb
  <2>3. ~ DigitBefore(a, pa + CharLen(ca)) /\ ~ DigitBefore(b, pb + CharLen(cb))
    BY <1>1, <2>2, WideNotBehind DEF ca, cb
  <2> QED
    BY <1>3, <2>1, <2>3
<1>10. CASE Panic
  BY <1>10 DEF Panic, Behind
<1> QED
  BY <1>4, <1>5, <1>6, <1>7, <1>8, <1>9, <1>10 DEF Iterate, FoldIterate

LEMMA BehindInductive == NInv /\ Behind /\ [NormNext]_normVars => Behind'
<1> SUFFICES ASSUME NInv, Behind, [NormNext]_normVars PROVE Behind'
  OBVIOUS
<1>1. CASE Comparing
  <2>1. a' = a /\ b' = b
    BY <1>1 DEF Comparing, SensitiveStep, FoldStep, Step, SamePointer, New, Iterate, FoldIterate,
       End, DigitsSettle, DigitsContinue, SkipWs, Boundary, Mismatch, Advance, DigitMismatch,
       FoldEqual, FoldDiffer, OneWide, Panic, WideDiffer, WideEqual, Settle, Consume
  <2>2. CASE TwoTexts(a, b) /\ WsFree(a) /\ WsFree(b)
    <3>1. pc # "panicked" /\ TypeOK /\ (pc = "loop" => Aligned(a, pa, b, pb))
      BY <2>2 DEF NInv, Together, FoldInv
    <3> QED
      BY <1>1, <2>2, <3>1, StepBehind DEF Behind, Comparing, SensitiveStep, FoldStep, Step
  <2>3. CASE ~ (TwoTexts(a, b) /\ WsFree(a) /\ WsFree(b))
    BY <2>1, <2>3 DEF Behind
  <2> QED
    BY <2>2, <2>3
<1>2. CASE CompareDirectly \/ CompareNormalized
  <2>1. mode = "Unset" /\ pc' = pc
    BY <1>2 DEF CompareDirectly, CompareNormalized, Compare
  <2>2. pc = "new"
    BY <2>1 DEF NInv, Subjects, Fresh
  <2> QED
    BY <2>1, <2>2 DEF Behind
<1>3. CASE SetForm \/ SetCase \/ NormIdle \/ UNCHANGED normVars
  <2>1. pc' = pc /\ pa' = pa /\ pb' = pb /\ a' = a /\ b' = b
    BY <1>3 DEF SetForm, SetCase, Configuring, NormIdle, normVars, foldVars, vars
  <2> QED
    BY <2>1 DEF Behind
<1> QED
  BY <1>1, <1>2, <1>3 DEF NormNext

\* The views of the state in the mirror.
LEMMA ReflectedViews ==
  ASSUME Behind, TwoTexts(a, b), WsFree(a), WsFree(b)
  PROVE  /\ Reflected!ca = cb /\ Reflected!cb = ca
         /\ Reflected!InLoop <=> InLoop
         /\ Reflected!AtEnd <=> AtEnd
         /\ Reflected!BothDigits <=> BothDigits
         /\ Reflected!Differ <=> Differ
         /\ Reflected!Letters <=> Letters
         /\ Reflected!BothNarrow <=> BothNarrow
         /\ Reflected!BothWide <=> BothWide
         /\ InLoop => (Reflected!AtBoundary <=> AtBoundary)
<1>1. Reflected!ca = cb /\ Reflected!cb = ca
  BY DEF Reflected!ca, Reflected!cb, ca, cb, Reflected!At, At
<1>2. (Reflected!AtEnd <=> AtEnd) /\ (Reflected!InLoop <=> InLoop)
  BY DEF Reflected!InLoop, InLoop, Reflected!AtEnd, AtEnd
<1>3. Reflected!BothDigits <=> BothDigits
  BY <1>1, ReflectedScans DEF Reflected!BothDigits, BothDigits
<1>4. Reflected!Differ <=> Differ
  BY <1>1, <1>2, <1>3, ReflectedScans DEF Reflected!Differ, Differ
<1>5. Reflected!Letters <=> Letters
  BY <1>1, <1>4, ReflectedScans DEF Reflected!Letters, Letters
<1>6. Reflected!BothNarrow <=> BothNarrow
  BY <1>1, <1>5 DEF Reflected!BothNarrow, BothNarrow
<1>7. Reflected!BothWide <=> BothWide
  BY <1>1, <1>5 DEF Reflected!BothWide, BothWide
<1>8. ASSUME InLoop PROVE Reflected!AtBoundary <=> AtBoundary
  <2>1. DigitBefore(a, pa) <=> DigitBefore(b, pb)
    BY <1>8 DEF Behind, InLoop
  <2> QED
    BY <1>1, <2>1
    DEF Reflected!AtBoundary, AtBoundary, DigitBefore, Reflected!IsDigit, IsDigit, Reflected!At, At
<1> QED
  BY <1>1, <1>2, <1>3, <1>4, <1>5, <1>6, <1>7, <1>8

LEMMA ReflectedSettle ==
  ASSUME NEW order, Settle(order)
  PROVE  Reflected!Settle(Reversed(order))
BY DEF Settle, Reflected!Settle

LEMMA ReflectedConsume ==
  ASSUME NEW x, NEW y, Consume(x, y)
  PROVE  Reflected!Consume(y, x)
BY DEF Consume, Reflected!Consume

\* One character on each side is decoded in the mirror as well, and compared the other
\* way round.
LEMMA ReflectedDecode ==
  ASSUME TypeOK, TwoTexts(a, b), WsFree(a), WsFree(b), Behind, Aligned(a, pa, b, pb),
         NEW order, Decode(order)
  PROVE  Reflected!Decode(Reversed(order))
<1>1. BothWide /\ ~ Cut(a, pa) /\ ~ Cut(b, pb)
  BY DEF Decode
<1>2. /\ ~ Continuation(ca) /\ ~ Continuation(cb)
      /\ pa \in Starts(a) /\ pb \in Starts(b)
  BY <1>1, WideWhole
<1>3. CharAt(a, pa) \in CodePoint /\ CharAt(b, pb) \in CodePoint
  BY <1>2 DEF TwoTexts, WellFormed, Whole
<1>4. Decoded(a, pa, AnyChar) = {CharAt(a, pa)} /\ Decoded(b, pb, AnyChar) = {CharAt(b, pb)}
  BY <1>2 DEF Decoded, ca, cb
<1>5. CmpChars(CharAt(a, pa), CharAt(b, pb)) = order
  BY <1>4 DEF Decode
<1>6. CmpChars(CharAt(b, pb), CharAt(a, pa)) = Reversed(order)
  BY <1>3, <1>5, CmpCharsReversed
<1>7. \E x \in Decoded(b, pb, AnyChar), y \in Decoded(a, pa, AnyChar) :
        CmpChars(x, y) = Reversed(order)
  BY <1>4, <1>6
<1>8. \E x \in Reflected!Decoded(b, pb, AnyChar), y \in Reflected!Decoded(a, pa, AnyChar) :
        Reflected!CmpChars(x, y) = Reversed(order)
  BY <1>7, ReflectedChars
<1> QED
  BY <1>1, <1>8, ReflectedViews, ReflectedChars DEF Reflected!Decode

LEMMA ReflectedStep ==
  ASSUME TypeOK, TwoTexts(a, b), WsFree(a), WsFree(b), Behind,
         pc = "loop" => Aligned(a, pa, b, pb), FoldStep
  PROVE  Reflected!FoldStep
<1>1. mode' = mode
  BY DEF FoldStep
<1>2. SUFFICES Reflected!SamePointer \/ Reflected!New \/ Reflected!FoldIterate
  BY <1>1 DEF Reflected!FoldStep
<1>3. CASE SamePointer
  BY <1>3, ReflectedSettle, ReversedIs DEF SamePointer, Reflected!SamePointer
<1>4. CASE New
  <2>1. pc = "new" /\ Consume(Start(a, b), Start(a, b))
    BY <1>4 DEF New
  <2>2. Start(b, a) = Start(a, b)
    BY Lengths, StartExchanged
  <2> QED
    BY <2>1, <2>2, ReflectedConsume, ReflectedConstants DEF Reflected!New
<1>5. CASE End
  <2>1. pc = "loop" /\ AtEnd /\ Settle(Cmp(Len(a) - pa, Len(b) - pb))
    BY <1>5 DEF End
  <2>2. Len(a) - pa \in Int /\ Len(b) - pb \in Int
    BY Lengths
  <2>3. Reflected!Settle(Cmp(Len(b) - pb, Len(a) - pa))
    BY <2>1, <2>2, ReflectedSettle, CmpReversed
  <2> QED
    BY <2>1, <2>3, ReflectedViews, ReflectedScans DEF Reflected!End, Reflected!FoldIterate
<1>6. ASSUME InLoop, BothDigits
      PROVE  Exchanged(HandleDigits(a, pa, b, pb), HandleDigits(b, pb, a, pa))
  BY <1>6, Looping, HandleDigitsExchanged
<1>7. CASE DigitsSettle
  <2> DEFINE o == HandleDigits(a, pa, b, pb)
             r == HandleDigits(b, pb, a, pa)
  <2>1. InLoop /\ BothDigits /\ o.order # "Undecided" /\ Settle(o.order)
    BY <1>7 DEF DigitsSettle
  <2>2. Fine(a, pa, b, pb, o) /\ Exchanged(o, r)
    BY <1>6, <2>1, Looping, HandleDigitsFine
  <2>3. Reflected!HandleDigits(b, pb, a, pa) = r
    BY ReflectedConstants
  <2> HIDE DEF o, r
  <2>4. r.order = Reversed(o.order) /\ r.order # "Undecided"
    BY <2>1, <2>2, ReversedIs DEF Exchanged, Fine, Unequal
  <2>5. Reflected!Settle(r.order)
    BY <2>1, <2>4, ReflectedSettle
  <2> QED
    BY <2>1, <2>3, <2>4, <2>5, ReflectedViews DEF Reflected!DigitsSettle, Reflected!FoldIterate
<1>8. CASE DigitsContinue
  <2> DEFINE o == HandleDigits(a, pa, b, pb)
             r == HandleDigits(b, pb, a, pa)
  <2>1. InLoop /\ BothDigits /\ o.order = "Undecided" /\ Consume(pa + o.by, pb + o.by)
    BY <1>8 DEF DigitsContinue
  <2>2. Exchanged(o, r)
    BY <1>6, <2>1
  <2>3. Reflected!HandleDigits(b, pb, a, pa) = r
    BY ReflectedConstants
  <2> HIDE DEF o, r
  <2>4. r.order = "Undecided" /\ r.by = o.by
    BY <2>1, <2>2, ReversedIs DEF Exchanged
  <2>5. Reflected!Consume(pb + r.by, pa + r.by)
    BY <2>1, <2>4, ReflectedConsume
  <2> QED
    BY <2>1, <2>3, <2>4, <2>5, ReflectedViews DEF Reflected!DigitsContinue, Reflected!FoldIterate
<1>9. CASE SkipWs
  <2>1. InLoop /\ (IsWs(ca) \/ IsWs(cb))
    BY <1>9 DEF SkipWs
  <2>2. pa + 1 \in 1 .. Len(a) /\ pb + 1 \in 1 .. Len(b)
    BY <2>1, Looping, Lengths
  <2> QED
    BY <2>1, <2>2 DEF WsFree, NotWs, ca, cb, At
<1>10. CASE Boundary
  <2> DEFINE order == IF IsDigit(ca) THEN "Greater" ELSE "Less"
  <2>1. Differ /\ InLoop /\ AtBoundary /\ Settle(order)
    BY <1>10 DEF Boundary, Differ
  <2>2. Reversed(order) = IF IsDigit(cb) THEN "Greater" ELSE "Less"
    BY <2>1, ReversedIs DEF AtBoundary, IsDigit
  <2> HIDE DEF order
  <2>3. Reflected!Settle(IF IsDigit(cb) THEN "Greater" ELSE "Less")
    BY <2>1, <2>2, ReflectedSettle
  <2> QED
    BY <2>1, <2>3, ReflectedViews, ReflectedScans DEF Reflected!Boundary, Reflected!FoldIterate
<1>11. CASE Advance
  <2>1. InLoop /\ ~ BothDigits /\ ca = cb /\ ~ IsWs(cb) /\ Reflected!Consume(pb + 1, pa + 1)
    BY <1>11, ReflectedConsume DEF Advance
  <2> QED
    BY <2>1, ReflectedViews, ReflectedScans DEF Reflected!Advance, Reflected!FoldIterate
<1>12. ASSUME InLoop PROVE Cmp(cb, ca) = Reversed(Cmp(ca, cb))
  BY <1>12, Looping, CmpReversed
<1>13. CASE DigitMismatch
  <2>1. Differ /\ InLoop /\ (IsDigit(ca) \/ IsDigit(cb)) /\ ~ AtBoundary /\ Settle(Cmp(ca, cb))
    BY <1>13 DEF DigitMismatch, Differ
  <2>2. Reflected!Settle(Cmp(cb, ca))
    BY <1>12, <2>1, ReflectedSettle
  <2> QED
    BY <2>1, <2>2, ReflectedViews, ReflectedScans DEF Reflected!DigitMismatch, Reflected!FoldIterate
<1>14. CASE FoldEqual
  <2>1. BothNarrow /\ LowerAscii(cb) = LowerAscii(ca) /\ Reflected!Consume(pb + 1, pa + 1)
    BY <1>14, ReflectedConsume DEF FoldEqual
  <2> QED
    BY <2>1, ReflectedViews, ReflectedChars DEF Reflected!FoldEqual, Reflected!FoldIterate
<1>15. CASE FoldDiffer
  <2>1. /\ BothNarrow /\ InLoop /\ LowerAscii(cb) # LowerAscii(ca)
        /\ Settle(Cmp(LowerAscii(ca), LowerAscii(cb)))
    BY <1>15 DEF FoldDiffer, BothNarrow, Letters, Differ
  <2>2. LowerAscii(ca) \in Int /\ LowerAscii(cb) \in Int
    BY <2>1, Looping DEF LowerAscii
  <2>3. Reflected!Settle(Cmp(LowerAscii(cb), LowerAscii(ca)))
    BY <2>1, <2>2, CmpReversed, ReflectedSettle
  <2> QED
    BY <2>1, <2>3, ReflectedViews, ReflectedChars, ReflectedScans
    DEF Reflected!FoldDiffer, Reflected!FoldIterate
<1>16. CASE OneWide
  <2>1. Letters /\ InLoop /\ Settle(Cmp(ca, cb))
    BY <1>16 DEF OneWide, Letters, Differ
  <2>2. (cb < 128) # (ca < 128)
    BY <1>16 DEF OneWide
  <2>3. Reflected!Settle(Cmp(cb, ca))
    BY <1>12, <2>1, ReflectedSettle
  <2> QED
    BY <2>1, <2>2, <2>3, ReflectedViews, ReflectedScans DEF Reflected!OneWide, Reflected!FoldIterate
<1>17. CASE Panic
  <2>1. BothWide /\ (Cut(a, pa) \/ Cut(b, pb)) /\ pc = "loop"
    BY <1>17 DEF Panic, BothWide, Letters, Differ, InLoop
  <2> QED
    BY <2>1, WideWhole
<1>18. CASE WideDiffer
  <2>1. PICK order \in {"Less", "Greater"} : Decode(order) /\ Settle(order)
    BY <1>18 DEF WideDiffer
  <2>2. pc = "loop"
    BY <2>1 DEF Decode, BothWide, Letters, Differ, InLoop
  <2>3. Reflected!Decode(Reversed(order)) /\ Reflected!Settle(Reversed(order))
    BY <2>1, <2>2, ReflectedDecode, ReflectedSettle
  <2>4. Reversed(order) \in {"Less", "Greater"}
    BY DEF Reversed
  <2> QED
    BY <2>3, <2>4 DEF Reflected!WideDiffer, Reflected!FoldIterate
<1>19. CASE WideEqual
  <2>1. Decode("Equal") /\ pc = "loop" /\ Consume(pa + CharLen(ca), pb + CharLen(cb))
    BY <1>19 DEF WideEqual, Decode, BothWide, Letters, Differ, InLoop
  <2>2. Reflected!Decode("Equal")
    BY <2>1, ReflectedDecode, ReversedIs
  <2>3. Reflected!Consume(pb + CharLen(cb), pa + CharLen(ca))
    BY <2>1, ReflectedConsume
  <2> QED
    BY <2>2, <2>3, ReflectedViews, ReflectedChars DEF Reflected!WideEqual, Reflected!FoldIterate
<1> QED
  BY <1>3, <1>4, <1>5, <1>7, <1>8, <1>9, <1>10, <1>11, <1>13, <1>14, <1>15, <1>16, <1>17,
     <1>18, <1>19 DEF FoldStep, FoldIterate

\* On texts without white space in which characters that begin alike are the same,
\* every step of the comparison that folds is a step of the one with the arguments
\* exchanged, however far apart the pointers are.
THEOREM FoldMirrored == NormSpec => FoldMirrorImage
<1>1. NormInit => Behind
  BY DEF NormInit, Behind
<1>2. NInv /\ Behind /\ [NormNext]_normVars
        => [WellBehaved /\ mode \in FoldModes /\ FoldStep => Reflected!FoldStep]_normVars
  <2> SUFFICES ASSUME NInv, Behind, WellBehaved, mode \in FoldModes, FoldStep
               PROVE  Reflected!FoldStep
    OBVIOUS
  <2>1. WsFree(a) /\ WsFree(b) /\ TwoTexts(a, b)
    BY SharedLeadIs DEF WellBehaved
  <2>2. pc # "panicked" /\ (pc = "loop" => Aligned(a, pa, b, pb))
    BY <2>1 DEF NInv, Together
  <2>3. TypeOK
    BY <2>2 DEF NInv, FoldInv
  <2> QED
    BY <2>1, <2>2, <2>3, ReflectedStep
<1> QED
  BY <1>1, <1>2, NormInvariance, BehindInductive, PTL DEF NormSpec, FoldMirrorImage

-------------------------------------------------------------------------------
(***************************************************************************)
(* When `normalize` makes a new string.                                     *)
(***************************************************************************)
\* Folding gives back the text that normalization changed.
Undone == NormalText(left) # left /\ FoldedText(NormalText(left)) = left

\* A text, changed exactly if it is new.
Tells(cow, text) == cow.owned <=> cow.text # text

LEMMA ApplyNormalizationTells ==
  ASSUME NEW text
  PROVE  Tells(ApplyNormalization(text), text)
<1>1. CASE form = "None" \/ IsAscii(text) \/ Normalized(text) = text
  BY <1>1 DEF ApplyNormalization, Borrowed, Tells
<1>2. CASE ~ (form = "None" \/ IsAscii(text) \/ Normalized(text) = text)
  BY <1>2 DEF ApplyNormalization, Owned, Tells
<1> QED
  BY <1>1, <1>2

LEMMA ReplacedTells ==
  ASSUME NEW text, NEW cow, NEW folded, Tells(cow, text),
         cow.text # text => folded # text
  PROVE  Tells(Replaced(cow, folded), text)
<1>1. CASE folded = cow.text
  BY <1>1 DEF Replaced, Tells
<1>2. CASE folded # cow.text
  <2>1. folded # text
    BY <1>2
  <2> QED
    BY <1>2, <2>1 DEF Replaced, Owned, Tells
<1> QED
  BY <1>1, <1>2

\* `normalize` makes a new string exactly if it changes the text, unless folding undoes
\* what normalization did: then it returns an equal copy.
THEOREM OwnedUnlessUndone == NormSpec => [](OwnedIffChanged \/ Undone)
<1>1. ASSUME Configured, ~ Undone, feature \/ caseMode # "Fold"
      PROVE  Tells(Normalize(left), left)
  <2> DEFINE cow == ApplyNormalization(left)
  <2>1. left \in Texts /\ Tells(cow, left) /\ IsText(cow)
    BY <1>1, ApplyNormalizationTells, ApplyNormalizationIs DEF Configured
  <2>2. Normalize(left).text = FoldedText(NormalText(left))
    BY <1>1, <2>1, NormalizeFolds
  <2>3. cow.text = NormalText(left)
    <3>1. ASSUME form # "None", IsAscii(left) PROVE Normalized(left) = left
      BY <1>1, <2>1, <3>1, NormalAssumption DEF IsAscii, Normalized, Configured
    <3> QED
      BY <1>1, <2>1, <3>1, ApplyNormalizationIs DEF NormalText
  <2>4. CASE form = "None" /\ caseMode = "Sensitive"
    BY <2>4 DEF Normalize, Borrowed, Tells
  <2>5. CASE ~ (form = "None" /\ caseMode = "Sensitive")
    <3>1. Normalize(left) = ApplyCase(cow)
      BY <2>5 DEF Normalize
    <3>2. cow.text # left => ApplyCase(cow).text # left
      BY <1>1, <2>2, <2>3, <3>1 DEF Undone
    <3>3. \/ ApplyCase(cow) = cow
          \/ \E folded : ApplyCase(cow) = Replaced(cow, folded)
      <4>1. CASE caseMode = "Sensitive"
        BY <4>1 DEF ApplyCase
      <4>2. CASE caseMode = "AsciiOnly"
        BY <4>2 DEF ApplyCase, FoldAscii
      <4>3. CASE caseMode = "Fold"
        <5>1. ApplyCase(cow) = FoldFull(cow) /\ feature
          BY <1>1, <4>3 DEF ApplyCase
        <5>2. CASE IsAscii(cow.text)
          BY <5>1, <5>2 DEF FoldFull, FoldAscii
        <5>3. CASE ~ IsAscii(cow.text)
          BY <5>1, <5>3 DEF FoldFull, FoldUnicode
        <5> QED
          BY <5>2, <5>3
      <4> QED
        BY <1>1, <4>1, <4>2, <4>3 DEF Configured, CaseModes, FoldModes
    <3>4. CASE ApplyCase(cow) = cow
      BY <2>1, <3>1, <3>4
    <3>5. ASSUME NEW folded, ApplyCase(cow) = Replaced(cow, folded)
          PROVE  Tells(ApplyCase(cow), left)
      <4>1. cow.text # left => folded # left
        BY <3>2, <3>5, ReplacedIs
      <4> HIDE DEF cow
      <4> QED
        BY <2>1, <3>5, <4>1, ReplacedTells
    <3> QED
      BY <3>1, <3>3, <3>4, <3>5
  <2> QED
    BY <2>4, <2>5
<1>2. NInv => OwnedIffChanged \/ Undone
  BY <1>1 DEF NInv, OwnedIffChanged, Tells
<1> QED
  BY <1>2, NormInvariance, PTL

-------------------------------------------------------------------------------
(***************************************************************************)
(* Where the characters of a text are among its bytes.                      *)
(***************************************************************************)
Before(text) == CHOOSE g : Prefixes(g, text)

\* The i + 1st character of a text begins at this byte.
Pos(text, i) == Len(Before(text)[i])

LEMMA BeforeIs ==
  ASSUME NEW text \in Seq(CodePoint)
  PROVE  /\ Prefixes(Before(text), text)
         /\ Len(text) \in Nat
         /\ Bytes(text) \in Seq(Byte) /\ Len(Bytes(text)) \in Nat /\ WellFormed(Bytes(text))
         /\ Pos(text, 0) = 0 /\ Pos(text, Len(text)) = Len(Bytes(text))
         /\ \A i \in 0 .. Len(text) : Pos(text, i) \in Nat
<1>1. Prefixes(Before(text), text)
  BY PrefixesExist DEF Before
<1>2. Len(text) \in Nat
  OBVIOUS
<1>3. /\ Before(text) \in [0 .. Len(text) -> Seq(Byte)] /\ Before(text)[0] = <<>>
      /\ Before(text)[Len(text)] = Bytes(text)
  BY <1>1 DEF Prefixes
<1>4. Bytes(text) \in Seq(Byte) /\ WellFormed(Bytes(text))
  BY BytesWellFormed
<1>5. Len(Bytes(text)) \in Nat
  BY <1>4
<1>6. Pos(text, 0) = 0 /\ Pos(text, Len(text)) = Len(Bytes(text))
  BY <1>3 DEF Pos
<1>7. ASSUME NEW i \in 0 .. Len(text) PROVE Pos(text, i) \in Nat
  <2>1. Before(text)[i] \in Seq(Byte)
    BY <1>3
  <2> QED
    BY <2>1 DEF Pos
<1> QED
  BY <1>1, <1>2, <1>4, <1>5, <1>6, <1>7

\* The bytes of one character.
Width(c) == Len(Encode(c))

LEMMA WidthIs ==
  ASSUME NEW c \in CodePoint
  PROVE  /\ c \in Nat /\ Encode(c) \in Seq(Byte)
         /\ Width(c) \in 1 .. 4 /\ Width(c) = CharLen(At(Encode(c), 0))
         /\ ~ Continuation(At(Encode(c), 0)) /\ CharAt(Encode(c), 0) = c
         /\ \A k \in 1 .. Width(c) - 1 : Continuation(At(Encode(c), k))
         /\ At(Encode(c), 0) \in Nat
         /\ c < 128 <=> At(Encode(c), 0) < 128
         /\ c < 128 => Width(c) = 1 /\ At(Encode(c), 0) = c
<1>1. /\ Encode(c) \in Seq(Byte)
      /\ Width(c) \in 1 .. 4 /\ Width(c) = CharLen(At(Encode(c), 0))
      /\ ~ Continuation(At(Encode(c), 0)) /\ CharAt(Encode(c), 0) = c
      /\ \A k \in 1 .. Width(c) - 1 : Continuation(At(Encode(c), k))
  BY EncodeIs DEF Encodes, Width
<1>2. c \in Nat
  BY CodePointIs
<1>3. At(Encode(c), 0) \in Nat
  <2>1. 0 \in Nat /\ 0 < Len(Encode(c))
    BY <1>1 DEF Width
  <2> QED
    BY <1>1, <2>1, ByteIs
<1>4. ASSUME c < 128 PROVE Width(c) = 1 /\ At(Encode(c), 0) = c
  <2>1. Encode(c) = <<c>>
    BY <1>2, <1>4 DEF Encode
  <2> QED
    BY <2>1 DEF Width, At
<1>5. ASSUME At(Encode(c), 0) < 128 PROVE c < 128
  <2>1. CharLen(At(Encode(c), 0)) = 1
    BY <1>3, <1>5, CharLenIs
  <2>2. CharAt(Encode(c), 0) = At(Encode(c), 0)
    BY <2>1 DEF CharAt
  <2> QED
    BY <1>1, <1>5, <2>2
<1> QED
  BY <1>1, <1>2, <1>3, <1>4, <1>5

\* The first characters stay where they are when others follow.
LEMMA BeforeGrows ==
  ASSUME NEW text \in Seq(CodePoint), NEW i \in 0 .. Len(text), NEW n \in Nat, i + n <= Len(text)
  PROVE  /\ Pos(text, i) <= Pos(text, i + n)
         /\ \A k \in 0 .. Pos(text, i) - 1 : At(Before(text)[i + n], k) = At(Before(text)[i], k)
<1> DEFINE g == Before(text)
           Same(m) == /\ Len(g[i]) <= Len(g[i + m])
                      /\ \A k \in 0 .. Len(g[i]) - 1 : At(g[i + m], k) = At(g[i], k)
           S == {m \in Nat : i + m <= Len(text) => Same(m)}
<1>1. /\ g \in [0 .. Len(text) -> Seq(Byte)] /\ Len(text) \in Nat
      /\ \A m \in 1 .. Len(text) : g[m] = g[m - 1] \o Encode(text[m])
  BY BeforeIs DEF Prefixes
<1>2. 0 \in S
  <2>1. i + 0 = i /\ g[i] \in Seq(Byte)
    BY <1>1
  <2>2. Len(g[i]) \in Nat
    BY <2>1
  <2> HIDE DEF g
  <2> QED
    BY <2>1, <2>2
<1>3. ASSUME NEW m \in Nat, m \in S PROVE m + 1 \in S
  <2>1. SUFFICES ASSUME i + (m + 1) <= Len(text) PROVE Same(m + 1)
    OBVIOUS
  <2>2. /\ i + (m + 1) \in 1 .. Len(text) /\ (i + (m + 1)) - 1 = i + m
        /\ i + m <= Len(text) /\ i + m \in 0 .. Len(text)
    BY <1>1, <2>1
  <2>3. Same(m)
    BY <1>3, <2>2
  <2>4. g[i] \in Seq(Byte) /\ g[i + m] \in Seq(Byte) /\ Encode(text[i + (m + 1)]) \in Seq(Byte)
    <3>1. text[i + (m + 1)] \in CodePoint
      BY <2>2
    <3>2. Encode(text[i + (m + 1)]) \in Seq(Byte)
      BY <3>1, WidthIs
    <3> QED
      BY <1>1, <2>2, <3>2
  <2>5. g[i + (m + 1)] = g[i + m] \o Encode(text[i + (m + 1)])
    BY <1>1, <2>2
  <2> HIDE DEF g
  <2>6. /\ Len(g[i + (m + 1)]) = Len(g[i + m]) + Len(Encode(text[i + (m + 1)]))
        /\ Len(g[i + m]) \in Nat /\ Len(Encode(text[i + (m + 1)])) \in Nat /\ Len(g[i]) \in Nat
        /\ \A k \in 0 .. Len(g[i + m]) - 1 : At(g[i + (m + 1)], k) = At(g[i + m], k)
    BY <2>4, <2>5, JoinAt
  <2>7. ASSUME NEW k \in 0 .. Len(g[i]) - 1 PROVE k \in 0 .. Len(g[i + m]) - 1
    BY <2>3, <2>6
  <2>8. \A k \in 0 .. Len(g[i]) - 1 : At(g[i + (m + 1)], k) = At(g[i], k)
    BY <2>3, <2>6, <2>7
  <2>9. Len(g[i]) <= Len(g[i + (m + 1)])
    <3>1. \A x, y, z \in Nat : x <= y => x <= y + z
      OBVIOUS
    <3> QED
      BY <2>3, <2>6, <3>1
  <2> QED
    BY <2>8, <2>9
<1>4. n \in S
  <2> HIDE DEF S
  <2> QED
    BY <1>2, <1>3, Induction
<1> QED
  BY <1>4 DEF Pos

\* A character, found by its bytes.
LEMMA CharHere ==
  ASSUME NEW text \in Seq(CodePoint), NEW i \in Nat, i < Len(text)
  PROVE  LET s == Bytes(text)
             p == Pos(text, i)
             c == text[i + 1]
         IN  /\ c \in CodePoint /\ p \in Nat /\ p < Len(s)
             /\ Pos(text, i + 1) = p + Width(c) /\ p + Width(c) <= Len(s)
             /\ \A k \in 0 .. Width(c) - 1 : At(s, p + k) = At(Encode(c), k)
<1> DEFINE g == Before(text)
           c == text[i + 1]
           m == Len(text)
           u == Encode(c)
<1>1. /\ g \in [0 .. m -> Seq(Byte)] /\ m \in Nat /\ g[m] = Bytes(text)
      /\ \A n \in 1 .. m : g[n] = g[n - 1] \o Encode(text[n])
  BY BeforeIs DEF Prefixes
<1>2. i \in 0 .. m /\ i + 1 \in 1 .. m /\ i + 1 \in 0 .. m /\ (i + 1) - 1 = i
  BY <1>1
<1>3. c \in CodePoint /\ u \in Seq(Byte) /\ Len(u) \in 1 .. 4 /\ Width(c) = Len(u)
  BY <1>2, WidthIs DEF Width
<1>4. g[i] \in Seq(Byte) /\ g[i + 1] = g[i] \o u
  BY <1>1, <1>2
<1> HIDE DEF g, u, m
<1>5. /\ Len(g[i + 1]) = Len(g[i]) + Len(u) /\ Len(g[i]) \in Nat
      /\ \A k \in 0 .. Len(u) - 1 : At(g[i + 1], Len(g[i]) + k) = At(u, k)
  BY <1>3, <1>4, JoinAt
<1>6. /\ Pos(text, i + 1) <= Pos(text, m)
      /\ \A k \in 0 .. Pos(text, i + 1) - 1 : At(g[m], k) = At(g[i + 1], k)
  <2>1. /\ m - (i + 1) \in Nat /\ (i + 1) + (m - (i + 1)) = m
        /\ (i + 1) + (m - (i + 1)) <= Len(text) /\ i + 1 \in 0 .. Len(text)
    BY <1>1, <1>2 DEF m
  <2>2. /\ Pos(text, i + 1) <= Pos(text, (i + 1) + (m - (i + 1)))
        /\ \A k \in 0 .. Pos(text, i + 1) - 1 :
             At(Before(text)[(i + 1) + (m - (i + 1))], k) = At(Before(text)[i + 1], k)
    BY <2>1, BeforeGrows
  <2> QED
    BY <2>1, <2>2 DEF g
<1>7. Pos(text, i) = Len(g[i]) /\ Pos(text, i + 1) = Len(g[i + 1]) /\ Pos(text, m) = Len(g[m])
  BY DEF Pos, g
<1>8. ASSUME NEW k \in 0 .. Len(u) - 1 PROVE At(g[m], Len(g[i]) + k) = At(u, k)
  <2>1. Len(g[i]) + k \in 0 .. Len(g[i + 1]) - 1
    BY <1>3, <1>5
  <2> QED
    BY <1>5, <1>6, <1>7, <2>1
<1>9. Len(g[m]) \in Nat
  BY <1>1
<1>10. Pos(text, i + 1) = Pos(text, i) + Width(c) /\ Pos(text, i) \in Nat
  BY <1>3, <1>5, <1>7
<1>11. /\ Pos(text, i) + Width(c) <= Len(Bytes(text)) /\ Pos(text, i) < Len(Bytes(text))
  <2>1. Pos(text, i) + Width(c) <= Len(Bytes(text)) /\ Len(Bytes(text)) \in Nat
    BY <1>1, <1>6, <1>7, <1>9, <1>10
  <2>2. \A x, z \in Nat, w \in 1 .. 4 : x + w <= z => x < z
    OBVIOUS
  <2> QED
    BY <1>3, <1>10, <2>1, <2>2
<1>12. \A k \in 0 .. Width(c) - 1 : At(Bytes(text), Pos(text, i) + k) = At(Encode(c), k)
  BY <1>1, <1>3, <1>7, <1>8 DEF u
<1> HIDE DEF c
<1> QED
  BY <1>3, <1>10, <1>11, <1>12 DEF c

LEMMA CharThere ==
  ASSUME NEW text \in Seq(CodePoint), NEW i \in Nat, i < Len(text)
  PROVE  LET s == Bytes(text)
             p == Pos(text, i)
             c == text[i + 1]
         IN  /\ p \in Starts(s) /\ At(s, p) \in Nat
             /\ CharAt(s, p) = c /\ CharLen(At(s, p)) = Width(c)
             /\ \A k \in 1 .. Width(c) - 1 : Continuation(At(s, p + k))
             /\ c < 128 <=> At(s, p) < 128
             /\ c < 128 => At(s, p) = c /\ Pos(text, i + 1) = p + 1
<1> DEFINE s == Bytes(text)
           p == Pos(text, i)
           c == text[i + 1]
           u == Encode(c)
<1>1. /\ c \in CodePoint /\ p \in Nat /\ p < Len(s) /\ Pos(text, i + 1) = p + Width(c)
      /\ \A k \in 0 .. Width(c) - 1 : At(s, p + k) = At(u, k)
  BY CharHere
<1>2. s \in Seq(Byte) /\ Len(s) \in Nat
  BY BeforeIs
<1> HIDE DEF s, p, c
<1>3. /\ u \in Seq(Byte) /\ Width(c) \in 1 .. 4 /\ Width(c) = CharLen(At(u, 0))
      /\ ~ Continuation(At(u, 0)) /\ CharAt(u, 0) = c
      /\ \A k \in 1 .. Width(c) - 1 : Continuation(At(u, k))
      /\ At(u, 0) \in Nat
      /\ c < 128 <=> At(u, 0) < 128
      /\ c < 128 => Width(c) = 1 /\ At(u, 0) = c
  BY <1>1, WidthIs
<1>4. Width(c) = Len(u)
  BY DEF Width
<1> HIDE DEF u
<1>5. At(s, p) = At(u, 0)
  <2>1. 0 \in 0 .. Width(c) - 1 /\ p + 0 = p
    BY <1>1, <1>3
  <2> QED
    BY <1>1, <2>1
<1>6. p \in Starts(s)
  <2>1. p \in 0 .. Len(s) - 1
    BY <1>1, <1>2
  <2> QED
    BY <1>3, <1>5, <2>1 DEF Starts
<1>7. CharAt(s, p) = c
  <2>1. 0 \in Nat /\ 0 < Len(u)
    BY <1>3, <1>4
  <2>2. SameRun(u, 0, s, p, Width(c))
    <3>1. \A k \in 0 .. Width(c) - 1 : 0 + k = k
      BY <1>3
    <3> QED
      BY <1>1, <3>1 DEF SameRun
  <2>3. CharAt(u, 0) = CharAt(s, p)
    BY <1>1, <1>2, <1>3, <2>1, <2>2, SameChar
  <2> QED
    BY <1>3, <2>3
<1>8. \A k \in 1 .. Width(c) - 1 : Continuation(At(s, p + k))
  <2>1. \A k \in 1 .. Width(c) - 1 : k \in 0 .. Width(c) - 1
    BY <1>3
  <2> QED
    BY <1>1, <1>3, <2>1
<1> QED
  BY <1>1, <1>3, <1>5, <1>6, <1>7, <1>8 DEF s, p, c

\* Every byte belongs to a character.
LEMMA Located ==
  ASSUME NEW text \in Seq(CodePoint), NEW y \in Nat, y < Len(Bytes(text))
  PROVE  \E i \in 0 .. Len(text) - 1 :
           \E k \in 0 .. Width(text[i + 1]) - 1 : y = Pos(text, i) + k
<1> DEFINE Found(n) == y < Pos(text, n) =>
                         \E i \in 0 .. Len(text) - 1 :
                           \E k \in 0 .. Width(text[i + 1]) - 1 : y = Pos(text, i) + k
           S == {n \in Nat : n <= Len(text) => Found(n)}
<1>1. /\ Len(text) \in Nat /\ Pos(text, 0) = 0 /\ Pos(text, Len(text)) = Len(Bytes(text))
      /\ \A i \in 0 .. Len(text) : Pos(text, i) \in Nat
  BY BeforeIs
<1>2. 0 \in S
  BY <1>1
<1>3. ASSUME NEW n \in Nat, n \in S PROVE n + 1 \in S
  <2>1. SUFFICES ASSUME n + 1 <= Len(text), y < Pos(text, n + 1)
                 PROVE  \E i \in 0 .. Len(text) - 1 :
                          \E k \in 0 .. Width(text[i + 1]) - 1 : y = Pos(text, i) + k
    OBVIOUS
  <2>2. n < Len(text) /\ n <= Len(text) /\ n \in 0 .. Len(text) - 1
    BY <1>1, <2>1
  <2>3. CASE y < Pos(text, n)
    BY <1>3, <2>2, <2>3
  <2>4. CASE ~ (y < Pos(text, n))
    <3>1. Pos(text, n + 1) = Pos(text, n) + Width(text[n + 1]) /\ text[n + 1] \in CodePoint
      BY <2>2, CharHere
    <3>2. Width(text[n + 1]) \in 1 .. 4
      BY <3>1, WidthIs
    <3>3. \A p \in Nat, w \in 1 .. 4 : y < p + w /\ ~ (y < p) => y - p \in 0 .. w - 1 /\ y = p + (y - p)
      OBVIOUS
    <3>4. Pos(text, n) \in Nat
      BY <1>1, <2>2
    <3>5. /\ y - Pos(text, n) \in 0 .. Width(text[n + 1]) - 1
          /\ y = Pos(text, n) + (y - Pos(text, n))
      BY <2>1, <2>4, <3>1, <3>2, <3>3, <3>4
    <3> QED
      BY <2>2, <3>5
  <2> QED
    BY <2>3, <2>4
<1>4. Len(text) \in S
  <2> HIDE DEF S
  <2> QED
    BY <1>1, <1>2, <1>3, Induction
<1> QED
  BY <1>1, <1>4

\* A byte below 128 is a character.
LEMMA NarrowLocated ==
  ASSUME NEW text \in Seq(CodePoint), NEW y \in Nat, y < Len(Bytes(text)), At(Bytes(text), y) < 128
  PROVE  \E i \in 0 .. Len(text) - 1 :
           /\ y = Pos(text, i) /\ text[i + 1] = At(Bytes(text), y) /\ text[i + 1] < 128
           /\ Pos(text, i + 1) = y + 1
<1>1. PICK i \in 0 .. Len(text) - 1 :
        \E k \in 0 .. Width(text[i + 1]) - 1 : y = Pos(text, i) + k
  BY Located
<1>2. PICK k \in 0 .. Width(text[i + 1]) - 1 : y = Pos(text, i) + k
  BY <1>1
<1>3. i \in Nat /\ i < Len(text)
  BY BeforeIs
<1>4. /\ \A j \in 1 .. Width(text[i + 1]) - 1 : Continuation(At(Bytes(text), Pos(text, i) + j))
      /\ text[i + 1] < 128 <=> At(Bytes(text), Pos(text, i)) < 128
      /\ text[i + 1] < 128 =>
           At(Bytes(text), Pos(text, i)) = text[i + 1] /\ Pos(text, i + 1) = Pos(text, i) + 1
  BY <1>3, CharThere
<1>5. Pos(text, i) \in Nat /\ text[i + 1] \in CodePoint
  BY <1>3, CharHere
<1>6. Width(text[i + 1]) \in 1 .. 4
  BY <1>5, WidthIs
<1>7. k = 0
  <2>1. SUFFICES ASSUME k # 0 PROVE FALSE
    OBVIOUS
  <2>2. k \in 1 .. Width(text[i + 1]) - 1
    BY <1>6, <2>1
  <2>3. Continuation(At(Bytes(text), y))
    BY <1>2, <1>4, <2>2
  <2>4. \A c : Continuation(c) => c \in Nat /\ ~ (c < 128)
    BY DEF Continuation
  <2> QED
    BY <2>3, <2>4
<1>8. y = Pos(text, i)
  BY <1>2, <1>5, <1>7
<1> QED
  BY <1>4, <1>8

-------------------------------------------------------------------------------
(***************************************************************************)
(* A text and the text it folds to, character by character: where the one   *)
(* has digits and white space, so has the other.                            *)
(***************************************************************************)
Alone(c, d) ==
  /\ c \in CodePoint /\ d \in CodePoint
  /\ c < 128 => d = LowerAscii(c)
  /\ c >= 128 => d >= 128

Folds(x, d) ==
  /\ x \in Seq(CodePoint) /\ d \in Seq(CodePoint) /\ Len(d) = Len(x)
  /\ \A k \in 1 .. Len(x) : Alone(x[k], d[k])

\* Digits and white space have no case.
Caseless(c) == IsDigit(c) \/ IsWs(c)

LEMMA AloneIs ==
  ASSUME NEW c, NEW d, Alone(c, d)
  PROVE  /\ c \in Nat /\ d \in Nat
         /\ c < 128 <=> d < 128
         /\ IsDigit(c) <=> IsDigit(d)
         /\ IsWs(c) <=> IsWs(d)
         /\ Caseless(c) => d = c /\ c < 128
<1>1. c \in Nat /\ d \in Nat
  BY CodePointIs DEF Alone
<1>2. CASE c < 128
  <2>1. d = LowerAscii(c)
    BY <1>2 DEF Alone
  <2>2. d < 128
    BY <1>1, <1>2, <2>1 DEF LowerAscii
  <2>3. IsDigit(c) <=> IsDigit(d)
    BY <1>1, <2>1 DEF LowerAscii, IsDigit
  <2>4. IsWs(c) <=> IsWs(d)
    BY <1>1, <2>1 DEF LowerAscii, IsWs
  <2>5. Caseless(c) => d = c
    BY <1>1, <2>1 DEF LowerAscii, IsWs, IsDigit, Caseless
  <2> QED
    BY <1>1, <1>2, <2>2, <2>3, <2>4, <2>5
<1>3. CASE ~ (c < 128)
  <2>1. d >= 128 /\ c >= 128 /\ ~ (d < 128)
    BY <1>1, <1>3 DEF Alone
  <2>2. ~ IsDigit(c) /\ ~ IsDigit(d)
    BY <1>1, <2>1 DEF IsDigit
  <2>3. ~ IsWs(c) /\ ~ IsWs(d)
    BY <1>1, <2>1 DEF IsWs
  <2> QED
    BY <1>1, <1>3, <2>1, <2>2, <2>3 DEF Caseless
<1> QED
  BY <1>2, <1>3

\* The character at i + 1 is no letter exactly if its first byte is none.
LEMMA LeadIs ==
  ASSUME NEW text \in Seq(CodePoint), NEW i \in Nat, i < Len(text)
  PROVE  /\ text[i + 1] \in CodePoint /\ text[i + 1] \in Nat
         /\ At(Bytes(text), Pos(text, i)) \in Nat
         /\ Pos(text, i) \in Nat /\ Pos(text, i) < Len(Bytes(text))
         /\ IsDigit(text[i + 1]) <=> IsDigit(At(Bytes(text), Pos(text, i)))
         /\ IsWs(text[i + 1]) <=> IsWs(At(Bytes(text), Pos(text, i)))
<1> DEFINE c == text[i + 1]
           h == At(Bytes(text), Pos(text, i))
<1>1. /\ c \in CodePoint /\ Pos(text, i) \in Nat /\ Pos(text, i) < Len(Bytes(text))
  BY CharHere
<1>2. h \in Nat /\ (c < 128 <=> h < 128) /\ (c < 128 => h = c)
  BY CharThere
<1>3. c \in Nat
  BY <1>1, CodePointIs
<1> HIDE DEF c, h
<1>4. IsDigit(c) <=> IsDigit(h)
  BY <1>2, <1>3 DEF IsDigit
<1>5. IsWs(c) <=> IsWs(h)
  BY <1>2, <1>3 DEF IsWs
<1> QED
  BY <1>1, <1>2, <1>3, <1>4, <1>5 DEF c, h

\* The byte before a character is a digit exactly if the character before it is.
LEMMA DigitBeforeIs ==
  ASSUME NEW text \in Seq(CodePoint), NEW i \in 0 .. Len(text)
  PROVE  DigitBefore(Bytes(text), Pos(text, i)) <=> i > 0 /\ IsDigit(text[i])
<1>1. Len(text) \in Nat /\ i \in Nat
  OBVIOUS
<1>2. CASE i = 0
  <2>1. Pos(text, i) = 0
    BY <1>2, BeforeIs
  <2> QED
    BY <1>2, <2>1 DEF DigitBefore
<1>3. CASE i # 0
  <2> DEFINE j == i - 1
             c == text[j + 1]
             w == Width(c)
             s == Bytes(text)
             p == Pos(text, j)
  <2>1. j \in Nat /\ j < Len(text) /\ j + 1 = i /\ i > 0
    BY <1>1, <1>3
  <2>2. /\ c \in CodePoint /\ p \in Nat /\ Pos(text, j + 1) = p + w
    BY <2>1, CharHere
  <2>3. /\ CharLen(At(s, p)) = w /\ At(s, p) \in Nat
        /\ \A k \in 1 .. w - 1 : Continuation(At(s, p + k))
        /\ c < 128 => Pos(text, j + 1) = p + 1
    BY <2>1, CharThere
  <2>4. w \in 1 .. 4 /\ c \in Nat
    BY <2>2, WidthIs
  <2>5. IsDigit(c) <=> IsDigit(At(s, p))
    BY <2>1, LeadIs
  <2> HIDE DEF j, w, p, s
  <2>6. Pos(text, i) = p + w /\ c = text[i]
    BY <2>1, <2>2
  <2>7. CASE w = 1
    <3>1. Pos(text, i) > 0 /\ Pos(text, i) - 1 = p
      BY <2>2, <2>6, <2>7
    <3> QED
      BY <2>1, <2>5, <2>6, <3>1 DEF DigitBefore, s
  <2>8. CASE w # 1
    <3>1. ~ IsDigit(c)
      <4>1. ASSUME c < 128 PROVE FALSE
        BY <2>1, <2>2, <2>3, <2>4, <2>8, <4>1
      <4> QED
        BY <2>4, <4>1 DEF IsDigit
    <3>2. w - 1 \in 1 .. w - 1 /\ p + (w - 1) = (p + w) - 1
      BY <2>2, <2>4, <2>8
    <3>3. Continuation(At(s, Pos(text, i) - 1))
      BY <2>3, <2>6, <3>2
    <3>4. ~ IsDigit(At(s, Pos(text, i) - 1))
      BY <3>3, ContinuationNoDigit
    <3> QED
      BY <2>6, <3>1, <3>4 DEF DigitBefore, s
  <2> QED
    BY <2>7, <2>8
<1> QED
  BY <1>2, <1>3

\* A text and its folding where the i + 1st character begins.
Here(x, d, i) ==
  LET s == Bytes(x)
      t == Bytes(d)
      p == Pos(x, i)
      q == Pos(d, i)
  IN  /\ s \in Seq(Byte) /\ t \in Seq(Byte)
      /\ p \in Nat /\ q \in Nat /\ p <= Len(s) /\ q <= Len(t)
      /\ p < Len(s) <=> i < Len(x)
      /\ q < Len(t) <=> i < Len(x)
      /\ DigitAt(s, p) <=> DigitAt(t, q)
      /\ DigitBefore(s, p) <=> DigitBefore(t, q)

LEMMA HereIs ==
  ASSUME NEW x, NEW d, Folds(x, d), NEW i \in 0 .. Len(x)
  PROVE  Here(x, d, i)
<1> DEFINE s == Bytes(x)
           t == Bytes(d)
           p == Pos(x, i)
           q == Pos(d, i)
<1>1. /\ x \in Seq(CodePoint) /\ d \in Seq(CodePoint) /\ Len(d) = Len(x) /\ Len(x) \in Nat
      /\ i \in Nat /\ i <= Len(x) /\ i \in 0 .. Len(d)
  BY DEF Folds
<1>2. /\ s \in Seq(Byte) /\ t \in Seq(Byte) /\ p \in Nat /\ q \in Nat
      /\ Len(s) \in Nat /\ Len(t) \in Nat
      /\ Pos(x, Len(x)) = Len(s) /\ Pos(d, Len(x)) = Len(t)
  BY <1>1, BeforeIs
<1> HIDE DEF s, t, p, q
<1>3. DigitBefore(s, p) <=> DigitBefore(t, q)
  <2>1. DigitBefore(s, p) <=> i > 0 /\ IsDigit(x[i])
    BY <1>1, DigitBeforeIs DEF s, p
  <2>2. DigitBefore(t, q) <=> i > 0 /\ IsDigit(d[i])
    BY <1>1, DigitBeforeIs DEF t, q
  <2>3. ASSUME i > 0 PROVE IsDigit(x[i]) <=> IsDigit(d[i])
    <3>1. i \in 1 .. Len(x)
      BY <1>1, <2>3
    <3>2. Alone(x[i], d[i])
      BY <3>1 DEF Folds
    <3> QED
      BY <3>2, AloneIs
  <2> QED
    BY <2>1, <2>2, <2>3
<1>4. CASE i = Len(x)
  <2>1. p = Len(s) /\ q = Len(t)
    BY <1>2, <1>4 DEF p, q
  <2>2. ~ (p < Len(s)) /\ ~ (q < Len(t)) /\ p <= Len(s) /\ q <= Len(t)
    BY <1>2, <2>1
  <2>3. ~ DigitAt(s, p) /\ ~ DigitAt(t, q)
    BY <2>2 DEF DigitAt
  <2> QED
    BY <1>1, <1>2, <1>3, <1>4, <2>2, <2>3 DEF Here, s, t, p, q
<1>5. CASE i # Len(x)
  <2>1. i < Len(x) /\ i < Len(d) /\ i + 1 \in 1 .. Len(x)
    BY <1>1, <1>5
  <2>2. p < Len(s) /\ (IsDigit(x[i + 1]) <=> IsDigit(At(s, p)))
    BY <1>1, <2>1, LeadIs DEF s, p
  <2>3. q < Len(t) /\ (IsDigit(d[i + 1]) <=> IsDigit(At(t, q)))
    BY <1>1, <2>1, LeadIs DEF t, q
  <2>4. Alone(x[i + 1], d[i + 1])
    BY <2>1 DEF Folds
  <2>5. IsDigit(x[i + 1]) <=> IsDigit(d[i + 1])
    BY <2>4, AloneIs
  <2>6. DigitAt(s, p) <=> DigitAt(t, q)
    BY <2>2, <2>3, <2>5 DEF DigitAt
  <2>7. p <= Len(s) /\ q <= Len(t)
    BY <1>2, <2>2, <2>3
  <2> QED
    BY <1>2, <1>3, <2>1, <2>2, <2>3, <2>6, <2>7 DEF Here, s, t, p, q
<1> QED
  BY <1>4, <1>5

\* The byte at a character, in the text and in its folding.
LEMMA LeadsIs ==
  ASSUME NEW x, NEW d, Folds(x, d), NEW i \in Nat, i < Len(x)
  PROVE  LET c == At(Bytes(x), Pos(x, i))
             e == At(Bytes(d), Pos(d, i))
         IN  /\ c \in Nat /\ e \in Nat
             /\ c < 128 <=> e < 128
             /\ IsDigit(c) <=> IsDigit(e)
             /\ IsWs(c) <=> IsWs(e)
             /\ c < 128 => /\ e = LowerAscii(c)
                           /\ x[i + 1] = c
                           /\ d[i + 1] = e
                           /\ Pos(x, i + 1) = Pos(x, i) + 1 /\ Pos(d, i + 1) = Pos(d, i) + 1
             /\ Caseless(c) => e = c /\ c < 128
<1>1. x \in Seq(CodePoint) /\ d \in Seq(CodePoint) /\ i < Len(d) /\ i + 1 \in 1 .. Len(x)
  BY DEF Folds
<1> DEFINE c == At(Bytes(x), Pos(x, i))
           e == At(Bytes(d), Pos(d, i))
           u == x[i + 1]
           v == d[i + 1]
<1>2. /\ c \in Nat /\ (IsDigit(u) <=> IsDigit(c)) /\ (IsWs(u) <=> IsWs(c)) /\ u \in Nat
  BY <1>1, LeadIs
<1>3. /\ e \in Nat /\ (IsDigit(v) <=> IsDigit(e)) /\ (IsWs(v) <=> IsWs(e)) /\ v \in Nat
  BY <1>1, LeadIs
<1>4. (u < 128 <=> c < 128) /\ (u < 128 => c = u /\ Pos(x, i + 1) = Pos(x, i) + 1)
  BY <1>1, CharThere
<1>5. (v < 128 <=> e < 128) /\ (v < 128 => e = v /\ Pos(d, i + 1) = Pos(d, i) + 1)
  BY <1>1, CharThere
<1>6. Alone(u, v)
  BY <1>1 DEF Folds
<1>7. /\ u < 128 <=> v < 128
      /\ IsDigit(u) <=> IsDigit(v)
      /\ IsWs(u) <=> IsWs(v)
      /\ Caseless(u) => v = u /\ u < 128
  BY <1>6, AloneIs
<1>8. u < 128 => v = LowerAscii(u)
  BY <1>6 DEF Alone
<1> HIDE DEF c, e, u, v
<1>9. Caseless(c) => e = c /\ c < 128
  BY <1>2, <1>4, <1>5, <1>7 DEF Caseless
<1> QED
  BY <1>2, <1>3, <1>4, <1>5, <1>7, <1>8, <1>9 DEF c, e, u, v

\* Digits and white space are as many in the one as in the other.
LEMMA CaselessRun ==
  ASSUME NEW x, NEW d, Folds(x, d), NEW i \in 0 .. Len(x), NEW n \in Nat,
         Pos(x, i) + n <= Len(Bytes(x)),
         \A m \in 0 .. n - 1 : Caseless(At(Bytes(x), Pos(x, i) + m))
  PROVE  /\ i + n \in 0 .. Len(x)
         /\ Pos(x, i + n) = Pos(x, i) + n /\ Pos(d, i + n) = Pos(d, i) + n
         /\ SameRun(Bytes(x), Pos(x, i), Bytes(d), Pos(d, i), n)
<1> DEFINE s == Bytes(x)
           t == Bytes(d)
           p == Pos(x, i)
           q == Pos(d, i)
           Good(m) == /\ i + m \in 0 .. Len(x)
                      /\ Pos(x, i + m) = p + m /\ Pos(d, i + m) = q + m
                      /\ SameRun(s, p, t, q, m)
           S == {m \in Nat : m <= n => Good(m)}
<1>1. /\ Len(x) \in Nat /\ i \in Nat /\ i <= Len(x) /\ x \in Seq(CodePoint)
  BY DEF Folds
<1>2. /\ p \in Nat /\ q \in Nat /\ Len(s) \in Nat
  BY HereIs DEF Here
<1>3. \A m \in 0 .. n - 1 : Caseless(At(s, p + m))
  OBVIOUS
<1>4. p + n <= Len(s)
  OBVIOUS
<1>5. 0 \in S
  <2>1. i + 0 = i /\ p + 0 = p /\ q + 0 = q
    BY <1>1, <1>2
  <2>2. SameRun(s, p, t, q, 0)
    BY DEF SameRun
  <2> QED
    BY <2>1, <2>2
<1>6. ASSUME NEW m \in Nat, m \in S PROVE m + 1 \in S
  <2>1. SUFFICES ASSUME m + 1 <= n PROVE Good(m + 1)
    OBVIOUS
  <2>2. m <= n /\ m \in 0 .. n - 1
    BY <2>1
  <2>3. Good(m)
    BY <1>6, <2>2
  <2>4. p + m < Len(s)
    <3> HIDE DEF p, s
    <3> QED
      BY <1>2, <1>4, <2>1
  <2>5. Caseless(At(s, p + m))
    BY <1>3, <2>2
  <2>6. i + m \in Nat /\ i + m < Len(x) /\ i + (m + 1) = (i + m) + 1
    <3>1. Here(x, d, i + m)
      BY <2>3, HereIs
    <3>2. Pos(x, i + m) < Len(s) <=> i + m < Len(x)
      BY <3>1 DEF Here
    <3> QED
      BY <1>1, <2>3, <2>4, <3>2
  <2>7. /\ At(t, q + m) = At(s, p + m)
        /\ Pos(x, (i + m) + 1) = (p + m) + 1 /\ Pos(d, (i + m) + 1) = (q + m) + 1
    BY <2>3, <2>5, <2>6, LeadsIs
  <2> HIDE DEF p, q, s, t
  <2>8. p + (m + 1) = (p + m) + 1 /\ q + (m + 1) = (q + m) + 1
    BY <1>2
  <2>9. SameRun(s, p, t, q, m + 1)
    <3>1. \A k \in 0 .. (m + 1) - 1 : k \in 0 .. m - 1 \/ k = m
      OBVIOUS
    <3> QED
      BY <2>3, <2>7, <3>1 DEF SameRun
  <2>10. i + (m + 1) \in 0 .. Len(x)
    BY <1>1, <2>6
  <2> QED
    BY <2>6, <2>7, <2>8, <2>9, <2>10
<1>7. n \in S
  <2> HIDE DEF S
  <2> QED
    BY <1>5, <1>6, Induction
<1> QED
  BY <1>7

\* Where a run of digits ends.
LEMMA DigitEndUnique ==
  ASSUME NEW s \in Seq(Byte), NEW p \in Nat, NEW n \in Nat, p + n <= Len(s),
         \A m \in 0 .. n - 1 : DigitAt(s, p + m), ~ DigitAt(s, p + n)
  PROVE  DigitEnd(s, p) = p + n
<1> DEFINE stops == {k \in 0 .. Len(s) - 1 : ~ IsDigit(At(s, k))}
<1>1. Len(s) \in Nat /\ p <= Len(s) /\ p + n \in p .. Len(s)
  <2>1. Len(s) \in Nat
    OBVIOUS
  <2> QED
    BY <2>1
<1>2. p + n = Len(s) \/ p + n \in stops
  BY <1>1 DEF DigitAt
<1>3. ASSUME NEW k \in p .. Len(s), k < p + n PROVE k \notin stops
  <2>1. k - p \in 0 .. n - 1 /\ p + (k - p) = k
    BY <1>1, <1>3
  <2>2. DigitAt(s, k)
    BY <2>1
  <2> QED
    BY <2>2 DEF DigitAt
<1> HIDE DEF stops
<1>4. p + n = FirstStop(p, Len(s), stops)
  BY <1>1, <1>2, <1>3, FirstStopUnique
<1> QED
  BY <1>4 DEF DigitEnd, stops

\* One run of digits in a text and in its folding.
RunAlike(s, p, t, q) ==
  /\ DigitEnd(s, p) - p \in Nat
  /\ DigitEnd(t, q) - q = DigitEnd(s, p) - p
  /\ p + (DigitEnd(s, p) - p) <= Len(s) /\ q + (DigitEnd(s, p) - p) <= Len(t)
  /\ SameRun(s, p, t, q, DigitEnd(s, p) - p)

LEMMA RunFolds ==
  ASSUME NEW x, NEW d, Folds(x, d), NEW i \in Nat, i < Len(x),
         IsDigit(At(Bytes(x), Pos(x, i)))
  PROVE  RunAlike(Bytes(x), Pos(x, i), Bytes(d), Pos(d, i))
<1> DEFINE s == Bytes(x)
           t == Bytes(d)
           p == Pos(x, i)
           q == Pos(d, i)
           n == DigitEnd(s, p) - p
<1>1. Len(x) \in Nat /\ i \in 0 .. Len(x)
  BY DEF Folds
<1>2. /\ s \in Seq(Byte) /\ t \in Seq(Byte) /\ p \in Nat /\ q \in Nat /\ p < Len(s)
      /\ q <= Len(t) /\ Len(t) \in Nat
  BY <1>1, HereIs DEF Here
<1>3. /\ n \in Nat \ {0} /\ p + n <= Len(s)
      /\ \A m \in 0 .. n - 1 : DigitAt(s, p + m)
      /\ ~ DigitAt(s, p + n)
  BY <1>2, RunIs
<1> HIDE DEF n
<1>4. ASSUME NEW m \in 0 .. n - 1 PROVE Caseless(At(s, p + m))
  BY <1>3 DEF DigitAt, Caseless
<1>5. /\ i + n \in 0 .. Len(x)
      /\ Pos(x, i + n) = p + n /\ Pos(d, i + n) = q + n
      /\ SameRun(s, p, t, q, n)
  BY <1>1, <1>3, <1>4, CaselessRun
<1>6. Here(x, d, i + n)
  BY <1>5, HereIs
<1>7. q + n <= Len(t) /\ ~ DigitAt(t, q + n)
  BY <1>3, <1>5, <1>6 DEF Here
<1>8. ASSUME NEW m \in 0 .. n - 1 PROVE DigitAt(t, q + m)
  <2>1. IsDigit(At(t, q + m))
    BY <1>3, <1>5 DEF SameRun, DigitAt
  <2>2. q + m < Len(t)
    <3> HIDE DEF q, t
    <3> QED
      BY <1>2, <1>3, <1>7
  <2> QED
    BY <2>1, <2>2 DEF DigitAt
<1> HIDE DEF s, t, p, q
<1>9. DigitEnd(t, q) = q + n
  BY <1>2, <1>3, <1>7, <1>8, DigitEndUnique
<1>10. DigitEnd(t, q) - q = n
  BY <1>2, <1>3, <1>9
<1> QED
  BY <1>3, <1>5, <1>7, <1>10 DEF RunAlike, s, t, p, q, n

\* White space adds nothing to what has been read.
LEMMA SpaceRun ==
  ASSUME NEW s \in Seq(Byte), NEW p \in Nat, NEW n \in Nat, p + n <= Len(s),
         \A m \in 0 .. n - 1 : IsWs(At(s, p + m))
  PROVE  Reading(s)[p + n] = Reading(s)[p]
<1> DEFINE S == {m \in Nat : m <= n => Reading(s)[p + m] = Reading(s)[p]}
<1>1. Len(s) \in Nat
  OBVIOUS
<1>2. 0 \in S
  <2>1. p + 0 = p
    OBVIOUS
  <2> QED
    BY <2>1
<1>3. ASSUME NEW m \in Nat, m \in S PROVE m + 1 \in S
  <2>1. SUFFICES ASSUME m + 1 <= n PROVE Reading(s)[p + (m + 1)] = Reading(s)[p]
    OBVIOUS
  <2>2. m <= n /\ m \in 0 .. n - 1 /\ p + m \in Nat /\ p + m < Len(s) /\ p + (m + 1) = (p + m) + 1
    BY <1>1, <2>1
  <2>3. Reading(s)[(p + m) + 1] = ReadByte(Reading(s)[p + m], At(s, p + m))
    BY <2>2, ReadAt
  <2>4. IsWs(At(s, p + m))
    BY <2>2
  <2>5. ReadByte(Reading(s)[p + m], At(s, p + m)) = Reading(s)[p + m]
    BY <2>4, ReadSpace
  <2>6. Reading(s)[p + m] = Reading(s)[p]
    BY <1>3, <2>2
  <2> QED
    BY <2>2, <2>3, <2>5, <2>6
<1>4. n \in S
  <2> HIDE DEF S
  <2> QED
    BY <1>2, <1>3, Induction
<1> QED
  BY <1>4

\* Behind white space a character begins, and nothing more has been read.
LEMMA SpaceFolds ==
  ASSUME NEW x, NEW d, Folds(x, d), NEW i \in 0 .. Len(x)
  PROVE  \E j \in 0 .. Len(x) :
           /\ Pos(x, j) = WsEnd(Bytes(x), Pos(x, i))
           /\ Reading(Bytes(d))[Pos(d, j)] = Reading(Bytes(d))[Pos(d, i)]
<1> DEFINE s == Bytes(x)
           t == Bytes(d)
           p == Pos(x, i)
           q == Pos(d, i)
           stops == {k \in 0 .. Len(s) - 1 : ~ IsWs(At(s, k))}
           e == FirstStop(p, Len(s), stops)
           n == e - p
<1>1. Len(x) \in Nat
  BY DEF Folds
<1>2. /\ s \in Seq(Byte) /\ t \in Seq(Byte) /\ p \in Nat /\ q \in Nat /\ p <= Len(s)
      /\ q <= Len(t) /\ Len(t) \in Nat /\ Len(s) \in Nat
  BY <1>1, HereIs DEF Here
<1>3. e \in p .. Len(s) /\ \A k \in p .. Len(s) : k < e => k \notin stops
  <2> HIDE DEF stops
  <2> QED
    BY <1>2, FirstStopIs
<1> HIDE DEF e
<1>4. n \in Nat /\ p + n <= Len(s) /\ p + n = e
  BY <1>2, <1>3
<1>5. ASSUME NEW m \in 0 .. n - 1 PROVE IsWs(At(s, p + m))
  <2>1. p + m \in p .. Len(s) /\ p + m < e /\ p + m \in 0 .. Len(s) - 1
    BY <1>2, <1>3, <1>4
  <2> QED
    BY <1>3, <2>1
<1> HIDE DEF n
<1>6. /\ i + n \in 0 .. Len(x)
      /\ Pos(x, i + n) = p + n /\ Pos(d, i + n) = q + n
      /\ SameRun(s, p, t, q, n)
  <2>1. \A m \in 0 .. n - 1 : Caseless(At(s, p + m))
    BY <1>5 DEF Caseless
  <2> QED
    BY <1>4, <2>1, CaselessRun
<1>7. Here(x, d, i + n)
  BY <1>6, HereIs
<1>8. q + n <= Len(t)
  BY <1>6, <1>7 DEF Here
<1>9. \A m \in 0 .. n - 1 : IsWs(At(t, q + m))
  BY <1>5, <1>6 DEF SameRun
<1>10. Reading(t)[q + n] = Reading(t)[q]
  BY <1>2, <1>4, <1>8, <1>9, SpaceRun
<1>11. WsEnd(s, p) = e
  BY DEF WsEnd, e
<1> QED
  BY <1>4, <1>6, <1>10, <1>11

\* Folding does not touch zeros, and it puts no white space where none was.
LEMMA PlainFolds ==
  ASSUME NEW x, NEW d, Folds(x, d), Plain(Bytes(x))
  PROVE  Plain(Bytes(d))
<1> DEFINE s == Bytes(x)
           t == Bytes(d)
<1>1. /\ Len(x) \in Nat /\ d \in Seq(CodePoint) /\ x \in Seq(CodePoint) /\ Len(d) = Len(x)
  BY DEF Folds
<1>2. s \in Seq(Byte) /\ t \in Seq(Byte) /\ Len(s) \in Nat /\ Len(t) \in Nat
  BY <1>1, BeforeIs
\* A narrow byte of t is a character, and that of s.
<1>3. ASSUME NEW y \in Nat, y < Len(t), Caseless(At(t, y))
      PROVE  \E i \in 0 .. Len(x) - 1 :
               /\ y = Pos(d, i) /\ y + 1 = Pos(d, i + 1)
               /\ Pos(x, i) \in Nat /\ Pos(x, i) < Len(s) /\ Pos(x, i + 1) = Pos(x, i) + 1
               /\ At(s, Pos(x, i)) = At(t, y)
               /\ DigitBefore(s, Pos(x, i)) <=> DigitBefore(t, y)
               /\ DigitAt(s, Pos(x, i) + 1) <=> DigitAt(t, y + 1)
               /\ Pos(x, i) + 1 < Len(s) <=> y + 1 < Len(t)
  <2>1. \A c : Caseless(c) => c < 128
    BY DEF Caseless, IsDigit, IsWs
  <2>2. PICK i \in 0 .. Len(d) - 1 :
          y = Pos(d, i) /\ d[i + 1] = At(t, y) /\ Pos(d, i + 1) = y + 1
    BY <1>1, <1>3, <2>1, NarrowLocated
  <2>3. i \in Nat /\ i < Len(x) /\ i \in 0 .. Len(x) - 1 /\ i \in 0 .. Len(x) /\ i + 1 \in 0 .. Len(x)
    BY <1>1
  <2>4. Alone(x[i + 1], d[i + 1])
    <3>1. i + 1 \in 1 .. Len(x)
      BY <2>3
    <3> QED
      BY <3>1 DEF Folds
  <2>5. Caseless(x[i + 1]) /\ d[i + 1] = x[i + 1]
    <3>1. Caseless(d[i + 1])
      BY <1>3, <2>2
    <3>2. Caseless(x[i + 1])
      BY <2>4, <3>1, AloneIs DEF Caseless
    <3> QED
      BY <2>4, <3>2, AloneIs
  <2>6. Caseless(At(s, Pos(x, i)))
    BY <1>1, <2>3, <2>5, LeadIs DEF Caseless
  <2>7. At(s, Pos(x, i)) = At(t, y) /\ Pos(x, i + 1) = Pos(x, i) + 1
    BY <2>2, <2>3, <2>6, LeadsIs
  <2>8. Here(x, d, i) /\ Here(x, d, i + 1)
    BY <2>3, HereIs
  <2> HIDE DEF s, t
  <2>9. Pos(x, i) \in Nat /\ Pos(x, i) < Len(s) /\ (DigitBefore(s, Pos(x, i)) <=> DigitBefore(t, y))
    BY <2>2, <2>3, <2>8 DEF Here, s, t
  <2>10. DigitAt(s, Pos(x, i + 1)) <=> DigitAt(t, Pos(d, i + 1))
    BY <2>8 DEF Here, s, t
  <2>11. Pos(x, i + 1) < Len(s) <=> Pos(d, i + 1) < Len(t)
    BY <2>8 DEF Here, s, t
  <2> QED
    BY <2>2, <2>3, <2>7, <2>9, <2>10, <2>11
<1>4. ASSUME NEW k \in 1 .. Len(t) - 1, IsWs(t[k + 1]) PROVE ~ IsDigit(t[k])
  <2>1. k \in Nat /\ k < Len(t) /\ At(t, k) = t[k + 1] /\ At(t, k - 1) = t[k] /\ k > 0
    <3>1. (k - 1) + 1 = k
      OBVIOUS
    <3> QED
      BY <1>2, <3>1 DEF At
  <2>2. Caseless(At(t, k))
    BY <1>4, <2>1 DEF Caseless
  <2>3. PICK i \in 0 .. Len(x) - 1 :
          /\ Pos(x, i) \in Nat /\ Pos(x, i) < Len(s)
          /\ At(s, Pos(x, i)) = At(t, k)
          /\ DigitBefore(s, Pos(x, i)) <=> DigitBefore(t, k)
    <3> HIDE DEF s, t
    <3> QED
      BY <1>3, <2>1, <2>2
  <2>4. ~ DigitBefore(s, Pos(x, i))
    <3>1. IsWs(At(s, Pos(x, i)))
      BY <1>4, <2>1, <2>3
    <3> QED
      BY <1>2, <2>3, <3>1, PlainIs
  <2>5. ~ DigitBefore(t, k)
    BY <2>3, <2>4
  <2> QED
    BY <2>1, <2>5 DEF DigitBefore
<1>5. ASSUME NEW k \in 1 .. Len(t) - 1, t[k] = Zero, IsDigit(t[k + 1])
      PROVE  k > 1 /\ IsDigit(t[k - 1])
  <2>1. /\ k - 1 \in Nat /\ k - 1 < Len(t) /\ At(t, k - 1) = t[k] /\ At(t, k) = t[k + 1]
        /\ (k - 1) + 1 = k /\ k < Len(t)
    <3>1. (k - 1) + 1 = k
      OBVIOUS
    <3> QED
      BY <1>2, <3>1 DEF At
  <2>2. Caseless(At(t, k - 1))
    BY <1>5, <2>1 DEF Caseless, IsDigit, Zero
  <2>3. PICK i \in 0 .. Len(x) - 1 :
          /\ Pos(x, i) \in Nat /\ Pos(x, i) < Len(s)
          /\ At(s, Pos(x, i)) = At(t, k - 1)
          /\ DigitBefore(s, Pos(x, i)) <=> DigitBefore(t, k - 1)
          /\ DigitAt(s, Pos(x, i) + 1) <=> DigitAt(t, (k - 1) + 1)
    <3> HIDE DEF s, t
    <3> QED
      BY <1>3, <2>1, <2>2
  <2>4. DigitBefore(s, Pos(x, i))
    <3>1. DigitAt(t, k)
      BY <1>5, <2>1 DEF DigitAt
    <3>2. At(s, Pos(x, i)) = Zero /\ DigitAt(s, Pos(x, i) + 1)
      BY <1>5, <2>1, <2>3, <3>1
    <3> QED
      BY <1>2, <2>3, <3>2, PlainIs
  <2>5. k - 1 > 0 /\ IsDigit(At(t, (k - 1) - 1))
    BY <2>3, <2>4 DEF DigitBefore
  <2>6. At(t, (k - 1) - 1) = t[k - 1]
    <3>1. ((k - 1) - 1) + 1 = k - 1
      OBVIOUS
    <3> QED
      BY <3>1 DEF At
  <2>7. k > 1
    BY <2>5
  <2> QED
    BY <2>5, <2>6, <2>7
<1>6. ASSUME t # <<>>, IsWs(t[Len(t)]) PROVE FALSE
  <2>1. Len(t) > 0
    BY <1>2, <1>6
  <2> DEFINE k == Len(t) - 1
  <2>2. k \in Nat /\ k < Len(t) /\ k + 1 = Len(t)
    BY <1>2, <2>1
  <2>3. At(t, k) = t[Len(t)]
    BY <2>2 DEF At
  <2>4. Caseless(At(t, k))
    BY <1>6, <2>3 DEF Caseless
  <2>5. PICK i \in 0 .. Len(x) - 1 :
          /\ Pos(x, i) \in Nat /\ Pos(x, i) < Len(s)
          /\ At(s, Pos(x, i)) = At(t, k)
          /\ Pos(x, i) + 1 < Len(s) <=> k + 1 < Len(t)
    <3> HIDE DEF s, t, k
    <3> QED
      BY <1>3, <2>2, <2>4
  <2>6. IsWs(At(s, Pos(x, i)))
    BY <1>6, <2>3, <2>5
  <2>7. Pos(x, i) + 1 < Len(s)
    BY <1>2, <2>5, <2>6, PlainIs
  <2>8. ~ (k + 1 < Len(t))
    BY <1>2, <2>2
  <2> QED
    BY <2>5, <2>7, <2>8
<1> QED
  BY <1>4, <1>5, <1>6 DEF Plain

\* Two pairs of equal runs compare alike.
LEMMA WordsAlike ==
  ASSUME NEW s, NEW p \in Nat, NEW t, NEW q \in Nat,
         NEW u, NEW x \in Nat, NEW v, NEW y \in Nat, NEW n \in Nat,
         SameRun(s, p, u, x, n), SameRun(t, q, v, y, n)
  PROVE  CompareWords(s, p, t, q, n) = CompareWords(u, x, v, y, n)
<1> DEFINE k == EqualBytes(s, p, t, q, n)
<1>1. /\ k \in 0 .. n /\ SameRun(s, p, t, q, k)
      /\ k # n => At(s, p + k) # At(t, q + k)
  BY EqualBytesIs
<1> HIDE DEF k
<1>2. \A i \in 0 .. n - 1 : At(u, x + i) = At(s, p + i) /\ At(v, y + i) = At(t, q + i)
  BY DEF SameRun
<1>3. SameRun(u, x, v, y, k)
  <2>1. \A i \in 0 .. k - 1 : i \in 0 .. n - 1
    BY <1>1
  <2> QED
    BY <1>1, <1>2, <2>1 DEF SameRun
<1>4. ASSUME k # n
      PROVE  /\ At(u, x + k) # At(v, y + k)
             /\ At(u, x + k) = At(s, p + k) /\ At(v, y + k) = At(t, q + k)
  <2>1. k \in 0 .. n - 1
    BY <1>1, <1>4
  <2> QED
    BY <1>1, <1>2, <1>4, <2>1
<1>5. EqualBytes(u, x, v, y, n) = k
  BY <1>1, <1>3, <1>4, EqualBytesUnique
<1>6. EqualBytes(s, p, t, q, n) = k
  BY DEF k
<1> QED
  BY <1>4, <1>5, <1>6 DEF CompareWords

LEMMA HandleDigitsAlike ==
  ASSUME NEW s, NEW p, NEW t, NEW q, AtDigits(s, p, t, q),
         NEW u, NEW x, NEW v, NEW y, AtDigits(u, x, v, y),
         RunAlike(s, p, u, x), RunAlike(t, q, v, y),
         LeadingZero(s, p) <=> LeadingZero(u, x), LeadingZero(t, q) <=> LeadingZero(v, y)
  PROVE  HandleDigits(s, p, t, q).order = HandleDigits(u, x, v, y).order
<1> DEFINE m == DigitEnd(s, p) - p
           n == DigitEnd(t, q) - q
           k == Smaller(m, n)
<1>1. /\ p \in Nat /\ q \in Nat /\ x \in Nat /\ y \in Nat /\ m \in Nat /\ n \in Nat
      /\ DigitEnd(u, x) - x = m /\ DigitEnd(v, y) - y = n
      /\ SameRun(s, p, u, x, m) /\ SameRun(t, q, v, y, n)
  BY DEF AtDigits, RunAlike
<1> HIDE DEF m, n
<1>2. k \in Nat /\ k <= m /\ k <= n
  BY <1>1, SmallerIs
<1> HIDE DEF k
<1>3. ASSUME NEW l \in Nat, l <= m, l <= n
      PROVE  CompareWords(s, p, t, q, l) = CompareWords(u, x, v, y, l)
  <2>1. \A i \in 0 .. l - 1 : i \in 0 .. m - 1 /\ i \in 0 .. n - 1
    BY <1>1, <1>3
  <2>2. SameRun(s, p, u, x, l) /\ SameRun(t, q, v, y, l)
    BY <1>1, <2>1 DEF SameRun
  <2> QED
    BY <1>1, <1>3, <2>2, WordsAlike
<1>4. LeftLong(s, p, t, q).order = LeftLong(u, x, v, y).order
  <2>1. CompareWords(s, p, t, q, k) = CompareWords(u, x, v, y, k)
    BY <1>2, <1>3
  <2> QED
    BY <1>1, <2>1 DEF LeftLong, Outcome, m, n, k
<1>5. RightLong(s, p, t, q).order = RightLong(u, x, v, y).order
  <2>1. m = n => CompareWords(s, p, t, q, m) = CompareWords(u, x, v, y, m)
    BY <1>1, <1>3
  <2> QED
    BY <1>1, <2>1 DEF RightLong, Outcome, m, n
<1>6. /\ LeftAligned(s, p, t, q).order = LeftLong(s, p, t, q).order
      /\ RightAligned(s, p, t, q).order = RightLong(s, p, t, q).order
  BY LeftPathsAgree, RightPathsAgree DEF LeftAligned, RightAligned
<1>7. /\ LeftAligned(u, x, v, y).order = LeftLong(u, x, v, y).order
      /\ RightAligned(u, x, v, y).order = RightLong(u, x, v, y).order
  BY LeftPathsAgree, RightPathsAgree DEF LeftAligned, RightAligned
<1> QED
  BY <1>4, <1>5, <1>6, <1>7 DEF HandleDigits

-------------------------------------------------------------------------------
(***************************************************************************)
(* The order of two characters is that of their bytes.                      *)
(***************************************************************************)
\* The first byte in which u and v differ is less in u.
Lower(u, v) ==
  \E k \in 0 .. 3 :
    /\ k < Len(u) /\ k < Len(v)
    /\ \A i \in 0 .. k - 1 : At(u, i) = At(v, i)
    /\ At(u, k) < At(v, k)

LEMMA LastDigitOrder ==
  ASSUME NEW c \in Nat, NEW d \in Nat, c < d
  PROVE  \/ c \div 64 < d \div 64
         \/ c \div 64 = d \div 64 /\ c % 64 < d % 64
<1>1. /\ c \div 64 \in Nat /\ c % 64 \in Nat /\ c % 64 < 64 /\ c = (c \div 64) * 64 + (c % 64)
  BY LastDigit
<1>2. /\ d \div 64 \in Nat /\ d % 64 \in Nat /\ d % 64 < 64 /\ d = (d \div 64) * 64 + (d % 64)
  BY LastDigit
<1>3. \A q, r, x, y \in Nat : q * 64 + r < x * 64 + y /\ r < 64 /\ y < 64
                                => q < x \/ (q = x /\ r < y)
  OBVIOUS
<1> QED
  BY <1>1, <1>2, <1>3

Decides(u, v, n) ==
  /\ n > 0 /\ At(u, 0) < At(v, 0) => Lower(u, v)
  /\ n > 1 /\ At(u, 0) = At(v, 0) /\ At(u, 1) < At(v, 1) => Lower(u, v)
  /\ n > 2 /\ At(u, 0) = At(v, 0) /\ At(u, 1) = At(v, 1) /\ At(u, 2) < At(v, 2)
       => Lower(u, v)
  /\ n > 3 /\ At(u, 0) = At(v, 0) /\ At(u, 1) = At(v, 1) /\ At(u, 2) = At(v, 2)
       /\ At(u, 3) < At(v, 3)
       => Lower(u, v)

LEMMA LowerIs ==
  ASSUME NEW u, NEW v, NEW n \in Nat, Len(u) = n, Len(v) = n
  PROVE  Decides(u, v, n)
<1>1. ASSUME NEW k \in 0 .. 3, k < n, \A i \in 0 .. k - 1 : At(u, i) = At(v, i),
             At(u, k) < At(v, k)
      PROVE  Lower(u, v)
  BY <1>1 DEF Lower
<1>2. ASSUME n > 0, At(u, 0) < At(v, 0) PROVE Lower(u, v)
  <2>1. \A i \in 0 .. 0 - 1 : At(u, i) = At(v, i)
    OBVIOUS
  <2> QED
    BY <1>1, <1>2, <2>1
<1>3. ASSUME n > 1, At(u, 0) = At(v, 0), At(u, 1) < At(v, 1) PROVE Lower(u, v)
  <2>1. \A i \in 0 .. 1 - 1 : i = 0
    OBVIOUS
  <2> QED
    BY <1>1, <1>3, <2>1
<1>4. ASSUME n > 2, At(u, 0) = At(v, 0), At(u, 1) = At(v, 1), At(u, 2) < At(v, 2)
      PROVE  Lower(u, v)
  <2>1. \A i \in 0 .. 2 - 1 : i = 0 \/ i = 1
    OBVIOUS
  <2> QED
    BY <1>1, <1>4, <2>1
<1>5. ASSUME n > 3, At(u, 0) = At(v, 0), At(u, 1) = At(v, 1), At(u, 2) = At(v, 2),
             At(u, 3) < At(v, 3)
      PROVE  Lower(u, v)
  <2>1. \A i \in 0 .. 3 - 1 : i = 0 \/ i = 1 \/ i = 2
    OBVIOUS
  <2> QED
    BY <1>1, <1>5, <2>1
<1> QED
  BY <1>2, <1>3, <1>4, <1>5 DEF Decides

LEMMA EncodeOrder ==
  ASSUME NEW c \in CodePoint, NEW d \in CodePoint, 128 <= c, c < d
  PROVE  Lower(Encode(c), Encode(d))
<1> DEFINE c1 == c \div 64
           c2 == c1 \div 64
           c3 == c2 \div 64
           d1 == d \div 64
           d2 == d1 \div 64
           d3 == d2 \div 64
<1>1. c \in Nat /\ d \in Nat
  BY CodePointIs
<1>2. /\ c1 \in Nat /\ c = c1 * 64 + (c % 64) /\ c % 64 \in Nat /\ c % 64 < 64
      /\ d1 \in Nat /\ d = d1 * 64 + (d % 64) /\ d % 64 \in Nat /\ d % 64 < 64
  BY <1>1, LastDigit
<1>3. /\ c1 < d1 \/ (c1 = d1 /\ c % 64 < d % 64)
  BY <1>1, LastDigitOrder
<1>4. /\ c \div 4096 = c2 /\ d \div 4096 = d2
  BY <1>1, DivTwice
<1> HIDE DEF c1, d1
<1>5. /\ c2 \in Nat /\ c1 = c2 * 64 + (c1 % 64) /\ c1 % 64 \in Nat /\ c1 % 64 < 64
      /\ d2 \in Nat /\ d1 = d2 * 64 + (d1 % 64) /\ d1 % 64 \in Nat /\ d1 % 64 < 64
  BY <1>2, LastDigit
<1>6. c1 < d1 => c2 < d2 \/ (c2 = d2 /\ c1 % 64 < d1 % 64)
  BY <1>2, LastDigitOrder
<1>7. c \div 262144 = c3 /\ d \div 262144 = d3
  BY <1>1, <1>4, DivThrice
<1> HIDE DEF c2, d2
<1>8. /\ c3 \in Nat /\ c2 = c3 * 64 + (c2 % 64) /\ c2 % 64 \in Nat /\ c2 % 64 < 64
      /\ d3 \in Nat /\ d2 = d3 * 64 + (d2 % 64) /\ d2 % 64 \in Nat /\ d2 % 64 < 64
  BY <1>5, LastDigit
<1>9. c2 < d2 => c3 < d3 \/ (c3 = d3 /\ c2 % 64 < d2 % 64)
  BY <1>5, LastDigitOrder
<1> HIDE DEF c3, d3
<1>10. /\ c < 2048 => Encode(c) = <<192 + c1, 128 + (c % 64)>>
       /\ c >= 2048 /\ c < 65536 =>
            Encode(c) = <<224 + c2, 128 + (c1 % 64), 128 + (c % 64)>>
       /\ c >= 65536 =>
            Encode(c) = <<240 + c3, 128 + (c2 % 64), 128 + (c1 % 64), 128 + (c % 64)>>
  <2>1. c \div 64 = c1 /\ ~ (c < 128)
    BY <1>1 DEF c1
  <2> QED
    BY <1>1, <1>4, <1>7, <2>1 DEF Encode
<1>11. /\ d < 2048 => Encode(d) = <<192 + d1, 128 + (d % 64)>>
       /\ d >= 2048 /\ d < 65536 =>
            Encode(d) = <<224 + d2, 128 + (d1 % 64), 128 + (d % 64)>>
       /\ d >= 65536 =>
            Encode(d) = <<240 + d3, 128 + (d2 % 64), 128 + (d1 % 64), 128 + (d % 64)>>
  <2>1. d \div 64 = d1 /\ ~ (d < 128) /\ 128 <= d
    BY <1>1 DEF d1
  <2> QED
    BY <1>1, <1>4, <1>7, <2>1 DEF Encode
<1>13. CASE d < 2048
  <2> DEFINE u == <<192 + c1, 128 + (c % 64)>>
             v == <<192 + d1, 128 + (d % 64)>>
  <2>1. Encode(c) = u /\ Encode(d) = v
    BY <1>1, <1>10, <1>11, <1>13
  <2>2. /\ Len(u) = 2 /\ Len(v) = 2
        /\ At(u, 0) = 192 + c1 /\ At(u, 1) = 128 + (c % 64)
        /\ At(v, 0) = 192 + d1 /\ At(v, 1) = 128 + (d % 64)
    BY DEF At
  <2> HIDE DEF u, v
  <2>9. Decides(u, v, 2)
    BY <2>2, LowerIs
  <2>3. CASE c1 < d1
    <3>1. At(u, 0) < At(v, 0)
      BY <1>2, <2>2, <2>3
    <3> QED
      BY <2>1, <2>9, <3>1 DEF Decides
  <2>4. CASE c1 = d1 /\ c % 64 < d % 64
    <3>1. At(u, 1) < At(v, 1) /\ At(u, 0) = At(v, 0)
      BY <1>2, <2>2, <2>4
    <3> QED
      BY <2>1, <2>9, <3>1 DEF Decides
  <2> QED
    BY <1>3, <2>3, <2>4
<1>14. CASE c >= 2048 /\ d < 65536
  <2> DEFINE u == <<224 + c2, 128 + (c1 % 64), 128 + (c % 64)>>
             v == <<224 + d2, 128 + (d1 % 64), 128 + (d % 64)>>
  <2>1. Encode(c) = u /\ Encode(d) = v
    BY <1>1, <1>10, <1>11, <1>14
  <2>2. /\ Len(u) = 3 /\ Len(v) = 3
        /\ At(u, 0) = 224 + c2 /\ At(u, 1) = 128 + (c1 % 64) /\ At(u, 2) = 128 + (c % 64)
        /\ At(v, 0) = 224 + d2 /\ At(v, 1) = 128 + (d1 % 64) /\ At(v, 2) = 128 + (d % 64)
    BY DEF At
  <2> HIDE DEF u, v
  <2>9. Decides(u, v, 3)
    BY <2>2, LowerIs
  <2>3. CASE c2 < d2
    <3>1. At(u, 0) < At(v, 0)
      BY <1>5, <2>2, <2>3
    <3> QED
      BY <2>1, <2>9, <3>1 DEF Decides
  <2>4. CASE c2 = d2 /\ c1 % 64 < d1 % 64
    <3>1. At(u, 1) < At(v, 1) /\ At(u, 0) = At(v, 0)
      BY <1>5, <2>2, <2>4
    <3> QED
      BY <2>1, <2>9, <3>1 DEF Decides
  <2>5. CASE c1 = d1 /\ c % 64 < d % 64
    <3>1. At(u, 2) < At(v, 2)
      BY <1>2, <2>2, <2>5
    <3>2. At(u, 0) = At(v, 0) /\ At(u, 1) = At(v, 1)
      BY <2>2, <2>5 DEF c2, d2
    <3> QED
      BY <2>1, <2>9, <3>1, <3>2 DEF Decides
  <2> QED
    BY <1>3, <1>6, <2>3, <2>4, <2>5
<1>15. CASE c >= 65536
  <2> DEFINE u == <<240 + c3, 128 + (c2 % 64), 128 + (c1 % 64), 128 + (c % 64)>>
             v == <<240 + d3, 128 + (d2 % 64), 128 + (d1 % 64), 128 + (d % 64)>>
  <2>1. Encode(c) = u /\ Encode(d) = v
    BY <1>1, <1>10, <1>11, <1>15
  <2>2. /\ Len(u) = 4 /\ Len(v) = 4
        /\ At(u, 0) = 240 + c3 /\ At(u, 1) = 128 + (c2 % 64)
        /\ At(u, 2) = 128 + (c1 % 64) /\ At(u, 3) = 128 + (c % 64)
        /\ At(v, 0) = 240 + d3 /\ At(v, 1) = 128 + (d2 % 64)
        /\ At(v, 2) = 128 + (d1 % 64) /\ At(v, 3) = 128 + (d % 64)
    BY DEF At
  <2> HIDE DEF u, v
  <2>9. Decides(u, v, 4)
    BY <2>2, LowerIs
  <2>3. CASE c3 < d3
    <3>1. At(u, 0) < At(v, 0)
      BY <1>8, <2>2, <2>3
    <3> QED
      BY <2>1, <2>9, <3>1 DEF Decides
  <2>4. CASE c3 = d3 /\ c2 % 64 < d2 % 64
    <3>1. At(u, 1) < At(v, 1) /\ At(u, 0) = At(v, 0)
      BY <1>8, <2>2, <2>4
    <3> QED
      BY <2>1, <2>9, <3>1 DEF Decides
  <2>5. CASE c2 = d2 /\ c1 % 64 < d1 % 64
    <3>1. At(u, 2) < At(v, 2)
      BY <1>5, <2>2, <2>5
    <3>2. At(u, 0) = At(v, 0) /\ At(u, 1) = At(v, 1)
      BY <2>2, <2>5 DEF c3, d3
    <3> QED
      BY <2>1, <2>9, <3>1, <3>2 DEF Decides
  <2>6. CASE c1 = d1 /\ c % 64 < d % 64
    <3>1. At(u, 3) < At(v, 3)
      BY <1>2, <2>2, <2>6
    <3>2. At(u, 0) = At(v, 0) /\ At(u, 1) = At(v, 1) /\ At(u, 2) = At(v, 2)
      BY <2>2, <2>6 DEF c2, d2, c3, d3
    <3> QED
      BY <2>1, <2>9, <3>1, <3>2 DEF Decides
  <2> QED
    BY <1>3, <1>6, <1>9, <2>3, <2>4, <2>5, <2>6
<1>16. CASE (c < 2048 /\ d >= 2048) \/ (c < 65536 /\ d >= 65536)
  <2>1. c < 2048 => c1 < 32
    BY <1>2
  <2>2. c < 65536 => c2 < 16
    BY <1>2, <1>5
  <2>3. Len(Encode(c)) > 0 /\ Len(Encode(d)) > 0
    <3>1. Width(c) \in 1 .. 4 /\ Width(d) \in 1 .. 4
      BY WidthIs
    <3> QED
      BY <3>1 DEF Width
  <2>4. /\ c < 2048 => At(Encode(c), 0) = 192 + c1
        /\ c >= 2048 /\ c < 65536 => At(Encode(c), 0) = 224 + c2
        /\ d >= 2048 /\ d < 65536 => At(Encode(d), 0) = 224 + d2
        /\ d >= 65536 => At(Encode(d), 0) = 240 + d3
    BY <1>10, <1>11 DEF At
  <2>5. At(Encode(c), 0) < At(Encode(d), 0)
    <3>1. c < 2048 /\ d >= 2048 => 192 + c1 < 224 /\ 192 + c1 < 224 + d2 /\ 192 + c1 < 240 + d3
      BY <1>2, <1>5, <1>8, <2>1
    <3>2. c < 65536 /\ d >= 65536 => 224 + c2 < 240 + d3
      BY <1>5, <1>8, <2>2
    <3> QED
      BY <1>1, <1>16, <2>4, <3>1, <3>2
  <2>6. \A i \in 0 .. 0 - 1 : At(Encode(c), i) = At(Encode(d), i)
    OBVIOUS
  <2> QED
    BY <2>3, <2>5, <2>6 DEF Lower
<1> QED
  BY <1>1, <1>13, <1>14, <1>15, <1>16

-------------------------------------------------------------------------------
(***************************************************************************)
(* Two texts and their foldings: pointers into the texts are linked if the  *)
(* same has been read of the foldings up to the characters they are in, and *)
(* within characters they are in the same one.                              *)
(***************************************************************************)
Pairs(x, d, y, e) ==
  /\ Folds(x, d) /\ Folds(y, e)
  /\ TwoTexts(Bytes(x), Bytes(y))
  /\ \A i \in 1 .. Len(x), j \in 1 .. Len(y) : x[i] = y[j] => d[i] = e[j]

\* What precedes the i + 1st character of d and the j + 1st of e reads alike.
ReadSame(d, i, e, j) == Reading(Bytes(d))[Pos(d, i)] = Reading(Bytes(e))[Pos(e, j)]

\* The pointers are at characters.
AtChars(x, d, p, y, e, q) ==
  \E i \in 0 .. Len(x), j \in 0 .. Len(y) :
    p = Pos(x, i) /\ q = Pos(y, j) /\ ReadSame(d, i, e, j)

LinkedBy(x, d, p, y, e, q, i, j, k) ==
  /\ p = Pos(x, i) + k /\ q = Pos(y, j) + k
  /\ ReadSame(d, i, e, j)
  /\ k > 0 => i < Len(x) /\ j < Len(y) /\ x[i + 1] = y[j + 1] /\ k < Width(x[i + 1])

Linked(x, d, p, y, e, q) ==
  \E i \in 0 .. Len(x), j \in 0 .. Len(y), k \in 0 .. 3 : LinkedBy(x, d, p, y, e, q, i, j, k)

LEMMA AtCharsLinked ==
  ASSUME NEW x, NEW d, NEW p, NEW y, NEW e, NEW q, Folds(x, d), Folds(y, e),
         AtChars(x, d, p, y, e, q)
  PROVE  Linked(x, d, p, y, e, q)
<1>1. PICK i \in 0 .. Len(x), j \in 0 .. Len(y) :
        p = Pos(x, i) /\ q = Pos(y, j) /\ ReadSame(d, i, e, j)
  BY DEF AtChars
<1>2. Pos(x, i) \in Nat /\ Pos(y, j) \in Nat
  BY HereIs DEF Here
<1>3. LinkedBy(x, d, p, y, e, q, i, j, 0)
  <2>1. p = Pos(x, i) + 0 /\ q = Pos(y, j) + 0 /\ ~ (0 > 0)
    BY <1>1, <1>2
  <2> QED
    BY <1>1, <2>1 DEF LinkedBy
<1>4. 0 \in 0 .. 3
  OBVIOUS
<1> QED
  BY <1>3, <1>4 DEF Linked

\* The same character, whole or in part, is read alike.
LEMMA PartReads ==
  ASSUME NEW d \in Seq(CodePoint), NEW e \in Seq(CodePoint), NEW i \in Nat, NEW j \in Nat,
         i < Len(d), j < Len(e), ReadSame(d, i, e, j), NEW n \in Nat,
         n <= Width(d[i + 1]), n <= Width(e[j + 1]),
         \A k \in 0 .. n - 1 : At(Encode(d[i + 1]), k) = At(Encode(e[j + 1]), k)
  PROVE  /\ Reading(Bytes(d))[Pos(d, i) + n] = Reading(Bytes(e))[Pos(e, j) + n]
         /\ Pos(d, i) + n <= Len(Bytes(d)) /\ Pos(e, j) + n <= Len(Bytes(e))
<1> DEFINE s == Bytes(d)
           t == Bytes(e)
           p == Pos(d, i)
           q == Pos(e, j)
           c == d[i + 1]
           h == e[j + 1]
<1>1. /\ c \in CodePoint /\ p \in Nat /\ p + Width(c) <= Len(s)
      /\ \A k \in 0 .. Width(c) - 1 : At(s, p + k) = At(Encode(c), k)
  BY CharHere
<1>2. /\ h \in CodePoint /\ q \in Nat /\ q + Width(h) <= Len(t)
      /\ \A k \in 0 .. Width(h) - 1 : At(t, q + k) = At(Encode(h), k)
  BY CharHere
<1>3. s \in Seq(Byte) /\ t \in Seq(Byte) /\ Len(s) \in Nat /\ Len(t) \in Nat
  BY BeforeIs
<1>4. Width(c) \in 1 .. 4 /\ Width(h) \in 1 .. 4
  BY <1>1, <1>2, WidthIs
<1>5. n <= Width(c) /\ n <= Width(h) /\ \A k \in 0 .. n - 1 : At(Encode(c), k) = At(Encode(h), k)
  OBVIOUS
<1>6. Reading(s)[p] = Reading(t)[q]
  BY DEF ReadSame
<1> HIDE DEF s, t, p, q, c, h
<1>7. SameRun(s, p, t, q, n)
  <2>1. \A k \in 0 .. n - 1 : k \in 0 .. Width(c) - 1 /\ k \in 0 .. Width(h) - 1
    BY <1>4, <1>5
  <2> QED
    BY <1>1, <1>2, <1>5, <2>1 DEF SameRun
<1>8. p + n <= Len(s) /\ q + n <= Len(t)
  <2>1. \A u, l \in Nat, w \in 1 .. 4 : n <= w /\ u + w <= l => u + n <= l
    OBVIOUS
  <2>2. n <= Width(c) /\ n <= Width(h)
    BY <1>5
  <2> QED
    BY <1>1, <1>2, <1>3, <1>4, <2>1, <2>2
<1>9. Stretch(s, p, t, q, n)
  BY <1>1, <1>2, <1>3, <1>7, <1>8 DEF Stretch
<1>10. Reading(s)[p + n] = Reading(t)[q + n]
  BY <1>3, <1>6, <1>9, ReadingReads, ReadRun
<1> QED
  BY <1>8, <1>10 DEF s, t, p, q

LEMMA CharReads ==
  ASSUME NEW d \in Seq(CodePoint), NEW e \in Seq(CodePoint), NEW i \in Nat, NEW j \in Nat,
         i < Len(d), j < Len(e), ReadSame(d, i, e, j), d[i + 1] = e[j + 1]
  PROVE  ReadSame(d, i + 1, e, j + 1)
<1> DEFINE n == Width(d[i + 1])
<1>1. d[i + 1] \in CodePoint /\ Pos(d, i + 1) = Pos(d, i) + n
  BY CharHere
<1>2. Pos(e, j + 1) = Pos(e, j) + n
  BY CharHere
<1>3. n \in Nat
  <2>1. Width(d[i + 1]) \in 1 .. 4
    BY <1>1, WidthIs
  <2> QED
    BY <2>1
<1>4. Reading(Bytes(d))[Pos(d, i) + n] = Reading(Bytes(e))[Pos(e, j) + n]
  BY <1>3, PartReads
<1> QED
  BY <1>1, <1>2, <1>4 DEF ReadSame

\* One more character that folds alike.
LEMMA CharsPassed ==
  ASSUME NEW x, NEW d, NEW y, NEW e, Folds(x, d), Folds(y, e),
         NEW i \in Nat, NEW j \in Nat, i < Len(x), j < Len(y),
         ReadSame(d, i, e, j), d[i + 1] = e[j + 1]
  PROVE  AtChars(x, d, Pos(x, i) + Width(x[i + 1]), y, e, Pos(y, j) + Width(y[j + 1]))
<1>1. /\ x \in Seq(CodePoint) /\ d \in Seq(CodePoint) /\ i < Len(d) /\ Len(x) \in Nat
      /\ y \in Seq(CodePoint) /\ e \in Seq(CodePoint) /\ j < Len(e) /\ Len(y) \in Nat
  BY DEF Folds
<1>2. ReadSame(d, i + 1, e, j + 1)
  BY <1>1, CharReads
<1>3. Pos(x, i + 1) = Pos(x, i) + Width(x[i + 1]) /\ Pos(y, j + 1) = Pos(y, j) + Width(y[j + 1])
  BY <1>1, CharHere
<1>4. i + 1 \in 0 .. Len(x) /\ j + 1 \in 0 .. Len(y)
  BY <1>1
<1> QED
  BY <1>2, <1>3, <1>4 DEF AtChars

\* Where pointers at characters find one byte, they find one character.
LEMMA SameLead ==
  ASSUME NEW x, NEW d, NEW y, NEW e, Pairs(x, d, y, e),
         NEW i \in Nat, NEW j \in Nat, i < Len(x), j < Len(y),
         At(Bytes(x), Pos(x, i)) = At(Bytes(y), Pos(y, j))
  PROVE  x[i + 1] = y[j + 1] /\ d[i + 1] = e[j + 1]
<1>1. x \in Seq(CodePoint) /\ y \in Seq(CodePoint)
  BY DEF Pairs, Folds
<1>2. /\ Pos(x, i) \in Starts(Bytes(x)) /\ CharAt(Bytes(x), Pos(x, i)) = x[i + 1]
      /\ Pos(y, j) \in Starts(Bytes(y)) /\ CharAt(Bytes(y), Pos(y, j)) = y[j + 1]
  BY <1>1, CharThere
<1>3. x[i + 1] = y[j + 1]
  BY <1>2 DEF Pairs, TwoTexts
<1>4. i + 1 \in 1 .. Len(x) /\ j + 1 \in 1 .. Len(y)
  BY <1>1
<1> QED
  BY <1>3, <1>4 DEF Pairs

LEMMA LinkedStep ==
  ASSUME NEW x, NEW d, NEW y, NEW e, Pairs(x, d, y, e), NEW p, NEW q,
         Linked(x, d, p, y, e, q), p < Len(Bytes(x)), q < Len(Bytes(y)),
         At(Bytes(x), p) = At(Bytes(y), q)
  PROVE  Linked(x, d, p + 1, y, e, q + 1)
<1>1. PICK i \in 0 .. Len(x), j \in 0 .. Len(y), k \in 0 .. 3 :
        LinkedBy(x, d, p, y, e, q, i, j, k)
  BY DEF Linked
<1>2. /\ p = Pos(x, i) + k /\ q = Pos(y, j) + k /\ ReadSame(d, i, e, j)
      /\ k > 0 => i < Len(x) /\ j < Len(y) /\ x[i + 1] = y[j + 1] /\ k < Width(x[i + 1])
  BY <1>1 DEF LinkedBy
<1>3. Folds(x, d) /\ Folds(y, e) /\ Len(x) \in Nat /\ Len(y) \in Nat /\ x \in Seq(CodePoint)
  BY DEF Pairs, Folds
<1>4. /\ Pos(x, i) \in Nat /\ Pos(y, j) \in Nat
      /\ Pos(x, i) < Len(Bytes(x)) <=> i < Len(x)
      /\ Pos(y, j) < Len(Bytes(y)) <=> j < Len(y)
  BY <1>3, HereIs DEF Here
<1>5. i < Len(x) /\ j < Len(y) /\ x[i + 1] = y[j + 1] /\ k < Width(x[i + 1])
      /\ i \in Nat /\ j \in Nat /\ x[i + 1] \in CodePoint
  <2>1. CASE k > 0
    BY <1>2, <1>3, <2>1, CharHere
  <2>2. CASE k = 0
    <3>1. p = Pos(x, i) /\ q = Pos(y, j)
      BY <1>2, <1>4, <2>2
    <3>2. i < Len(x) /\ j < Len(y) /\ i \in Nat /\ j \in Nat
      BY <1>3, <1>4, <3>1
    <3>3. x[i + 1] = y[j + 1]
      BY <3>1, <3>2, SameLead
    <3>4. x[i + 1] \in CodePoint
      BY <1>3, <3>2, CharHere
    <3>5. Width(x[i + 1]) \in 1 .. 4
      BY <3>4, WidthIs
    <3> QED
      BY <2>2, <3>2, <3>3, <3>4, <3>5
  <2> QED
    BY <2>1, <2>2
<1>6. Width(x[i + 1]) \in 1 .. 4
  BY <1>5, WidthIs
<1>7. p + 1 = Pos(x, i) + (k + 1) /\ q + 1 = Pos(y, j) + (k + 1)
  <2>1. \A u \in Nat : (u + k) + 1 = u + (k + 1)
    OBVIOUS
  <2> QED
    BY <1>2, <1>4, <2>1
<1>8. CASE k + 1 < Width(x[i + 1])
  <2>1. k + 1 \in 0 .. 3
    BY <1>6, <1>8
  <2>2. LinkedBy(x, d, p + 1, y, e, q + 1, i, j, k + 1)
    BY <1>2, <1>5, <1>7, <1>8 DEF LinkedBy
  <2> QED
    BY <2>1, <2>2 DEF Linked
<1>9. CASE ~ (k + 1 < Width(x[i + 1]))
  <2>1. k + 1 = Width(x[i + 1])
    BY <1>5, <1>6, <1>9
  <2>2. d[i + 1] = e[j + 1]
    <3>1. i + 1 \in 1 .. Len(x) /\ j + 1 \in 1 .. Len(y)
      BY <1>3, <1>5
    <3> QED
      BY <1>5, <3>1 DEF Pairs
  <2>3. AtChars(x, d, Pos(x, i) + Width(x[i + 1]), y, e, Pos(y, j) + Width(y[j + 1]))
    BY <1>2, <1>3, <1>5, <2>2, CharsPassed
  <2>4. AtChars(x, d, p + 1, y, e, q + 1)
    BY <1>5, <1>7, <2>1, <2>3
  <2> QED
    BY <1>3, <2>4, AtCharsLinked
<1> QED
  BY <1>8, <1>9

LEMMA LinkedRun ==
  ASSUME NEW x, NEW d, NEW y, NEW e, Pairs(x, d, y, e), NEW p \in Nat, NEW q \in Nat,
         Linked(x, d, p, y, e, q), NEW n \in Nat,
         p + n <= Len(Bytes(x)), q + n <= Len(Bytes(y)),
         SameRun(Bytes(x), p, Bytes(y), q, n)
  PROVE  Linked(x, d, p + n, y, e, q + n)
<1> DEFINE s == Bytes(x)
           t == Bytes(y)
           S == {m \in Nat : m <= n => Linked(x, d, p + m, y, e, q + m)}
<1>1. Len(s) \in Nat /\ Len(t) \in Nat
  <2>1. x \in Seq(CodePoint) /\ y \in Seq(CodePoint)
    BY DEF Pairs, Folds
  <2> QED
    BY <2>1, BeforeIs
<1>2. 0 \in S
  <2>1. p + 0 = p /\ q + 0 = q
    OBVIOUS
  <2> QED
    BY <2>1
<1>3. ASSUME NEW m \in Nat, m \in S PROVE m + 1 \in S
  <2>1. SUFFICES ASSUME m + 1 <= n PROVE Linked(x, d, p + (m + 1), y, e, q + (m + 1))
    OBVIOUS
  <2>2. p + n <= Len(s) /\ q + n <= Len(t)
    OBVIOUS
  <2> HIDE DEF s, t
  <2>3. m <= n /\ m \in 0 .. n - 1 /\ p + m < Len(s) /\ q + m < Len(t)
        /\ p + (m + 1) = (p + m) + 1 /\ q + (m + 1) = (q + m) + 1
    BY <1>1, <2>1, <2>2
  <2>4. Linked(x, d, p + m, y, e, q + m)
    BY <1>3, <2>3
  <2>5. At(s, p + m) = At(t, q + m)
    BY <2>3 DEF SameRun, s, t
  <2>6. Linked(x, d, (p + m) + 1, y, e, (q + m) + 1)
    BY <2>3, <2>4, <2>5, LinkedStep DEF s, t
  <2> QED
    BY <2>3, <2>6
<1>4. n \in S
  <2> HIDE DEF S
  <2> QED
    BY <1>2, <1>3, Induction
<1> QED
  BY <1>4

\* Where the bytes differ, or one is no part of a wider character, or one text is at its
\* end, characters begin.
LEMMA LinkedHere ==
  ASSUME NEW x, NEW d, NEW y, NEW e, Pairs(x, d, y, e), NEW p \in Nat, NEW q \in Nat,
         p <= Len(Bytes(x)), q <= Len(Bytes(y)), Linked(x, d, p, y, e, q),
         \/ p = Len(Bytes(x)) \/ q = Len(Bytes(y))
         \/ At(Bytes(x), p) # At(Bytes(y), q)
         \/ At(Bytes(x), p) < 128 \/ At(Bytes(y), q) < 128
  PROVE  AtChars(x, d, p, y, e, q)
<1> DEFINE s == Bytes(x)
           t == Bytes(y)
<1>1. PICK i \in 0 .. Len(x), j \in 0 .. Len(y), k \in 0 .. 3 :
        LinkedBy(x, d, p, y, e, q, i, j, k)
  BY DEF Linked
<1>2. /\ p = Pos(x, i) + k /\ q = Pos(y, j) + k /\ ReadSame(d, i, e, j)
      /\ k > 0 => i < Len(x) /\ j < Len(y) /\ x[i + 1] = y[j + 1] /\ k < Width(x[i + 1])
  BY <1>1 DEF LinkedBy
<1>3. Folds(x, d) /\ Folds(y, e) /\ x \in Seq(CodePoint) /\ y \in Seq(CodePoint)
  BY DEF Pairs, Folds
<1>4. Pos(x, i) \in Nat /\ Pos(y, j) \in Nat /\ Len(s) \in Nat /\ Len(t) \in Nat
  BY <1>3, BeforeIs
<1>5. k = 0
  <2>1. SUFFICES ASSUME k > 0 PROVE FALSE
    OBVIOUS
  <2> DEFINE c == x[i + 1]
             u == Pos(x, i)
             v == Pos(y, j)
  <2>2. i < Len(x) /\ j < Len(y) /\ c = y[j + 1] /\ k < Width(c) /\ i \in Nat /\ j \in Nat
    BY <1>2, <2>1
  <2>3. /\ c \in CodePoint /\ u + Width(c) <= Len(s)
        /\ \A l \in 0 .. Width(c) - 1 : At(s, u + l) = At(Encode(c), l)
        /\ \A l \in 1 .. Width(c) - 1 : Continuation(At(s, u + l))
    BY <1>3, <2>2, CharHere, CharThere
  <2>4. /\ v + Width(c) <= Len(t)
        /\ \A l \in 0 .. Width(c) - 1 : At(t, v + l) = At(Encode(c), l)
        /\ \A l \in 1 .. Width(c) - 1 : Continuation(At(t, v + l))
    BY <1>3, <2>2, CharHere, CharThere
  <2>5. Width(c) \in 1 .. 4
    BY <2>3, WidthIs
  <2>6. k \in 0 .. Width(c) - 1 /\ k \in 1 .. Width(c) - 1
    BY <2>1, <2>2, <2>5
  <2>7. p = u + k /\ q = v + k
    BY <1>2
  <2>8. p # Len(s) /\ q # Len(t)
    <3> HIDE DEF u, v, s, t, c
    <3>1. u \in Nat /\ v \in Nat
      BY <1>4 DEF u, v
    <3>2. \A m, l \in Nat, w \in 1 .. 4 : k < w /\ m + w <= l => m + k # l
      OBVIOUS
    <3>3. k < Width(c) /\ u + Width(c) <= Len(s) /\ v + Width(c) <= Len(t)
      BY <2>2, <2>3, <2>4
    <3> QED
      BY <1>4, <2>5, <2>7, <3>1, <3>2, <3>3
  <2>9. At(s, p) = At(t, q)
    BY <2>3, <2>4, <2>6, <2>7
  <2>10. Continuation(At(s, p)) /\ Continuation(At(t, q))
    BY <2>3, <2>4, <2>6, <2>7
  <2>11. \A h : Continuation(h) => ~ (h < 128)
    BY DEF Continuation
  <2> QED
    BY <2>8, <2>9, <2>10, <2>11
<1>6. p = Pos(x, i) /\ q = Pos(y, j)
  BY <1>2, <1>4, <1>5
<1> QED
  BY <1>2, <1>6 DEF AtChars

-------------------------------------------------------------------------------
(***************************************************************************)
(* The comparison that folds finds the natural order of the folded texts.   *)
(***************************************************************************)
Fold1(c) ==
  IF c < 128 THEN LowerAscii(c) ELSE IF caseMode = "Fold" THEN CaseFold(c) ELSE c

Down(text) == [k \in 1 .. Len(text) |-> Fold1(text[k])]

LEMMA FoldsOne ==
  ASSUME NEW c \in CodePoint, caseMode = "Fold" /\ c >= 128 => CaseFold(c) >= 128
  PROVE  Alone(c, Fold1(c))
<1>1. c \in Nat
  BY CodePointIs
<1>2. CASE c < 128
  BY <1>1, <1>2, LowerAsciiIs DEF Alone, Fold1
<1>3. CASE ~ (c < 128)
  <2>1. CaseFold(c) \in CodePoint /\ c >= 128
    BY <1>1, <1>3, CaseFoldIs
  <2> QED
    BY <1>3, <2>1 DEF Alone, Fold1
<1> QED
  BY <1>2, <1>3

LEMMA DownFolds ==
  ASSUME NEW text \in Seq(CodePoint), Tame(text)
  PROVE  Folds(text, Down(text))
<1>1. ASSUME NEW k \in 1 .. Len(text)
      PROVE  Alone(text[k], Down(text)[k]) /\ Down(text)[k] \in CodePoint
  <2>1. text[k] \in CodePoint
    OBVIOUS
  <2>2. text[k] >= 128 => CaseFold(text[k]) >= 128
    BY DEF Tame
  <2>3. Alone(text[k], Fold1(text[k]))
    BY <2>1, <2>2, FoldsOne
  <2>4. Down(text)[k] = Fold1(text[k])
    BY DEF Down
  <2> QED
    BY <2>3, <2>4 DEF Alone
<1>2. Len(text) \in Nat
  OBVIOUS
<1>3. Down(text) \in Seq(CodePoint) /\ Len(Down(text)) = Len(text)
  <2>1. \A k \in 1 .. Len(text) : Fold1(text[k]) \in CodePoint
    BY <1>1 DEF Down
  <2> QED
    BY <1>2, <2>1 DEF Down
<1> QED
  BY <1>1, <1>3 DEF Folds

LEMMA NormalizeDown ==
  ASSUME Configured, caseMode \in FoldModes, ~ Active, NEW text \in Texts, Tame(text)
  PROVE  Normalize(text).text = Down(text)
<1>1. text \in Seq(CodePoint)
  BY TextsAssumption
<1>2. NormalText(text) = text
  BY DEF NormalText, Normalized, Active, Configured
<1>3. Down(text) \in Seq(CodePoint) /\ Len(Down(text)) = Len(text)
  BY <1>1, DownFolds DEF Folds
<1>4. ASSUME NEW k \in 1 .. Len(text) PROVE Folded(text[k]) = <<Down(text)[k]>>
  <2>1. text[k] \in CodePoint
    BY <1>1
  <2>2. text[k] \in Nat
    BY <2>1, CodePointIs
  <2>3. Down(text)[k] = Fold1(text[k])
    BY DEF Down
  <2>4. Folded(text[k]) = <<Fold1(text[k])>>
    <3>1. CASE text[k] < 128
      <4>1. CaseFold(text[k]) = LowerAscii(text[k]) /\ Lowercase(text[k]) = <<LowerAscii(text[k])>>
        BY <2>1, <3>1, AsciiFolds
      <4> QED
        BY <3>1, <4>1 DEF Folded, Fold1, FoldModes
    <3>2. CASE ~ (text[k] < 128)
      <4>1. text[k] >= 128 /\ text[k] \notin 65 .. 90
        <5>1. \A n \in Nat : ~ (n < 128) => n >= 128 /\ n \notin 65 .. 90
          OBVIOUS
        <5> QED
          BY <2>2, <3>2, <5>1
      <4>2. Lowercase(text[k]) = <<CaseFold(text[k])>>
        BY <4>1 DEF Tame
      <4>3. LowerAscii(text[k]) = text[k]
        BY <4>1 DEF LowerAscii
      <4> QED
        BY <3>2, <4>2, <4>3 DEF Folded, Fold1, FoldModes
    <3> QED
      BY <3>1, <3>2
  <2> QED
    BY <2>3, <2>4
<1>5. FoldedText(text) = Down(text)
  BY <1>1, <1>3, <1>4, EachToOne
<1> QED
  BY <1>2, <1>5, NormalizeFolds

\* What NormalizedOrder asks of the texts where they are folded while they are compared.
FoldWell ==
  /\ mode \in FoldModes
  /\ Plain(a) /\ Plain(b) /\ Tame(left) /\ Tame(right) /\ NoSharedLead

lowA == Bytes(Down(left))
lowB == Bytes(Down(right))

Folding ==
  /\ left \in Seq(CodePoint) /\ right \in Seq(CodePoint)
  /\ Pairs(left, Down(left), right, Down(right))
  /\ a = Bytes(left) /\ b = Bytes(right)
  /\ lowA \in Seq(Byte) /\ lowB \in Seq(Byte) /\ Plain(lowA) /\ Plain(lowB)
  /\ NormalCmp = NaturalCmp(lowA, lowB)
  /\ mode = caseMode /\ mode \in FoldModes

LEMMA FoldWellIs ==
  ASSUME NInv, FoldWell
  PROVE  Folding
<1>1. Configured /\ Subjects /\ mode \in FoldModes /\ Tame(left) /\ Tame(right)
  BY DEF NInv, FoldWell
<1>2. left \in Texts /\ right \in Texts /\ left \in Seq(CodePoint) /\ right \in Seq(CodePoint)
  BY <1>1, TextsAssumption DEF Configured
<1>3. a = Bytes(left) /\ b = Bytes(right) /\ mode = caseMode /\ ~ Active
  BY <1>1 DEF Subjects
<1>4. Folds(left, Down(left)) /\ Folds(right, Down(right))
  BY <1>1, <1>2, DownFolds
<1>5. Plain(lowA) /\ Plain(lowB)
  BY <1>3, <1>4, PlainFolds DEF FoldWell, lowA, lowB
<1>6. lowA \in Seq(Byte) /\ lowB \in Seq(Byte)
  BY <1>4, BeforeIs DEF Folds, lowA, lowB
<1>7. TwoTexts(Bytes(left), Bytes(right))
  <2>1. TwoTexts(a, b)
    BY SharedLeadIs DEF NInv, FoldWell
  <2> QED
    BY <1>3, <2>1
<1>8. ASSUME NEW i \in 1 .. Len(left), NEW j \in 1 .. Len(right), left[i] = right[j]
      PROVE  Down(left)[i] = Down(right)[j]
  BY <1>8 DEF Down
<1>9. Pairs(left, Down(left), right, Down(right))
  BY <1>4, <1>7, <1>8 DEF Pairs
<1>10. NormalCmp = NaturalCmp(lowA, lowB)
  <2>1. Normalize(left).text = Down(left) /\ Normalize(right).text = Down(right)
    BY <1>1, <1>2, <1>3, NormalizeDown
  <2> QED
    BY <2>1 DEF NormalCmp, lowA, lowB
<1> QED
  BY <1>1, <1>2, <1>3, <1>5, <1>6, <1>9, <1>10 DEF Folding

\* An answer that the tokens of the folded texts bear out.
Told(order) ==
  /\ order = "Less" => Below(Tokens(lowA), Tokens(lowB))
  /\ order = "Greater" => Below(Tokens(lowB), Tokens(lowA))
  /\ order = "Equal" => Tokens(lowA) = Tokens(lowB)

LEMMA ToldOut ==
  ASSUME Folding, NEW order \in Orders, Told(order)
  PROVE  order = NormalCmp
<1>1. lowA \in Seq(Byte) /\ NormalCmp = NaturalCmp(lowA, lowB)
  BY DEF Folding
<1>2. Tokens(lowA) \in Seq(TokenType)
  <2>1. Len(lowA) \in Nat
    BY <1>1
  <2>2. Len(lowA) \in 0 .. Len(lowA)
    BY <2>1
  <2> QED
    BY <1>1, <2>2, ReadType DEF Tokens
<1>3. CASE order = "Less"
  BY <1>1, <1>3 DEF Told, Below, NaturalCmp
<1>4. CASE order = "Greater"
  BY <1>1, <1>4 DEF Told, Below, NaturalCmp
<1>5. CASE order = "Equal"
  BY <1>1, <1>2, <1>5, SameTokens DEF Told, NaturalCmp
<1> QED
  BY <1>3, <1>4, <1>5 DEF Orders

\* The pointers at characters, and where these are in the folded texts.
Staged(i, j) ==
  /\ i \in 0 .. Len(left) /\ j \in 0 .. Len(right)
  /\ pa = Pos(left, i) /\ pb = Pos(right, j)
  /\ Here(left, Down(left), i) /\ Here(right, Down(right), j)
  /\ ReadSame(Down(left), i, Down(right), j)
  /\ SameRead(lowA, Pos(Down(left), i), lowB, Pos(Down(right), j))

FoldLinked == Linked(left, Down(left), pa, right, Down(right), pb)

LEMMA StagedIs ==
  ASSUME TypeOK, Folding, FoldLinked,
         AtEnd \/ ca # cb \/ ca < 128 \/ cb < 128
  PROVE  \E i \in 0 .. Len(left), j \in 0 .. Len(right) : Staged(i, j)
<1>1. /\ pa \in Nat /\ pb \in Nat /\ pa <= Len(Bytes(left)) /\ pb <= Len(Bytes(right))
      /\ a = Bytes(left) /\ b = Bytes(right) /\ Len(a) \in Nat /\ Len(b) \in Nat
  BY Lengths DEF Folding
<1>2. Pairs(left, Down(left), right, Down(right))
  BY DEF Folding
<1>3. Folds(left, Down(left)) /\ Folds(right, Down(right))
  BY <1>2 DEF Pairs
<1>4. AtEnd => pa = Len(Bytes(left)) \/ pb = Len(Bytes(right))
  BY <1>1 DEF AtEnd
<1>5. AtChars(left, Down(left), pa, right, Down(right), pb)
  BY <1>1, <1>2, <1>4, LinkedHere DEF FoldLinked, ca, cb
<1>6. PICK i \in 0 .. Len(left), j \in 0 .. Len(right) :
        pa = Pos(left, i) /\ pb = Pos(right, j) /\ ReadSame(Down(left), i, Down(right), j)
  BY <1>5 DEF AtChars
<1>7. Here(left, Down(left), i) /\ Here(right, Down(right), j)
  BY <1>3, HereIs
<1>8. SameRead(lowA, Pos(Down(left), i), lowB, Pos(Down(right), j))
  <2>1. /\ lowA \in Seq(Byte) /\ lowB \in Seq(Byte) /\ Plain(lowA) /\ Plain(lowB)
        /\ Len(lowA) \in Nat /\ Len(lowB) \in Nat
    BY DEF Folding
  <2>2. /\ Pos(Down(left), i) \in Nat /\ Pos(Down(left), i) <= Len(lowA)
        /\ Pos(Down(right), j) \in Nat /\ Pos(Down(right), j) <= Len(lowB)
    BY <1>7 DEF Here, lowA, lowB
  <2>3. Reading(lowA)[Pos(Down(left), i)] = Reading(lowB)[Pos(Down(right), j)]
    BY <1>6 DEF ReadSame, lowA, lowB
  <2>4. Pos(Down(left), i) \in 0 .. Len(lowA) /\ Pos(Down(right), j) \in 0 .. Len(lowB)
    BY <2>1, <2>2
  <2> QED
    BY <2>1, <2>3, <2>4 DEF SameRead
<1>9. Staged(i, j)
  BY <1>6, <1>7, <1>8 DEF Staged
<1> QED
  BY <1>9

\* A byte that begins a character and the byte that begins what it folds to.
Leads(c, h) ==
  /\ c \in Nat /\ h \in Nat
  /\ c < 128 <=> h < 128
  /\ IsDigit(c) <=> IsDigit(h)
  /\ IsWs(c) <=> IsWs(h)
  /\ c < 128 => h = LowerAscii(c)

fa(i) == At(lowA, Pos(Down(left), i))
fb(j) == At(lowB, Pos(Down(right), j))

\* Inside the loop there are characters on both sides.
Facing(i, j) ==
  /\ i \in Nat /\ j \in Nat /\ i < Len(left) /\ j < Len(right)
  /\ Pos(Down(left), i) < Len(lowA) /\ Pos(Down(right), j) < Len(lowB)
  /\ Leads(ca, fa(i)) /\ Leads(cb, fb(j))

LEMMA FacingIs ==
  ASSUME TypeOK, Folding, NEW i, NEW j, Staged(i, j), InLoop
  PROVE  Facing(i, j)
<1>1. pa < Len(a) /\ pb < Len(b)
  BY Looping
<1>2. /\ pa = Pos(left, i) /\ pb = Pos(right, j) /\ a = Bytes(left) /\ b = Bytes(right)
      /\ Here(left, Down(left), i) /\ Here(right, Down(right), j)
      /\ i \in 0 .. Len(left) /\ j \in 0 .. Len(right)
  BY DEF Staged, Folding
<1>3. /\ i < Len(left) /\ j < Len(right)
      /\ Pos(Down(left), i) < Len(lowA) /\ Pos(Down(right), j) < Len(lowB)
  BY <1>1, <1>2 DEF Here, lowA, lowB
<1>4. i \in Nat /\ j \in Nat
  BY <1>2 DEF Folding
<1>5. Folds(left, Down(left)) /\ Folds(right, Down(right))
  BY DEF Folding, Pairs
<1>6. Leads(ca, fa(i))
  <2>1. ca = At(Bytes(left), Pos(left, i)) /\ fa(i) = At(Bytes(Down(left)), Pos(Down(left), i))
    BY <1>2 DEF ca, fa, lowA
  <2> QED
    BY <1>3, <1>4, <1>5, <2>1, LeadsIs DEF Leads
<1>7. Leads(cb, fb(j))
  <2>1. cb = At(Bytes(right), Pos(right, j)) /\ fb(j) = At(Bytes(Down(right)), Pos(Down(right), j))
    BY <1>2 DEF cb, fb, lowB
  <2> QED
    BY <1>3, <1>4, <1>5, <2>1, LeadsIs DEF Leads
<1> QED
  BY <1>3, <1>4, <1>6, <1>7 DEF Facing

LEMMA EndTold ==
  ASSUME TypeOK, Folding, FoldLinked, AtEnd
  PROVE  Told(Cmp(Len(a) - pa, Len(b) - pb))
<1>1. PICK i \in 0 .. Len(left), j \in 0 .. Len(right) : Staged(i, j)
  BY StagedIs
<1> DEFINE x == Pos(Down(left), i)
           y == Pos(Down(right), j)
<1>2. /\ pa = Pos(left, i) /\ pb = Pos(right, j) /\ a = Bytes(left) /\ b = Bytes(right)
      /\ Here(left, Down(left), i) /\ Here(right, Down(right), j)
      /\ SameRead(lowA, x, lowB, y)
  BY <1>1 DEF Staged, Folding
<1>3. /\ SameRead(lowB, y, lowA, x) /\ Reading(lowA)[x] = Reading(lowB)[y]
      /\ x \in Nat /\ y \in Nat /\ Len(lowA) \in Nat /\ Len(lowB) \in Nat
  BY <1>2, SameReadIs
<1>4. /\ pa < Len(a) <=> x < Len(lowA)
      /\ pb < Len(b) <=> y < Len(lowB)
      /\ x <= Len(lowA) /\ y <= Len(lowB)
  BY <1>2 DEF Here, lowA, lowB
<1>5. /\ pa \in Nat /\ pb \in Nat /\ pa <= Len(a) /\ pb <= Len(b) /\ Len(a) \in Nat /\ Len(b) \in Nat
  BY Lengths
<1> HIDE DEF x, y
<1>6. CASE pa = Len(a) /\ pb = Len(b)
  <2>1. Cmp(Len(a) - pa, Len(b) - pb) = "Equal"
    BY <1>5, <1>6 DEF Cmp
  <2>2. x = Len(lowA) /\ y = Len(lowB)
    BY <1>3, <1>4, <1>5, <1>6
  <2>3. Tokens(lowA) = Tokens(lowB)
    BY <1>3, <2>2 DEF Tokens
  <2> QED
    BY <2>1, <2>3 DEF Told
<1>7. CASE pa = Len(a) /\ pb < Len(b)
  <2>1. Cmp(Len(a) - pa, Len(b) - pb) = "Less"
    BY <1>5, <1>7 DEF Cmp
  <2>2. x = Len(lowA) /\ y < Len(lowB)
    BY <1>3, <1>4, <1>5, <1>7
  <2>3. Below(Tokens(lowA), Tokens(lowB))
    BY <1>2, <2>2, EndBelow
  <2> QED
    BY <2>1, <2>3 DEF Told
<1>8. CASE pa < Len(a) /\ pb = Len(b)
  <2>1. Cmp(Len(a) - pa, Len(b) - pb) = "Greater"
    BY <1>5, <1>8 DEF Cmp
  <2>2. x < Len(lowA) /\ y = Len(lowB)
    BY <1>3, <1>4, <1>5, <1>8
  <2>3. Below(Tokens(lowB), Tokens(lowA))
    BY <1>3, <2>2, EndBelow
  <2> QED
    BY <2>1, <2>3 DEF Told
<1> QED
  BY <1>5, <1>6, <1>7, <1>8 DEF AtEnd

LEMMA DigitsTold ==
  ASSUME TypeOK, Folding, FoldLinked, InLoop, BothDigits
  PROVE  Told(HandleDigits(a, pa, b, pb).order)
<1>1. ca < 128 /\ IsDigit(ca) /\ IsDigit(cb)
  BY DEF BothDigits, IsDigit
<1>2. PICK i \in 0 .. Len(left), j \in 0 .. Len(right) : Staged(i, j)
  BY <1>1, StagedIs
<1>3. Facing(i, j)
  BY <1>2, FacingIs
<1> DEFINE x == Pos(Down(left), i)
           y == Pos(Down(right), j)
<1>4. /\ pa = Pos(left, i) /\ pb = Pos(right, j) /\ a = Bytes(left) /\ b = Bytes(right)
      /\ Here(left, Down(left), i) /\ Here(right, Down(right), j)
      /\ SameRead(lowA, x, lowB, y)
      /\ Folds(left, Down(left)) /\ Folds(right, Down(right))
  BY <1>2 DEF Staged, Folding, Pairs
<1>5. /\ i \in Nat /\ j \in Nat /\ i < Len(left) /\ j < Len(right)
      /\ x < Len(lowA) /\ y < Len(lowB)
      /\ IsDigit(At(lowA, x)) /\ IsDigit(At(lowB, y))
  BY <1>1, <1>3 DEF Facing, Leads, fa, fb
<1>6. At(lowA, x) = ca /\ At(lowB, y) = cb
  <2>1. At(Bytes(Down(left)), x) = At(Bytes(left), Pos(left, i))
    BY <1>1, <1>4, <1>5, LeadsIs DEF Caseless, ca
  <2>2. At(Bytes(Down(right)), y) = At(Bytes(right), Pos(right, j))
    BY <1>1, <1>4, <1>5, LeadsIs DEF Caseless, cb
  <2> QED
    BY <1>4, <2>1, <2>2 DEF ca, cb, lowA, lowB
<1>7. RunAlike(a, pa, lowA, x) /\ RunAlike(b, pb, lowB, y)
  <2>1. RunAlike(Bytes(left), Pos(left, i), Bytes(Down(left)), x)
    BY <1>1, <1>4, <1>5, RunFolds DEF ca
  <2>2. RunAlike(Bytes(right), Pos(right, j), Bytes(Down(right)), y)
    BY <1>1, <1>4, <1>5, RunFolds DEF cb
  <2> QED
    BY <1>4, <2>1, <2>2 DEF lowA, lowB
<1>8. /\ DigitBefore(a, pa) <=> DigitBefore(lowA, x)
      /\ DigitBefore(b, pb) <=> DigitBefore(lowB, y)
  BY <1>4 DEF Here, lowA, lowB
<1>9. x \in Nat /\ y \in Nat /\ lowA \in Seq(Byte) /\ lowB \in Seq(Byte)
  BY <1>4, SameReadIs
<1> HIDE DEF x, y
<1>10. AtDigits(a, pa, b, pb) /\ AtDigits(lowA, x, lowB, y)
  BY <1>5, <1>9, Looping DEF AtDigits
<1>11. /\ LeadingZero(a, pa) <=> LeadingZero(lowA, x)
       /\ LeadingZero(b, pb) <=> LeadingZero(lowB, y)
  <2>1. \A s, p : p \in Nat => (LeadingZero(s, p) <=> At(s, p) = Zero /\ ~ DigitBefore(s, p))
    BY DEF LeadingZero, DigitBefore
  <2>2. pa \in Nat /\ pb \in Nat
    BY Lengths
  <2> QED
    BY <1>6, <1>8, <1>9, <2>1, <2>2 DEF ca, cb
<1>12. HandleDigits(a, pa, b, pb).order = HandleDigits(lowA, x, lowB, y).order
  BY <1>7, <1>10, <1>11, HandleDigitsAlike
<1>13. HandleDigits(lowA, x, lowB, y).order \in Unequal \union {"Undecided"}
  BY <1>10, HandleDigitsFine DEF Fine
<1>14. DigitAt(lowA, x) /\ DigitAt(lowB, y)
  BY <1>5 DEF DigitAt
<1>15. /\ HandleDigits(lowA, x, lowB, y).order = "Less" => Below(Tokens(lowA), Tokens(lowB))
       /\ HandleDigits(lowA, x, lowB, y).order = "Greater" => Below(Tokens(lowB), Tokens(lowA))
  BY <1>4, <1>14, DigitsBelow DEF x, y
<1> QED
  BY <1>12, <1>13, <1>15 DEF Told, Unequal

LEMMA BoundaryTold ==
  ASSUME TypeOK, Folding, FoldLinked, Differ, AtBoundary
  PROVE  Told(IF IsDigit(ca) THEN "Greater" ELSE "Less")
<1>1. InLoop /\ ca # cb
  BY DEF Differ
<1>2. PICK i \in 0 .. Len(left), j \in 0 .. Len(right) : Staged(i, j)
  BY <1>1, StagedIs
<1>3. Facing(i, j)
  BY <1>1, <1>2, FacingIs
<1> DEFINE x == Pos(Down(left), i)
           y == Pos(Down(right), j)
<1>4. DigitBefore(a, pa) /\ (IsDigit(ca) <=> ~ IsDigit(cb))
  <2>1. IsDigit(ca) \in BOOLEAN /\ IsDigit(cb) \in BOOLEAN
    BY DEF IsDigit
  <2> QED
    BY <2>1 DEF AtBoundary, DigitBefore
<1>5. SameRead(lowA, x, lowB, y) /\ DigitBefore(lowA, x)
  BY <1>2, <1>4 DEF Staged, Here, Folding, lowA
<1>6. SameRead(lowB, y, lowA, x) /\ DigitBefore(lowB, y)
  BY <1>5, SameReadIs
<1>7. /\ DigitAt(lowA, x) <=> IsDigit(ca)
      /\ DigitAt(lowB, y) <=> IsDigit(cb)
  BY <1>3 DEF Facing, Leads, fa, fb, DigitAt
<1> HIDE DEF x, y
<1>8. CASE IsDigit(ca)
  <2>1. Below(Tokens(lowB), Tokens(lowA))
    BY <1>4, <1>6, <1>7, <1>8, GoesOnBelow
  <2> QED
    BY <1>8, <2>1 DEF Told
<1>9. CASE ~ IsDigit(ca)
  <2>1. Below(Tokens(lowA), Tokens(lowB))
    BY <1>4, <1>5, <1>7, <1>9, GoesOnBelow
  <2> QED
    BY <1>9, <2>1 DEF Told
<1> QED
  BY <1>8, <1>9

\* Two bytes of which one is below 128 are ordered as what they fold to.
SetApart(i, j) ==
  /\ Differ /\ ~ AtBoundary
  /\ fa(i) # fb(j)

LEMMA BytesTold ==
  ASSUME TypeOK, Folding, NEW i \in 0 .. Len(left), NEW j \in 0 .. Len(right),
         Staged(i, j), SetApart(i, j)
  PROVE  Told(Cmp(fa(i), fb(j)))
<1>1. /\ InLoop /\ ~ BothDigits /\ ~ IsWs(ca) /\ ~ IsWs(cb) /\ ~ AtBoundary
      /\ fa(i) # fb(j)
  BY DEF SetApart, Differ
<1>2. Facing(i, j)
  BY <1>1, FacingIs
<1> DEFINE x == Pos(Down(left), i)
           y == Pos(Down(right), j)
<1>3. /\ x < Len(lowA) /\ y < Len(lowB)
      /\ fa(i) \in Nat /\ fb(j) \in Nat
      /\ IsDigit(ca) <=> IsDigit(fa(i))
      /\ IsDigit(cb) <=> IsDigit(fb(j))
      /\ ~ IsWs(fa(i)) /\ ~ IsWs(fb(j))
  BY <1>1, <1>2 DEF Facing, Leads
<1>4. /\ SameRead(lowA, x, lowB, y) /\ (DigitBefore(a, pa) <=> DigitBefore(lowA, x))
  BY DEF Staged, Here, Folding, lowA
<1>5. SameRead(lowB, y, lowA, x) /\ (DigitBefore(lowA, x) <=> DigitBefore(lowB, y))
  BY <1>4, SameReadIs
<1>6. DigitBefore(lowA, x) => ~ IsDigit(ca) /\ ~ IsDigit(cb)
  BY <1>1, <1>4 DEF AtBoundary, BothDigits, DigitBefore
<1>7. /\ ~ (IsDigit(fa(i)) /\ IsDigit(fb(j)))
      /\ DigitBefore(lowA, x) => ~ IsDigit(fa(i)) /\ ~ IsDigit(fb(j))
  BY <1>1, <1>3, <1>6 DEF BothDigits
<1> HIDE DEF x, y
<1>8. fa(i) = At(lowA, x) /\ fb(j) = At(lowB, y)
  BY DEF fa, fb, x, y
<1>9. CASE fa(i) < fb(j)
  <2>1. Below(Tokens(lowA), Tokens(lowB))
    BY <1>3, <1>4, <1>7, <1>8, <1>9, BytesBelow
  <2>2. Cmp(fa(i), fb(j)) = "Less"
    BY <1>3, <1>9 DEF Cmp
  <2> QED
    BY <2>1, <2>2 DEF Told
<1>10. CASE fb(j) < fa(i)
  <2>1. Below(Tokens(lowB), Tokens(lowA))
    BY <1>3, <1>5, <1>7, <1>8, <1>10, BytesBelow
  <2>2. Cmp(fa(i), fb(j)) = "Greater"
    BY <1>3, <1>10 DEF Cmp
  <2> QED
    BY <2>1, <2>2 DEF Told
<1> QED
  BY <1>1, <1>3, <1>9, <1>10

\* A digit stands to a letter, and a narrow byte to a wide one, as to what it folds to.
LEMMA LeadsOrder ==
  ASSUME NEW c, NEW h, Leads(c, h), NEW u, NEW v, Leads(u, v), c # u,
         (IsDigit(c) /\ ~ IsDigit(u)) \/ (~ IsDigit(c) /\ IsDigit(u)) \/ (c < 128) # (u < 128)
  PROVE  h # v /\ Cmp(c, u) = Cmp(h, v)
<1>1. c \in Nat /\ h \in Nat /\ u \in Nat /\ v \in Nat
  BY DEF Leads
<1>2. /\ c < 128 <=> h < 128
      /\ u < 128 <=> v < 128
      /\ IsDigit(c) <=> IsDigit(h)
      /\ IsDigit(u) <=> IsDigit(v)
      /\ c < 128 => h = LowerAscii(c)
      /\ u < 128 => v = LowerAscii(u)
  BY DEF Leads
<1>3. CASE IsDigit(c) /\ ~ IsDigit(u)
  <2>1. h = c /\ c < 128
    BY <1>1, <1>2, <1>3 DEF IsDigit, LowerAscii
  <2>2. u < c => v = u
    BY <1>1, <1>2, <1>3, <2>1 DEF IsDigit, LowerAscii
  <2>3. u > c => v > c
    <3>1. CASE u < 128
      BY <1>1, <1>2, <1>3, <3>1 DEF IsDigit, LowerAscii
    <3>2. CASE ~ (u < 128)
      BY <1>1, <1>2, <2>1, <3>2
    <3> QED
      BY <3>1, <3>2
  <2> QED
    BY <1>1, <2>1, <2>2, <2>3 DEF Cmp
<1>4. CASE ~ IsDigit(c) /\ IsDigit(u)
  <2>1. v = u /\ u < 128
    BY <1>1, <1>2, <1>4 DEF IsDigit, LowerAscii
  <2>2. c < u => h = c
    BY <1>1, <1>2, <1>4, <2>1 DEF IsDigit, LowerAscii
  <2>3. c > u => h > u
    <3>1. CASE c < 128
      BY <1>1, <1>2, <1>4, <3>1 DEF IsDigit, LowerAscii
    <3>2. CASE ~ (c < 128)
      BY <1>1, <1>2, <2>1, <3>2
    <3> QED
      BY <3>1, <3>2
  <2> QED
    BY <1>1, <2>1, <2>2, <2>3 DEF Cmp
<1>5. CASE c < 128 /\ ~ (u < 128)
  <2>1. c < u /\ h < v
    BY <1>1, <1>2, <1>5
  <2> QED
    BY <1>1, <2>1 DEF Cmp
<1>6. CASE ~ (c < 128) /\ u < 128
  <2>1. u < c /\ v < h
    BY <1>1, <1>2, <1>6
  <2> QED
    BY <1>1, <2>1 DEF Cmp
<1>7. (c < 128) # (u < 128) => (c < 128 /\ ~ (u < 128)) \/ (~ (c < 128) /\ u < 128)
  BY <1>1
<1> QED
  BY <1>3, <1>4, <1>5, <1>6, <1>7

\* The actions that compare two bytes, one of them a digit or below 128.
LEMMA NarrowTold ==
  ASSUME TypeOK, Folding, FoldLinked, NEW order, Settle(order),
         DigitMismatch \/ FoldDiffer \/ OneWide
  PROVE  order \in Orders /\ Told(order)
<1>1. /\ Differ /\ ~ AtBoundary /\ ca # cb /\ InLoop
      /\ \/ /\ (IsDigit(ca) /\ ~ IsDigit(cb)) \/ (~ IsDigit(ca) /\ IsDigit(cb))
                 \/ (ca < 128) # (cb < 128)
            /\ order = Cmp(ca, cb)
         \/ ca < 128 /\ cb < 128 /\ LowerAscii(ca) # LowerAscii(cb)
            /\ order = Cmp(LowerAscii(ca), LowerAscii(cb))
  <2>1. CASE DigitMismatch
    BY <2>1 DEF DigitMismatch, Settle, Differ, BothDigits
  <2>2. ~ IsDigit(ca) /\ ~ IsDigit(cb) => ~ AtBoundary
    <3>1. IsDigit(ca) \in BOOLEAN /\ IsDigit(cb) \in BOOLEAN
      BY DEF IsDigit
    <3> QED
      BY <3>1 DEF AtBoundary
  <2>3. Differ => InLoop /\ ca # cb
    BY DEF Differ
  <2>4. CASE FoldDiffer
    <3>1. /\ Differ /\ ~ IsDigit(ca) /\ ~ IsDigit(cb) /\ ca < 128 /\ cb < 128
          /\ LowerAscii(ca) # LowerAscii(cb)
          /\ order = Cmp(LowerAscii(ca), LowerAscii(cb))
      BY <2>4 DEF FoldDiffer, BothNarrow, Letters, Settle
    <3> QED
      BY <2>2, <2>3, <3>1
  <2>5. CASE OneWide
    <3>1. /\ Differ /\ ~ IsDigit(ca) /\ ~ IsDigit(cb) /\ (ca < 128) # (cb < 128)
          /\ order = Cmp(ca, cb)
      BY <2>5 DEF OneWide, Letters, Settle
    <3> QED
      BY <2>2, <2>3, <3>1
  <2> QED
    BY <2>1, <2>4, <2>5
<1>2. PICK i \in 0 .. Len(left), j \in 0 .. Len(right) : Staged(i, j)
  BY <1>1, StagedIs
<1>3. Leads(ca, fa(i)) /\ Leads(cb, fb(j))
  BY <1>1, <1>2, FacingIs DEF Facing
<1>4. fa(i) # fb(j) /\ order = Cmp(fa(i), fb(j))
  <2>1. CASE ca < 128 /\ cb < 128 /\ LowerAscii(ca) # LowerAscii(cb)
             /\ order = Cmp(LowerAscii(ca), LowerAscii(cb))
    BY <1>3, <2>1 DEF Leads
  <2>2. CASE /\ (IsDigit(ca) /\ ~ IsDigit(cb)) \/ (~ IsDigit(ca) /\ IsDigit(cb))
                  \/ (ca < 128) # (cb < 128)
             /\ order = Cmp(ca, cb)
    BY <1>1, <1>3, <2>2, LeadsOrder
  <2> QED
    BY <1>1, <2>1, <2>2
<1>5. Told(Cmp(fa(i), fb(j)))
  BY <1>1, <1>2, <1>4, BytesTold DEF SetApart
<1>6. Cmp(fa(i), fb(j)) \in Orders
  <2>1. fa(i) \in Int /\ fb(j) \in Int
    BY <1>3 DEF Leads
  <2> QED
    BY <2>1, CmpIs
<1> QED
  BY <1>4, <1>5, <1>6

\* A lesser wide character comes first.
LEMMA WideBelow ==
  ASSUME NEW d \in Seq(CodePoint), NEW e \in Seq(CodePoint),
         Plain(Bytes(d)), Plain(Bytes(e)), NEW i \in Nat, NEW j \in Nat,
         i < Len(d), j < Len(e), ReadSame(d, i, e, j),
         d[i + 1] >= 128, d[i + 1] < e[j + 1]
  PROVE  Below(Tokens(Bytes(d)), Tokens(Bytes(e)))
<1> DEFINE c == d[i + 1]
           h == e[j + 1]
           s == Bytes(d)
           t == Bytes(e)
           x == Pos(d, i)
           y == Pos(e, j)
<1>1. /\ c \in CodePoint /\ x \in Nat /\ x + Width(c) <= Len(s)
      /\ \A k \in 0 .. Width(c) - 1 : At(s, x + k) = At(Encode(c), k)
  BY CharHere
<1>2. /\ h \in CodePoint /\ y \in Nat /\ y + Width(h) <= Len(t)
      /\ \A k \in 0 .. Width(h) - 1 : At(t, y + k) = At(Encode(h), k)
  BY CharHere
<1>3. c \in Nat /\ h \in Nat /\ Width(c) \in 1 .. 4 /\ Width(h) \in 1 .. 4
  BY <1>1, <1>2, WidthIs
<1>4. s \in Seq(Byte) /\ t \in Seq(Byte) /\ Plain(s) /\ Plain(t) /\ Len(s) \in Nat /\ Len(t) \in Nat
  BY BeforeIs
<1>5. c >= 128 /\ c < h
  OBVIOUS
<1>6. Lower(Encode(c), Encode(h))
  <2> HIDE DEF c, h
  <2>1. 128 <= c
    BY <1>3, <1>5
  <2> QED
    BY <1>1, <1>2, <1>5, <2>1, EncodeOrder
<1>7. PICK k \in 0 .. 3 :
        /\ k < Width(c) /\ k < Width(h)
        /\ \A l \in 0 .. k - 1 : At(Encode(c), l) = At(Encode(h), l)
        /\ At(Encode(c), k) < At(Encode(h), k)
  BY <1>6 DEF Lower, Width
<1>8. k \in Nat /\ k <= Width(c) /\ k <= Width(h)
      /\ k \in 0 .. Width(c) - 1 /\ k \in 0 .. Width(h) - 1
  <2>1. \A w \in 1 .. 4 : k < w => k <= w /\ k \in 0 .. w - 1
    OBVIOUS
  <2> QED
    BY <1>3, <1>7, <2>1
<1>9. Reading(s)[x + k] = Reading(t)[y + k]
  BY <1>7, <1>8, PartReads
<1>10. At(s, x + k) = At(Encode(c), k) /\ At(t, y + k) = At(Encode(h), k)
  BY <1>1, <1>2, <1>8
\* Neither byte is a digit or white space, whether it begins the character or goes on.
<1>11. ASSUME NEW z \in CodePoint, z >= 128, k \in 0 .. Width(z) - 1
       PROVE  ~ Caseless(At(Encode(z), k))
  <2>1. /\ \A l \in 1 .. Width(z) - 1 : Continuation(At(Encode(z), l))
        /\ z < 128 <=> At(Encode(z), 0) < 128
        /\ z \in Nat
    BY <1>11, WidthIs
  <2>2. k = 0 \/ k \in 1 .. Width(z) - 1
    BY <1>11
  <2>4. \A g : Caseless(g) => g < 128
    BY DEF Caseless, IsDigit, IsWs
  <2>3. \A g : Continuation(g) => ~ (g < 128)
    BY DEF Continuation
  <2>5. ~ (z < 128)
    BY <1>11, <2>1
  <2> QED
    BY <2>1, <2>2, <2>3, <2>4, <2>5
<1>12. ~ Caseless(At(s, x + k)) /\ ~ Caseless(At(t, y + k))
  <2>1. h >= 128
    <3> HIDE DEF c, h
    <3> QED
      BY <1>3, <1>5
  <2> QED
    BY <1>1, <1>2, <1>5, <1>8, <1>10, <1>11, <2>1
<1>13. /\ x + k \in 0 .. Len(s) /\ y + k \in 0 .. Len(t) /\ x + k < Len(s) /\ y + k < Len(t)
  <2>1. \A u, l \in Nat, w \in 1 .. 4 : k < w /\ u + w <= l => u + k \in 0 .. l /\ u + k < l
    OBVIOUS
  <2> HIDE DEF x, y, s, t, c, h
  <2> QED
    BY <1>1, <1>2, <1>3, <1>4, <1>7, <2>1
<1>14. SameRead(s, x + k, t, y + k)
  BY <1>4, <1>9, <1>13 DEF SameRead
<1>15. At(s, x + k) < At(t, y + k)
  BY <1>7, <1>10
<1> HIDE DEF s, t, x, y
<1>16. Below(Tokens(s), Tokens(t))
  BY <1>12, <1>13, <1>14, <1>15, BytesBelow DEF Caseless
<1> QED
  BY <1>16 DEF s, t

LEMMA CmpSingles ==
  ASSUME NEW x \in CodePoint, NEW y \in CodePoint
  PROVE  CmpSeqs(<<x>>, <<y>>) = Cmp(x, y)
<1> DEFINE u == <<x>>
           v == <<y>>
           k == EqualBytes(u, 0, v, 0, 1)
<1>1. /\ Len(u) = 1 /\ Len(v) = 1 /\ At(u, 0) = x /\ At(v, 0) = y /\ Smaller(1, 1) = 1
      /\ x \in Int /\ y \in Int
  BY CodePointIs DEF At, Smaller
<1> HIDE DEF u, v
<1>2. CmpSeqs(u, v) = IF k = 1 THEN Cmp(1, 1) ELSE Cmp(At(u, k), At(v, k))
  BY <1>1 DEF CmpSeqs
<1>3. k \in 0 .. 1 /\ SameRun(u, 0, v, 0, k) /\ (k # 1 => At(u, 0 + k) # At(v, 0 + k))
  BY EqualBytesIs
<1> HIDE DEF k
<1>4. CASE k = 1
  <2>1. At(u, 0 + 0) = At(v, 0 + 0)
    BY <1>3, <1>4 DEF SameRun
  <2> QED
    BY <1>1, <1>2, <1>4, <2>1 DEF Cmp, u, v
<1>5. CASE k # 1
  <2>1. k = 0
    BY <1>3, <1>5
  <2> QED
    BY <1>1, <1>2, <2>1 DEF u, v
<1> QED
  BY <1>4, <1>5

\* Wide characters are compared as what they fold to.
LEMMA WideCompared ==
  ASSUME caseMode \in FoldModes, mode = caseMode, NEW x \in Seq(CodePoint),
         NEW y \in Seq(CodePoint), Tame(x), Tame(y),
         NEW i \in 1 .. Len(x), NEW j \in 1 .. Len(y), x[i] >= 128, y[j] >= 128
  PROVE  CmpChars(x[i], y[j]) = Cmp(Down(x)[i], Down(y)[j])
<1>1. x[i] \in CodePoint /\ y[j] \in CodePoint
  OBVIOUS
<1>2. x[i] \in Nat /\ y[j] \in Nat
  BY <1>1, CodePointIs
<1>3. ~ (x[i] < 128) /\ ~ (y[j] < 128)
  BY <1>2
<1>4. Down(x)[i] = Fold1(x[i]) /\ Down(y)[j] = Fold1(y[j])
  BY DEF Down
<1>5. CASE mode = "Fold"
  <2>1. Lowercase(x[i]) = <<CaseFold(x[i])>> /\ Lowercase(y[j]) = <<CaseFold(y[j])>>
    BY DEF Tame
  <2>2. CaseFold(x[i]) \in CodePoint /\ CaseFold(y[j]) \in CodePoint
    BY <1>1, CaseFoldIs
  <2>3. CmpSeqs(<<CaseFold(x[i])>>, <<CaseFold(y[j])>>) = Cmp(CaseFold(x[i]), CaseFold(y[j]))
    BY <2>2, CmpSingles
  <2> QED
    BY <1>3, <1>4, <1>5, <2>1, <2>3 DEF CmpChars, Fold1
<1>6. CASE mode = "AsciiOnly"
  BY <1>3, <1>4, <1>6 DEF CmpChars, Fold1
<1> QED
  BY <1>5, <1>6 DEF FoldModes

\* The pointers at wide characters, which have been compared.
WideAt(i, j, order) ==
  /\ Staged(i, j) /\ Facing(i, j)
  /\ left[i + 1] >= 128 /\ right[j + 1] >= 128
  /\ left[i + 1] \in CodePoint /\ right[j + 1] \in CodePoint
  /\ CharLen(ca) = Width(left[i + 1]) /\ CharLen(cb) = Width(right[j + 1])
  /\ order = Cmp(Down(left)[i + 1], Down(right)[j + 1])

LEMMA WideAtIs ==
  ASSUME TypeOK, Folding, FoldLinked, Tame(left), Tame(right), NEW order, Decode(order)
  PROVE  \E i \in 0 .. Len(left), j \in 0 .. Len(right) : WideAt(i, j, order)
<1>1. /\ InLoop /\ ca # cb /\ ca >= 128 /\ cb >= 128
      /\ \E x \in Decoded(a, pa, AnyChar), y \in Decoded(b, pb, AnyChar) : CmpChars(x, y) = order
  BY DEF Decode, BothWide, Letters, Differ
<1>2. PICK i \in 0 .. Len(left), j \in 0 .. Len(right) : Staged(i, j)
  BY <1>1, StagedIs
<1>3. Facing(i, j)
  BY <1>1, <1>2, FacingIs
<1>4. /\ left \in Seq(CodePoint) /\ right \in Seq(CodePoint)
      /\ a = Bytes(left) /\ b = Bytes(right) /\ mode = caseMode /\ caseMode \in FoldModes
  BY DEF Folding
<1>5. /\ i \in Nat /\ i < Len(left) /\ pa = Pos(left, i)
      /\ j \in Nat /\ j < Len(right) /\ pb = Pos(right, j)
  BY <1>2, <1>3 DEF Staged, Facing
<1>6. ca \in Nat /\ cb \in Nat
  BY <1>3 DEF Facing, Leads
<1>7. /\ pa \in Starts(a) /\ CharAt(a, pa) = left[i + 1] /\ CharLen(ca) = Width(left[i + 1])
      /\ left[i + 1] < 128 <=> ca < 128
      /\ left[i + 1] \in CodePoint
  BY <1>4, <1>5, CharThere, CharHere DEF ca
<1>8. /\ pb \in Starts(b) /\ CharAt(b, pb) = right[j + 1] /\ CharLen(cb) = Width(right[j + 1])
      /\ right[j + 1] < 128 <=> cb < 128
      /\ right[j + 1] \in CodePoint
  BY <1>4, <1>5, CharThere, CharHere DEF cb
<1>9. left[i + 1] >= 128 /\ right[j + 1] >= 128
  <2>1. left[i + 1] \in Nat /\ right[j + 1] \in Nat
    BY <1>7, <1>8, CodePointIs
  <2>2. \A m, n \in Nat : m >= 128 /\ (n < 128 <=> m < 128) => n >= 128
    OBVIOUS
  <2> QED
    BY <1>1, <1>6, <1>7, <1>8, <2>1, <2>2
<1>10. Decoded(a, pa, AnyChar) = {left[i + 1]} /\ Decoded(b, pb, AnyChar) = {right[j + 1]}
  BY <1>7, <1>8 DEF Decoded, Starts
<1>11. CmpChars(left[i + 1], right[j + 1]) = order
  BY <1>1, <1>10
<1>12. i + 1 \in 1 .. Len(left) /\ j + 1 \in 1 .. Len(right)
  BY <1>4, <1>5
<1>13. order = Cmp(Down(left)[i + 1], Down(right)[j + 1])
  BY <1>4, <1>9, <1>11, <1>12, WideCompared
<1> QED
  BY <1>2, <1>3, <1>7, <1>8, <1>9, <1>13 DEF WideAt

LEMMA WideTold ==
  ASSUME TypeOK, Folding, FoldLinked, Tame(left), Tame(right), WideDiffer
  PROVE  \E order \in Orders : Settle(order) /\ Told(order)
<1>1. PICK order \in {"Less", "Greater"} : Decode(order) /\ Settle(order)
  BY DEF WideDiffer
<1>2. PICK i \in 0 .. Len(left), j \in 0 .. Len(right) : WideAt(i, j, order)
  BY <1>1, WideAtIs
<1> DEFINE d == Down(left)
           e == Down(right)
<1>3. /\ Folds(left, d) /\ Folds(right, e) /\ left \in Seq(CodePoint) /\ right \in Seq(CodePoint)
      /\ Plain(lowA) /\ Plain(lowB)
  BY DEF Folding, Pairs
<1>4. /\ i \in Nat /\ j \in Nat /\ i < Len(left) /\ j < Len(right)
      /\ ReadSame(d, i, e, j) /\ left[i + 1] >= 128 /\ right[j + 1] >= 128
      /\ order = Cmp(d[i + 1], e[j + 1])
  BY <1>2 DEF WideAt, Staged, Facing
<1>5. d \in Seq(CodePoint) /\ e \in Seq(CodePoint) /\ i < Len(d) /\ j < Len(e)
  BY <1>3, <1>4 DEF Folds
<1>6. i + 1 \in 1 .. Len(left) /\ j + 1 \in 1 .. Len(right)
  BY <1>3, <1>4
<1>7. d[i + 1] >= 128 /\ e[j + 1] >= 128
  BY <1>3, <1>4, <1>6 DEF Folds, Alone
<1>8. d[i + 1] \in CodePoint /\ e[j + 1] \in CodePoint
  BY <1>3, <1>6 DEF Folds, Alone
<1>9. d[i + 1] \in Nat /\ e[j + 1] \in Nat
  BY <1>8, CodePointIs
<1>10. ReadSame(e, j, d, i)
  BY <1>4 DEF ReadSame
<1> HIDE DEF d, e
<1>11. CASE order = "Less"
  <2>1. d[i + 1] < e[j + 1]
    BY <1>4, <1>9, <1>11 DEF Cmp
  <2>2. Below(Tokens(Bytes(d)), Tokens(Bytes(e)))
    BY <1>3, <1>4, <1>5, <1>7, <2>1, WideBelow DEF lowA, lowB, d, e
  <2> QED
    BY <1>1, <1>11, <2>2 DEF Told, lowA, lowB, d, e, Orders
<1>12. CASE order = "Greater"
  <2>1. e[j + 1] < d[i + 1]
    BY <1>4, <1>9, <1>12 DEF Cmp
  <2>2. Below(Tokens(Bytes(e)), Tokens(Bytes(d)))
    BY <1>3, <1>4, <1>5, <1>7, <1>10, <2>1, WideBelow DEF lowA, lowB, d, e
  <2> QED
    BY <1>1, <1>12, <2>2 DEF Told, lowA, lowB, d, e, Orders
<1> QED
  BY <1>11, <1>12

\* The pointers after a step.
LinkedAt(p, q) == Linked(left, Down(left), p, right, Down(right), q)

LEMMA LinkedFirst ==
  ASSUME Folding
  PROVE  LinkedAt(0, 0)
<1> DEFINE d == Down(left)
           e == Down(right)
<1>1. Folds(left, d) /\ Folds(right, e)
  BY DEF Folding, Pairs
<1>2. /\ left \in Seq(CodePoint) /\ right \in Seq(CodePoint)
      /\ d \in Seq(CodePoint) /\ e \in Seq(CodePoint)
  BY <1>1 DEF Folds
<1> HIDE DEF d, e
<1>3. /\ Pos(left, 0) = 0 /\ Pos(right, 0) = 0 /\ Pos(d, 0) = 0 /\ Pos(e, 0) = 0
      /\ Len(left) \in Nat /\ Len(right) \in Nat
      /\ Bytes(d) \in Seq(Byte) /\ Bytes(e) \in Seq(Byte)
  BY <1>2, BeforeIs
<1>4. Reading(Bytes(d))[0] = <<>> /\ Reading(Bytes(e))[0] = <<>>
  BY <1>3, ReadingIs
<1>5. ReadSame(d, 0, e, 0)
  BY <1>3, <1>4 DEF ReadSame
<1>6. 0 \in 0 .. Len(left) /\ 0 \in 0 .. Len(right)
  BY <1>3
<1>7. AtChars(left, d, 0, right, e, 0)
  BY <1>3, <1>5, <1>6 DEF AtChars
<1>8. Linked(left, d, 0, right, e, 0)
  BY <1>1, <1>7, AtCharsLinked
<1> QED
  BY <1>8 DEF LinkedAt, d, e

\* Over equal bytes the pointers stay linked.
LEMMA RunLinked ==
  ASSUME Folding, NEW p \in Nat, NEW q \in Nat, LinkedAt(p, q), NEW n \in Nat,
         p + n <= Len(a), q + n <= Len(b), SameRun(a, p, b, q, n)
  PROVE  LinkedAt(p + n, q + n)
<1>1. /\ a = Bytes(left) /\ b = Bytes(right)
      /\ Pairs(left, Down(left), right, Down(right))
  BY DEF Folding
<1> QED
  BY <1>1, LinkedRun DEF LinkedAt

\* Equal texts have equal tokens, folded.
LEMMA SameTold ==
  ASSUME TypeOK, Folding, a = b
  PROVE  Told("Equal")
<1> DEFINE d == Down(left)
           e == Down(right)
           n == Len(a)
<1>1. a = Bytes(left) /\ b = Bytes(right) /\ Pairs(left, d, right, e)
  BY DEF Folding
<1>2. n \in Nat /\ 0 + n = n /\ n <= n
  BY Lengths
<1>3. LinkedAt(0 + n, 0 + n)
  <2>1. SameRun(a, 0, b, 0, n)
    BY DEF SameRun
  <2> HIDE DEF n
  <2>2. 0 + n <= Len(a) /\ 0 + n <= Len(b) /\ 0 \in Nat
    BY <1>2 DEF n
  <2> QED
    BY <1>2, <2>1, <2>2, LinkedFirst, RunLinked
<1>4. Linked(left, d, n, right, e, n)
  BY <1>2, <1>3 DEF LinkedAt
<1>5. n = Len(Bytes(left)) /\ n = Len(Bytes(right))
  BY <1>1
<1> HIDE DEF n, d, e
<1>6. AtChars(left, d, n, right, e, n)
  BY <1>1, <1>2, <1>4, <1>5, LinkedHere
<1>7. PICK i \in 0 .. Len(left), j \in 0 .. Len(right) :
        n = Pos(left, i) /\ n = Pos(right, j) /\ ReadSame(d, i, e, j)
  BY <1>6 DEF AtChars
<1>8. Folds(left, d) /\ Folds(right, e)
  BY <1>1 DEF Pairs
<1>9. /\ left \in Seq(CodePoint) /\ right \in Seq(CodePoint)
      /\ d \in Seq(CodePoint) /\ e \in Seq(CodePoint)
      /\ Len(d) = Len(left) /\ Len(e) = Len(right)
  BY <1>8 DEF Folds
<1>10. i = Len(left) /\ j = Len(right)
  <2>1. /\ Pos(left, i) < Len(Bytes(left)) <=> i < Len(left)
        /\ Pos(right, j) < Len(Bytes(right)) <=> j < Len(right)
    BY <1>8, HereIs DEF Here
  <2>2. ~ (n < n) /\ Len(left) \in Nat /\ Len(right) \in Nat
    BY <1>2, <1>9
  <2>3. ~ (i < Len(left)) /\ ~ (j < Len(right))
    BY <1>5, <1>7, <2>1, <2>2
  <2> QED
    BY <2>2, <2>3
<1>11. Pos(d, i) = Len(Bytes(d)) /\ Pos(e, j) = Len(Bytes(e))
  BY <1>9, <1>10, BeforeIs
<1>12. Tokens(Bytes(d)) = Tokens(Bytes(e))
  BY <1>7, <1>11 DEF ReadSame, Tokens
<1> QED
  BY <1>12 DEF Told, lowA, lowB, d, e

\* White space ends in both texts where characters begin.
LEMMA SpaceLinked ==
  ASSUME TypeOK, Folding, FoldLinked, ca < 128 \/ cb < 128
  PROVE  LinkedAt(WsEnd(a, pa), WsEnd(b, pb))
<1> DEFINE d == Down(left)
           e == Down(right)
<1>1. PICK i \in 0 .. Len(left), j \in 0 .. Len(right) : Staged(i, j)
  BY StagedIs
<1>2. /\ a = Bytes(left) /\ b = Bytes(right) /\ Folds(left, d) /\ Folds(right, e)
      /\ pa = Pos(left, i) /\ pb = Pos(right, j) /\ ReadSame(d, i, e, j)
  BY <1>1 DEF Folding, Pairs, Staged
<1>3. PICK k \in 0 .. Len(left) :
        /\ Pos(left, k) = WsEnd(Bytes(left), Pos(left, i))
        /\ Reading(Bytes(d))[Pos(d, k)] = Reading(Bytes(d))[Pos(d, i)]
  BY <1>2, SpaceFolds
<1>4. PICK l \in 0 .. Len(right) :
        /\ Pos(right, l) = WsEnd(Bytes(right), Pos(right, j))
        /\ Reading(Bytes(e))[Pos(e, l)] = Reading(Bytes(e))[Pos(e, j)]
  BY <1>2, SpaceFolds
<1> HIDE DEF d, e
<1>5. ReadSame(d, k, e, l)
  BY <1>2, <1>3, <1>4 DEF ReadSame
<1>6. AtChars(left, d, WsEnd(a, pa), right, e, WsEnd(b, pb))
  BY <1>2, <1>3, <1>4, <1>5 DEF AtChars
<1>7. Linked(left, d, WsEnd(a, pa), right, e, WsEnd(b, pb))
  BY <1>2, <1>6, AtCharsLinked
<1> QED
  BY <1>7 DEF LinkedAt, d, e

\* Past characters that fold alike the pointers stay linked.
LEMMA PassedLinked ==
  ASSUME Folding, NEW i, NEW j, Staged(i, j), Facing(i, j),
         Down(left)[i + 1] = Down(right)[j + 1]
  PROVE  LinkedAt(pa + Width(left[i + 1]), pb + Width(right[j + 1]))
<1> DEFINE d == Down(left)
           e == Down(right)
<1>1. Folds(left, d) /\ Folds(right, e) /\ pa = Pos(left, i) /\ pb = Pos(right, j)
      /\ ReadSame(d, i, e, j) /\ d[i + 1] = e[j + 1]
  BY DEF Folding, Pairs, Staged
<1>2. i \in Nat /\ j \in Nat /\ i < Len(left) /\ j < Len(right)
  BY DEF Facing
<1> HIDE DEF d, e
<1>3. AtChars(left, d, pa + Width(left[i + 1]), right, e, pb + Width(right[j + 1]))
  BY <1>1, <1>2, CharsPassed
<1>4. Linked(left, d, pa + Width(left[i + 1]), right, e, pb + Width(right[j + 1]))
  BY <1>1, <1>3, AtCharsLinked
<1> QED
  BY <1>4 DEF LinkedAt, d, e

LEMMA FoldEqualLinked ==
  ASSUME TypeOK, Folding, FoldLinked, FoldEqual
  PROVE  LinkedAt(pa + 1, pb + 1)
<1>1. InLoop /\ ca < 128 /\ cb < 128 /\ LowerAscii(ca) = LowerAscii(cb)
  BY DEF FoldEqual, BothNarrow, Letters, Differ
<1>2. PICK i \in 0 .. Len(left), j \in 0 .. Len(right) : Staged(i, j)
  BY <1>1, StagedIs
<1>3. Facing(i, j)
  BY <1>1, <1>2, FacingIs
<1>4. /\ left \in Seq(CodePoint) /\ right \in Seq(CodePoint)
      /\ a = Bytes(left) /\ b = Bytes(right)
      /\ i \in Nat /\ i < Len(left) /\ pa = Pos(left, i)
      /\ j \in Nat /\ j < Len(right) /\ pb = Pos(right, j)
  BY <1>2, <1>3 DEF Folding, Staged, Facing
<1>5. /\ left[i + 1] \in CodePoint /\ left[i + 1] < 128 <=> ca < 128
      /\ left[i + 1] < 128 => ca = left[i + 1]
  BY <1>4, CharHere, CharThere DEF ca
<1>6. /\ right[j + 1] \in CodePoint /\ right[j + 1] < 128 <=> cb < 128
      /\ right[j + 1] < 128 => cb = right[j + 1]
  BY <1>4, CharHere, CharThere DEF cb
<1>7. Width(left[i + 1]) = 1 /\ Width(right[j + 1]) = 1
  BY <1>1, <1>5, <1>6, WidthIs
<1>8. Down(left)[i + 1] = Down(right)[j + 1]
  <2>1. i + 1 \in 1 .. Len(left) /\ j + 1 \in 1 .. Len(right)
    BY <1>4
  <2>2. Down(left)[i + 1] = Fold1(left[i + 1]) /\ Down(right)[j + 1] = Fold1(right[j + 1])
    BY <2>1 DEF Down
  <2> QED
    BY <1>1, <1>5, <1>6, <2>2 DEF Fold1
<1> QED
  BY <1>2, <1>3, <1>7, <1>8, PassedLinked

LEMMA WideEqualLinked ==
  ASSUME TypeOK, Folding, FoldLinked, Tame(left), Tame(right), Decode("Equal")
  PROVE  LinkedAt(pa + CharLen(ca), pb + CharLen(cb))
<1>1. PICK i \in 0 .. Len(left), j \in 0 .. Len(right) : WideAt(i, j, "Equal")
  BY WideAtIs
<1> DEFINE c == Down(left)[i + 1]
           h == Down(right)[j + 1]
<1>2. /\ Staged(i, j) /\ Facing(i, j) /\ Cmp(c, h) = "Equal"
      /\ CharLen(ca) = Width(left[i + 1]) /\ CharLen(cb) = Width(right[j + 1])
  BY <1>1 DEF WideAt
<1>3. c \in CodePoint /\ h \in CodePoint
  <2>1. Folds(left, Down(left)) /\ Folds(right, Down(right))
    BY DEF Folding, Pairs
  <2>2. i \in Nat /\ j \in Nat /\ i < Len(left) /\ j < Len(right)
        /\ Len(left) \in Nat /\ Len(right) \in Nat
    BY <1>2 DEF Facing, Folding
  <2>3. i + 1 \in 1 .. Len(left) /\ j + 1 \in 1 .. Len(right)
    BY <2>2
  <2> QED
    BY <2>1, <2>3 DEF Folds, Alone
<1>4. c = h
  BY <1>2, <1>3, CodePointIs, CmpIs
<1> QED
  BY <1>2, <1>4, PassedLinked

\* A step settles what the folded texts bear out, or leaves the pointers linked.
FoldMoves ==
  \/ pc' = "panicked"
  \/ \E order \in Orders : Settle(order) /\ Told(order)
  \/ \E p, q : Consume(p, q) /\ LinkedAt(p, q)

LEMMA FoldStepMoves ==
  ASSUME TypeOK, Folding, pc = "loop" => FoldLinked, Tame(left), Tame(right),
         SamePointer \/ New \/ FoldIterate
  PROVE  FoldMoves
<1>1. ASSUME NEW order \in Orders, Settle(order), Told(order) PROVE FoldMoves
  BY <1>1 DEF FoldMoves
<1>2. ASSUME NEW p, NEW q, Consume(p, q), LinkedAt(p, q) PROVE FoldMoves
  BY <1>2 DEF FoldMoves
<1>3. InLoop => FoldLinked /\ LinkedAt(pa, pb)
  BY DEF InLoop, FoldLinked, LinkedAt
<1>4. /\ pa \in Nat /\ pb \in Nat /\ pa <= Len(a) /\ pb <= Len(b)
      /\ Len(a) \in Nat /\ Len(b) \in Nat
  BY Lengths
<1>5. CASE SamePointer
  <2>1. a = b /\ Settle("Equal") /\ "Equal" \in Orders
    BY <1>5 DEF SamePointer, Orders
  <2> QED
    BY <1>1, <2>1, SameTold
<1>6. CASE New
  <2> DEFINE n == Start(a, b)
  <2>1. Consume(n, n)
    BY <1>6 DEF New
  <2>2. n \in 0 .. Len(a) /\ n \in 0 .. Len(b) /\ \A k \in 0 .. n - 1 : At(a, k) = At(b, k)
    BY StartIs
  <2> HIDE DEF n
  <2>3. n \in Nat /\ 0 + n = n /\ 0 + n <= Len(a) /\ 0 + n <= Len(b) /\ 0 \in Nat
        /\ \A k \in 0 .. n - 1 : 0 + k = k
    BY <1>4, <2>2
  <2>4. SameRun(a, 0, b, 0, n)
    BY <2>2, <2>3 DEF SameRun
  <2>5. LinkedAt(0 + n, 0 + n)
    BY <2>3, <2>4, LinkedFirst, RunLinked
  <2>6. LinkedAt(n, n)
    BY <2>3, <2>5
  <2> QED
    BY <1>2, <2>1, <2>6
<1>7. CASE End
  <2>1. pc = "loop" /\ AtEnd /\ Settle(Cmp(Len(a) - pa, Len(b) - pb))
    BY <1>7 DEF End
  <2>2. Told(Cmp(Len(a) - pa, Len(b) - pb))
    BY <2>1, EndTold
  <2>3. Cmp(Len(a) - pa, Len(b) - pb) \in Orders
    BY <1>4, CmpIs
  <2> QED
    BY <1>1, <2>1, <2>2, <2>3
<1>8. CASE DigitsSettle
  <2>1. /\ InLoop /\ BothDigits /\ HandleDigits(a, pa, b, pb).order # "Undecided"
        /\ Settle(HandleDigits(a, pa, b, pb).order)
        /\ Fine(a, pa, b, pb, HandleDigits(a, pa, b, pb))
    BY <1>8, Looping, HandleDigitsFine DEF DigitsSettle
  <2>2. HandleDigits(a, pa, b, pb).order \in Orders
    BY <2>1 DEF Fine, Unequal, Orders
  <2>3. Told(HandleDigits(a, pa, b, pb).order)
    BY <1>3, <2>1, DigitsTold
  <2> QED
    BY <1>1, <2>1, <2>2, <2>3
<1>9. CASE DigitsContinue
  <2> DEFINE by == HandleDigits(a, pa, b, pb).by
  <2>1. /\ InLoop /\ Consume(pa + by, pb + by)
        /\ Fine(a, pa, b, pb, HandleDigits(a, pa, b, pb))
        /\ HandleDigits(a, pa, b, pb).order = "Undecided"
    BY <1>9, Looping, HandleDigitsFine DEF DigitsContinue
  <2>2. /\ by \in Nat /\ pa + by <= Len(a) /\ pb + by <= Len(b)
        /\ SameRun(a, pa, b, pb, by)
    BY <2>1 DEF Fine
  <2> HIDE DEF by
  <2>3. LinkedAt(pa + by, pb + by)
    BY <1>3, <1>4, <2>1, <2>2, RunLinked
  <2> QED
    BY <1>2, <2>1, <2>3
<1>10. CASE SkipWs
  <2>1. InLoop /\ (IsWs(ca) \/ IsWs(cb)) /\ Consume(WsEnd(a, pa), WsEnd(b, pb))
    BY <1>10 DEF SkipWs
  <2>2. \A h : IsWs(h) => h < 128
    BY DEF IsWs
  <2>3. LinkedAt(WsEnd(a, pa), WsEnd(b, pb))
    BY <1>3, <2>1, <2>2, SpaceLinked
  <2> QED
    BY <1>2, <2>1, <2>3
<1>11. CASE Boundary
  <2>1. /\ Differ /\ AtBoundary /\ InLoop /\ Settle(IF IsDigit(ca) THEN "Greater" ELSE "Less")
    BY <1>11 DEF Boundary, Differ
  <2>2. Told(IF IsDigit(ca) THEN "Greater" ELSE "Less")
    BY <1>3, <2>1, BoundaryTold
  <2>3. (IF IsDigit(ca) THEN "Greater" ELSE "Less") \in Orders
    BY DEF Orders
  <2> QED
    BY <1>1, <2>1, <2>2, <2>3
<1>12. CASE Advance
  <2>1. InLoop /\ ca = cb /\ Consume(pa + 1, pb + 1)
    BY <1>12 DEF Advance
  <2>2. pa < Len(a) /\ pb < Len(b)
    BY <2>1, Looping
  <2>3. pa + 1 <= Len(a) /\ pb + 1 <= Len(b)
    BY <1>4, <2>2
  <2>4. SameRun(a, pa, b, pb, 1)
    <3>1. pa + 0 = pa /\ pb + 0 = pb /\ \A k \in 0 .. 1 - 1 : k = 0
      BY <1>4
    <3> QED
      BY <2>1, <3>1 DEF SameRun, ca, cb
  <2>5. LinkedAt(pa + 1, pb + 1)
    BY <1>3, <1>4, <2>1, <2>3, <2>4, RunLinked
  <2> QED
    BY <1>2, <2>1, <2>5
<1>13. CASE DigitMismatch \/ FoldDiffer \/ OneWide
  <2>1. InLoop /\ \E order : Settle(order)
    BY <1>13 DEF DigitMismatch, FoldDiffer, OneWide, BothNarrow, Letters, Differ
  <2>2. PICK order : Settle(order)
    BY <2>1
  <2>3. order \in Orders /\ Told(order)
    BY <1>3, <1>13, <2>1, <2>2, NarrowTold
  <2> QED
    BY <1>1, <2>2, <2>3
<1>14. CASE FoldEqual
  <2>1. InLoop /\ Consume(pa + 1, pb + 1)
    BY <1>14 DEF FoldEqual, BothNarrow, Letters, Differ
  <2> QED
    BY <1>2, <1>3, <1>14, <2>1, FoldEqualLinked
<1>15. CASE WideDiffer
  <2>1. InLoop
    BY <1>15 DEF WideDiffer, Decode, BothWide, Letters, Differ
  <2> QED
    BY <1>1, <1>3, <1>15, <2>1, WideTold
<1>16. CASE WideEqual
  <2>1. Decode("Equal") /\ Consume(pa + CharLen(ca), pb + CharLen(cb))
    BY <1>16 DEF WideEqual
  <2>2. InLoop
    BY <2>1 DEF Decode, BothWide, Letters, Differ
  <2> QED
    BY <1>2, <1>3, <2>1, <2>2, WideEqualLinked
<1>17. CASE Panic
  BY <1>17 DEF Panic, FoldMoves
<1> QED
  BY <1>5, <1>6, <1>7, <1>8, <1>9, <1>10, <1>11, <1>12, <1>13, <1>14, <1>15, <1>16, <1>17
  DEF FoldIterate

\* The inductive invariant: the pointers stay linked until the answer is that of the
\* folded texts.
FoldNatural ==
  FoldWell => /\ pc = "loop" => FoldLinked
              /\ pc = "done" => res = NormalCmp

\* What a step of the call leaves alone.
SameCall == SameConfiguration /\ a' = a /\ b' = b /\ mode' = mode

LEMMA SameFold ==
  ASSUME SameCall
  PROVE  /\ FoldWell' => FoldWell
         /\ NormalCmp' = NormalCmp
         /\ LinkedAt(pa', pb') => FoldLinked'
<1>1. SameConfiguration /\ left' = left /\ right' = right /\ caseMode' = caseMode
      /\ a' = a /\ b' = b /\ mode' = mode
  BY DEF SameCall, SameConfiguration
<1>2. FoldWell' => FoldWell
  BY <1>1 DEF FoldWell, NoSharedLead
<1>3. NormalCmp' = NormalCmp
  <2>1. /\ (Normalize(left).text)' = Normalize(left).text
        /\ (Normalize(right).text)' = Normalize(right).text
    BY <1>1, SameNormalize
  <2> QED
    BY <2>1 DEF NormalCmp
<1>4. Down(left)' = Down(left) /\ Down(right)' = Down(right)
  BY <1>1 DEF Down, Fold1
<1>5. LinkedAt(pa', pb') => FoldLinked'
  BY <1>1, <1>4 DEF LinkedAt, FoldLinked
<1> QED
  BY <1>2, <1>3, <1>5

LEMMA FoldStepNatural ==
  ASSUME NInv, FoldNatural, mode \in FoldModes, SamePointer \/ New \/ FoldIterate, SameCall
  PROVE  FoldNatural'
<1>1. SUFFICES ASSUME FoldWell'
               PROVE  (pc = "loop" => FoldLinked)' /\ (pc = "done" => res = NormalCmp)'
  BY DEF FoldNatural
<1>2. FoldWell /\ NormalCmp' = NormalCmp /\ (LinkedAt(pa', pb') => FoldLinked')
  BY <1>1, SameFold
<1>3. /\ pc = "loop" => FoldLinked
      /\ Folding /\ Tame(left) /\ Tame(right)
  BY <1>2, FoldWellIs DEF FoldNatural, FoldWell
<1>4. TypeOK
  <2>1. pc # "panicked"
    BY DEF SamePointer, New, FoldIterate, End, DigitsSettle,
       DigitsContinue, SkipWs, Boundary, Advance, DigitMismatch, FoldEqual, FoldDiffer,
       OneWide, Panic, WideDiffer, WideEqual, Decode, BothWide, BothNarrow, Letters, Differ, InLoop
  <2> QED
    BY <2>1 DEF NInv, FoldInv
<1>5. FoldMoves
  BY <1>3, <1>4, FoldStepMoves
<1>6. CASE pc' = "panicked"
  BY <1>6
<1>7. ASSUME NEW order \in Orders, Settle(order), Told(order)
      PROVE  pc' = "done" /\ res' = NormalCmp
  BY <1>3, <1>7, ToldOut DEF Settle
<1>8. ASSUME NEW p, NEW q, Consume(p, q), LinkedAt(p, q)
      PROVE  pc' = "loop" /\ FoldLinked'
  BY <1>2, <1>8 DEF Consume
<1> QED
  BY <1>2, <1>5, <1>6, <1>7, <1>8 DEF FoldMoves

LEMMA FoldNaturalInductive == NInv /\ FoldNatural /\ [NormNext]_normVars => FoldNatural'
<1> SUFFICES ASSUME NInv, FoldNatural, [NormNext]_normVars PROVE FoldNatural'
  OBVIOUS
<1>1. mode = "Unset" => pc = "new"
  BY DEF NInv, Subjects, Fresh
<1>2. CASE mode = "Unset" /\ pc' = pc
  BY <1>1, <1>2 DEF FoldNatural
<1>3. CASE SetForm \/ SetCase
  BY <1>2, <1>3 DEF SetForm, SetCase, Configuring, foldVars, vars
<1>4. CASE CompareDirectly \/ CompareNormalized
  BY <1>2, <1>4 DEF CompareDirectly, CompareNormalized, Compare
<1>5. CASE Comparing /\ SensitiveStep
  <2>1. mode' = "Sensitive" /\ "Sensitive" \notin FoldModes
    BY <1>5 DEF SensitiveStep, FoldModes
  <2> QED
    BY <2>1 DEF FoldNatural, FoldWell
<1>6. CASE Comparing /\ mode \in FoldModes /\ FoldStep
  <2>1. SameConfiguration /\ mode' = mode /\ (SamePointer \/ New \/ FoldIterate)
    BY <1>6 DEF Comparing, SameConfiguration, FoldStep
  <2>2. a' = a /\ b' = b
    BY <2>1 DEF SamePointer, New, FoldIterate, End, DigitsSettle, DigitsContinue, SkipWs,
       Boundary, Advance, DigitMismatch, FoldEqual, FoldDiffer, OneWide, Panic, WideDiffer,
       WideEqual, Settle, Consume
  <2> QED
    BY <1>6, <2>1, <2>2, FoldStepNatural DEF SameCall
<1>7. CASE NormIdle \/ UNCHANGED normVars
  <2>1. SameCall /\ pa' = pa /\ pb' = pb /\ pc' = pc /\ res' = res
    BY <1>7 DEF NormIdle, normVars, foldVars, vars, SameCall, SameConfiguration
  <2>2. /\ FoldWell' => FoldWell
        /\ NormalCmp' = NormalCmp /\ (LinkedAt(pa', pb') => FoldLinked')
    BY <2>1, SameFold
  <2>3. FoldLinked => LinkedAt(pa', pb')
    BY <2>1 DEF FoldLinked, LinkedAt
  <2> QED
    BY <2>1, <2>2, <2>3 DEF FoldNatural
<1> QED
  BY <1>3, <1>4, <1>5, <1>6, <1>7 DEF NormNext, Comparing

\* Whatever the configuration, whether the texts are normalized first or folded while they
\* are compared, the answer is the natural order of the normal forms.
THEOREM NormalizedIsNatural == NormSpec => []NormalizedOrder
<1>1. NormInit => FoldNatural
  BY DEF NormInit, FoldNatural
<1>2. NormSpec => []FoldNatural
  BY <1>1, NormInvariance, FoldNaturalInductive, PTL DEF NormSpec
<1>3. NInv /\ FoldNatural /\ SensitiveOrder => NormalizedOrder
  <2> SUFFICES ASSUME NInv, FoldNatural, SensitiveOrder, pc = "done", Plain(a), Plain(b),
                      mode \in FoldModes => Tame(left) /\ Tame(right) /\ NoSharedLead
               PROVE  res = NormalCmp
    BY DEF NormalizedOrder
  <2>1. mode # "Unset" /\ mode \in CaseModes \union {"Unset"}
    BY DEF NInv, Subjects, Fresh, Configured
  <2>2. CASE mode = "Sensitive"
    BY <2>2 DEF SensitiveOrder
  <2>3. CASE mode \in FoldModes
    BY <2>3 DEF FoldNatural, FoldWell
  <2> QED
    BY <2>1, <2>2, <2>3 DEF CaseModes
<1> QED
  BY <1>2, <1>3, NormInvariance, SensitiveIsNatural, PTL
==============================================================================

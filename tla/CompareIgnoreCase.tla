-------------------------- MODULE CompareIgnoreCase --------------------------
(***************************************************************************)
(* compare_impl_inner of src/src/compare_ignore_case/mod.rs: the loop of    *)
(* NatCompare with letters folded.  It works on the same CompareCtx, so the *)
(* prefix skip, the digit runs, white space, the digit boundary and the     *)
(* step over equal bytes are NatCompare's actions; what differs is what is  *)
(* done with two bytes that differ.                                         *)
(***************************************************************************)
EXTENDS NatCompare, Utf8

CONSTANTS
  Lowercase(_),    \* char::to_lowercase, a sequence of characters
  AnyChar          \* what decoding bytes that are no UTF-8 may yield

ASSUME LowercaseAssumption ==
  \A c \in CodePoint : Lowercase(c) \in Seq(CodePoint)

VARIABLE mode      \* "Fold" (full_case_fold) or "AsciiOnly"

foldVars == <<vars, mode>>

FoldModes == {"Fold", "AsciiOnly"}

FoldInit == Init /\ mode \in FoldModes

LowerAscii(c) == IF c \in 65 .. 90 THEN c + 32 ELSE c

\* Iterator::cmp.
CmpSeqs(u, v) ==
  LET n == Smaller(Len(u), Len(v))
      k == EqualBytes(u, 0, v, 0, n)
  IN  IF k = n THEN Cmp(Len(u), Len(v)) ELSE Cmp(At(u, k), At(v, k))

CmpChars(x, y) ==
  IF mode = "Fold" THEN CmpSeqs(Lowercase(x), Lowercase(y)) ELSE Cmp(x, y)

\* One byte is a digit, the other is not, and no run is going on.
DigitMismatch ==
  /\ Differ
  /\ IsDigit(ca) \/ IsDigit(cb)
  /\ ~ AtBoundary
  /\ Settle(Cmp(ca, cb))

Letters == Differ /\ ~ IsDigit(ca) /\ ~ IsDigit(cb)

BothNarrow == Letters /\ ca < 128 /\ cb < 128

\* Nothing is consumed where only the case differs.
FoldEqualStays ==
  /\ BothNarrow
  /\ LowerAscii(ca) = LowerAscii(cb)
  /\ Consume(pa, pb)

FoldEqual ==
  /\ BothNarrow
  /\ LowerAscii(ca) = LowerAscii(cb)
  /\ Consume(pa + 1, pb + 1)

FoldDiffer ==
  /\ BothNarrow
  /\ LowerAscii(ca) # LowerAscii(cb)
  /\ Settle(Cmp(LowerAscii(ca), LowerAscii(cb)))

\* A character above 127 against one below.
OneWide ==
  /\ Letters
  /\ (ca < 128) # (cb < 128)
  /\ Settle(Cmp(ca, cb))

BothWide == Letters /\ ca >= 128 /\ cb >= 128

Panic ==
  /\ BothWide
  /\ Cut(a, pa) \/ Cut(b, pb)
  /\ pc' = "panicked"
  /\ UNCHANGED <<a, b, pa, pb, res>>

Decode(order) ==
  /\ BothWide /\ ~ Cut(a, pa) /\ ~ Cut(b, pb)
  /\ \E x \in Decoded(a, pa, AnyChar), y \in Decoded(b, pb, AnyChar) :
       CmpChars(x, y) = order

WideDiffer == \E order \in {"Less", "Greater"} : Decode(order) /\ Settle(order)

\* Both pointers advance by the length of the left character.
WideEqualLeft ==
  /\ Decode("Equal")
  /\ Consume(pa + CharLen(ca), pb + CharLen(ca))

WideEqual ==
  /\ Decode("Equal")
  /\ Consume(pa + CharLen(ca), pb + CharLen(cb))

FoldIterate ==
  \/ End \/ DigitsSettle \/ DigitsContinue \/ SkipWs \/ Boundary \/ Advance
  \/ DigitMismatch \/ FoldEqual \/ FoldDiffer \/ OneWide
  \/ Panic \/ WideDiffer \/ WideEqual

FoldStep == (SamePointer \/ New \/ FoldIterate) /\ UNCHANGED mode

FoldIdle == pc \in {"done", "panicked"} /\ UNCHANGED foldVars

FoldNext == FoldStep \/ FoldIdle

FoldSpec == FoldInit /\ [][FoldNext]_foldVars

(***************************************************************************)
(* Properties.                                                              *)
(***************************************************************************)

\* The pointers stay within their slices, although they advance by lengths read from
\* bytes that need not begin a character.
FoldTypeOK ==
  /\ a \in Seq(Byte) /\ b \in Seq(Byte)
  /\ pa \in 0 .. Len(a) /\ pb \in 0 .. Len(b)
  /\ pc \in {"new", "loop", "done", "panicked"}
  /\ res \in Orders \union {"Undecided"}

Starts(s) == {k \in 0 .. Len(s) - 1 : ~ Continuation(At(s, k))}

\* No character of a begins with the byte another character of b begins with.
NoSharedLead ==
  \A i \in Starts(a), j \in Starts(b) :
    At(a, i) = At(b, j) => CharAt(a, i) = CharAt(b, j)

\* On such texts decode_char is given the start of a whole character, although the
\* prefix skip and the step over equal bytes go by bytes, and the call cannot panic.
DecodesCharacters ==
  NoSharedLead =>
    /\ pc # "panicked"
    /\ BothWide => ~ Continuation(ca) /\ ~ Continuation(cb)

\* What src/src/lib.rs says of all public functions: guaranteed not to panic.
NeverPanics == pc # "panicked"
==============================================================================

------------------------------ MODULE Normalizer ------------------------------
(***************************************************************************)
(* A Normalizer of src/src/normalizer: it is configured, and then its       *)
(* `compare` is called on two texts.  `compare` runs one of the three       *)
(* comparisons on the texts themselves, or compares what `normalize`        *)
(* returns for them.  A text is a sequence of characters; the comparisons   *)
(* see its bytes.                                                           *)
(***************************************************************************)
EXTENDS CompareIgnoreCase, NaturalOrder

Seqs == INSTANCE SequencesExt

CONSTANTS
  Texts,           \* the texts that may be compared
  Normal(_, _),    \* simd_normalizer: the normal form of a text
  CaseFold(_)      \* simd_normalizer: simple case folding of a character

ASSUME TextsAssumption == Texts \subseteq Seq(CodePoint)

Forms == {"None", "Nfc", "Nfd", "Nfkc", "Nfkd"}

CaseModes == {"Sensitive"} \union FoldModes

VARIABLES
  feature,            \* whether the crate is built with `normalize`
  form, caseMode,     \* the configuration
  left, right         \* the arguments of `compare`

normVars == <<foldVars, feature, form, caseMode, left, right>>

Bytes(text) == Seqs!FlattenSeq([k \in 1 .. Len(text) |-> Encode(text[k])])

(***************************************************************************)
(* normalize, which returns a Cow.                                          *)
(***************************************************************************)
Borrowed(text) == [text |-> text, owned |-> FALSE]

Owned(text) == [text |-> text, owned |-> TRUE]

\* The first character only.
AsciiStart(text) == text # <<>> => text[1] < 128

IsAscii(text) == \A k \in 1 .. Len(text) : text[k] < 128

Normalized(text) == IF feature THEN Normal(form, text) ELSE text

\* Every text that is not ASCII is copied.
ApplyNormalizationCopies(text) ==
  IF form = "None" \/ IsAscii(text) THEN Borrowed(text) ELSE Owned(Normalized(text))

\* The crate's normal forms are borrowed where nothing is to be done.
ApplyNormalization(text) ==
  IF form = "None" \/ IsAscii(text) \/ Normalized(text) = text
  THEN Borrowed(text)
  ELSE Owned(Normalized(text))

\* A new string only if the replacement changes something.
Replaced(cow, folded) == IF folded = cow.text THEN cow ELSE Owned(folded)

FoldAscii(cow) ==
  Replaced(cow, [k \in 1 .. Len(cow.text) |-> LowerAscii(cow.text[k])])

FoldUnicode(cow) ==
  Replaced(cow, [k \in 1 .. Len(cow.text) |-> CaseFold(cow.text[k])])

\* char::to_lowercase of every character; `changed` is set by every character whose
\* lower case is not one byte long.
LowerEach(cow) ==
  LET lower == [k \in 1 .. Len(cow.text) |-> Lowercase(cow.text[k])]
      changed == \E k \in 1 .. Len(cow.text) :
                   Len(Bytes(lower[k])) # 1 \/ lower[k][1] # cow.text[k]
  IN  IF changed THEN Owned(Seqs!FlattenSeq(lower)) ELSE cow

FoldFull(cow) ==
  CASE IsAscii(cow.text)               -> FoldAscii(cow)
    [] ~ IsAscii(cow.text) /\ feature  -> FoldUnicode(cow)
    [] ~ IsAscii(cow.text) /\ ~feature -> LowerEach(cow)

ApplyCase(cow) ==
  CASE caseMode = "Sensitive" -> cow
    [] caseMode = "AsciiOnly" -> FoldAscii(cow)
    [] caseMode = "Fold"      -> FoldFull(cow)

Normalize(text) ==
  IF form = "None" /\ caseMode = "Sensitive"
  THEN Borrowed(text)
  ELSE ApplyCase(ApplyNormalization(text))

\* What Unicode says of ASCII: it has no other normal form and folds as LowerAscii does.
ASSUME NormalAssumption ==
  \A f \in Forms \ {"None"}, text \in Texts :
    /\ Normal(f, text) \in Seq(CodePoint)
    /\ (\A k \in 1 .. Len(text) : text[k] < 128) => Normal(f, text) = text

ASSUME FoldingAssumption ==
  /\ \A c \in CodePoint : CaseFold(c) \in CodePoint
  /\ \A c \in 0 .. 127 : CaseFold(c) = LowerAscii(c) /\ Lowercase(c) = <<LowerAscii(c)>>

(***************************************************************************)
(* The steps.                                                               *)
(***************************************************************************)
\* Normalizer::new and the arguments of the call to come.
NormInit ==
  /\ form = "None" /\ caseMode = "Sensitive"
  /\ feature \in BOOLEAN
  /\ left \in Texts /\ right \in Texts
  /\ a = <<>> /\ b = <<>> /\ pa = 0 /\ pb = 0
  /\ pc = "new"
  /\ res = "Undecided"
  /\ mode = "Unset"

Configuring ==
  /\ mode = "Unset"
  /\ UNCHANGED <<foldVars, feature, left, right>>

SetForm == Configuring /\ form' \in Forms /\ UNCHANGED caseMode

SetCase == Configuring /\ caseMode' \in CaseModes /\ UNCHANGED form

\* normalization_is_active.
Active == feature /\ form # "None"

Compare(comparison, x, y) ==
  /\ mode = "Unset"
  /\ mode' = comparison
  /\ a' = Bytes(x) /\ b' = Bytes(y)
  /\ UNCHANGED <<pa, pb, pc, res, feature, form, caseMode, left, right>>

CompareDirectly == ~ Active /\ Compare(caseMode, left, right)

\* The right text is compared as it came.
CompareHalfNormalized == Active /\ Compare("Sensitive", Normalize(left).text, right)

CompareNormalized ==
  Active /\ Compare("Sensitive", Normalize(left).text, Normalize(right).text)

SensitiveStep == mode = "Sensitive" /\ Step /\ UNCHANGED mode

Comparing ==
  /\ SensitiveStep \/ (mode \in FoldModes /\ FoldStep)
  /\ UNCHANGED <<feature, form, caseMode, left, right>>

Returned == pc \in {"done", "panicked"}

NormIdle == Returned /\ UNCHANGED normVars

NormNext ==
  SetForm \/ SetCase \/ CompareDirectly \/ CompareNormalized \/ Comparing \/ NormIdle

\* Once it has been called, `compare` goes on.
NormSpec == NormInit /\ [][NormNext]_normVars /\ WF_normVars(Comparing)

(***************************************************************************)
(* Properties.                                                              *)
(***************************************************************************)
\* Every character folds to one character, above 127 if it is, in both libraries.
Tame(text) ==
  \A k \in 1 .. Len(text) :
    text[k] >= 128 =>
      Lowercase(text[k]) = <<CaseFold(text[k])>> /\ CaseFold(text[k]) >= 128

NormalCmp ==
  LET x == Bytes(Normalize(left).text)
      y == Bytes(Normalize(right).text)
  IN  NaturalCmp(x, y)

\* Whichever comparison runs, and whether or not the texts are normalized first, the
\* answer is the natural order of the normalized texts: for tame texts without shared
\* lead bytes (section 5 of the README says what happens to the others).
NormalizedOrder ==
  /\ pc = "done"
  /\ Plain(a) /\ Plain(b)
  /\ mode \in FoldModes => Tame(left) /\ Tame(right) /\ NoSharedLead
  => res = NormalCmp

\* `normalize` makes a new string exactly if it changes the text, as src/src/lib.rs
\* says; a build without the normalize feature does so more often when it folds.
OwnedIffChanged ==
  feature \/ caseMode # "Fold" => (Normalize(left).owned <=> Normalize(left).text # left)

\* The shortcuts for ASCII text change nothing: the result is the folded normal form.
ShortcutsAgree ==
  LET Folded(c) == CASE caseMode = "Sensitive" -> <<c>>
                     [] caseMode = "AsciiOnly" -> <<LowerAscii(c)>>
                     [] caseMode = "Fold" -> IF feature THEN <<CaseFold(c)>> ELSE Lowercase(c)
      normal == IF form = "None" THEN left ELSE Normalized(left)
  IN  Normalize(left).text = Seqs!FlattenSeq([k \in 1 .. Len(normal) |-> Folded(normal[k])])

\* Every call of `compare` comes to an end, be it a panic.
CompareReturns == (mode # "Unset") ~> Returned

Reflected == INSTANCE CompareIgnoreCase
  WITH a <- b, b <- a, pa <- pb, pb <- pa, res <- Reversed(res)

WellBehaved == WsFree(a) /\ WsFree(b) /\ NoSharedLead

\* On such texts without white space, every step of the comparison that folds is a step
\* of the comparison with the arguments exchanged: its order is antisymmetric.
FoldMirrorImage ==
  [][WellBehaved /\ mode \in FoldModes /\ FoldStep => Reflected!FoldStep]_normVars

\* The header of normalizer/mod.rs: normalization and case folding happen once per
\* string, and after that the case-sensitive comparator is used.
FoldedOnce ==
  pc = "done" /\ Normalize(left).text = Normalize(right).text => res = "Equal"
==============================================================================

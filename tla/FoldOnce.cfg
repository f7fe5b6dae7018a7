\* The design of the normalizer: folded once, then compared case-sensitively.
CONSTANTS
  ShortRun = 2
  Strings <- MCStrings
  Texts <- MCTexts
  AnyChar <- MCAnyChar
  Lowercase <- MCLowercase
  CaseFold <- MCCaseFold
  Normal <- MCNormal
SPECIFICATION NormSpec
INVARIANTS
  FoldedOnce
